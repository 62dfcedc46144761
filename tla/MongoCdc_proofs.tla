--------------------------- MODULE MongoCdc_proofs --------------------------
(***************************************************************************)
(* Proofs about MongoCdc, for any documents, batch limit, log and number   *)
(* of failures.                                                            *)
(*                                                                         *)
(* ChangesDelivered speaks of the tokens in memory and in the storage.     *)
(* What makes it inductive is what the tick in progress knows: the stream  *)
(* starts at the token, its batch reaches to the next token, its rows are  *)
(* the documents whose last change is in the batch, and no others; and of  *)
(* a write that may land late, that its rows are current unless their      *)
(* documents changed after its end.                                        *)
(***************************************************************************)
EXTENDS MongoCdc, DataLemmas

\* What a step that names no prover is tried with: the translation of a large
\* obligation for the SMT solver may be cut short, and is then repeated.
USE SMTT(15), ZenonT(20), Z3T(15), SMTT(20)

Event == [op : {"insert", "update", "delete", "drop"}, keys : SUBSET Key]

\* Change i concerns the document k.
Touches(l, i, k) == k \in l[i].keys \/ l[i].op = "drop"

\* It is the last one of k.
IsLast(l, i, k) ==
    i \in DOMAIN l /\ Touches(l, i, k) /\ \A j \in DOMAIN l : Touches(l, j, k) => j <= i

\* At most one position of the log l.
Optional(l) == {{}} \cup {{n} : n \in 0..Len(l)}

CdcTypes ==
    /\ mode \in {"PostImage", "LookupOnUpdate"}
    /\ log \in Seq(Event) /\ docs \in [Key -> Nat]
    /\ stored \in Optional(log) /\ token \in Optional(log)
    /\ next \in Optional(log) /\ start \in Optional(log)
    /\ from \in 0..Len(log)

\* A drop ends the log and names no document; every other change names one.
LogInv ==
    \A i \in DOMAIN log :
        IF log[i].op = "drop" THEN i = Len(log) /\ log[i].keys = {}
        ELSE \E k \in Key : log[i].keys = {k}

\* The collection is what the log left.
DocsInv ==
    \A k \in Key : \A i \in DOMAIN log : IsLast(log, i, k) =>
        docs[k] = IF log[i].op \in {"delete", "drop"} THEN 0 ELSE i

\* Documents whose last change is among the changes a+1..b are in the sink,
\* but for those an overtaken batch wrote last.
InSink(a, b) ==
    \A k \in Key \ regressed : \A i \in (a + 1)..b : IsLast(log, i, k) => sink[k] = docs[k]

\* A stream starts at the token, or is the one the first token comes from.
StreamInv ==
    pc # "idle" => IF token = {} THEN start = {from} ELSE token = {from}

\* A batch reaches from there to the next token.
BatchInv ==
    pc \in {"drained", "write", "save"} =>
        \/ pc = "drained" /\ events = {}
        \/ \E n \in (from + 1)..Len(log) :
              next = {n} /\ events = Dedup((from + 1)..n)

\* Its rows are of documents it changed; the row of a document whose last
\* change it is holds the document.
RowsInv ==
    pc \in {"write", "save"} => \A n \in next :
        /\ log[n].op # "drop"
        /\ \A r \in rows : \E i \in (from + 1)..n : r[1] \in log[i].keys
        /\ \A k \in Key : \A i \in (from + 1)..n : IsLast(log, i, k) =>
              {r \in rows : r[1] = k} = {<<k, docs[k]>>}

\* A row holds its document, unless that changed after n.
RowsCurrent(R, n) ==
    \A r \in R : r[1] \in Key /\ \A i \in 1..n : IsLast(log, i, r[1]) => r = <<r[1], docs[r[1]]>>

\* So it is with the rows of a write that was given up on.
LateInv ==
    /\ lateSaves \subseteq 0..Len(log)
    /\ \A w \in lateWrites : w.end \in 0..Len(log) /\ RowsCurrent(w.rows, w.end)

Delivered == \A s \in start, t \in Reached : InSink(s, t)

TokenInv == \A t \in Reached : t # 0 => log[t].op # "drop"

CdcInv ==
    /\ CdcTypes /\ LogInv /\ DocsInv /\ StreamInv /\ BatchInv /\ RowsInv
    /\ LateInv /\ Delivered /\ TokenInv

-----------------------------------------------------------------------------
(* The log.                                                                *)

\* A stored token is a position of the log.
LEMMA OptionalIn ==
    ASSUME NEW l, NEW S \in Optional(l), NEW x \in S
    PROVE  x \in 0..Len(l)
  BY DEF Optional

\* A new change leaves the old ones as they were; it is the last one of the
\* documents it concerns.
LEMMA LogGrows ==
    ASSUME NEW l \in Seq(Event), NEW e \in Event
    PROVE  /\ Append(l, e) \in Seq(Event) /\ Len(Append(l, e)) = Len(l) + 1 /\ Len(l) \in Nat
           /\ DOMAIN l = 1..Len(l) /\ DOMAIN Append(l, e) = 1..(Len(l) + 1)
           /\ \A i \in DOMAIN l : Append(l, e)[i] = l[i]
           /\ Append(l, e)[Len(l) + 1] = e
           /\ Optional(l) \subseteq Optional(Append(l, e))
           /\ \A k : \A i \in DOMAIN l :
                 IsLast(Append(l, e), i, k) => IsLast(l, i, k) /\ ~(k \in e.keys \/ e.op = "drop")
  <1>1. /\ Append(l, e) \in Seq(Event) /\ Len(Append(l, e)) = Len(l) + 1 /\ Len(l) \in Nat
        /\ DOMAIN l = 1..Len(l) /\ DOMAIN Append(l, e) = 1..(Len(l) + 1)
        /\ \A i \in DOMAIN l : Append(l, e)[i] = l[i]
        /\ Append(l, e)[Len(l) + 1] = e
    OBVIOUS
  <1> DEFINE m == Append(l, e)
             x == Len(l) + 1
  <1>2. 0..Len(l) \subseteq 0..Len(m) /\ DOMAIN l \subseteq DOMAIN m /\ x \in DOMAIN m
        /\ \A i \in DOMAIN l : ~(x <= i)
    BY <1>1
  <1> HIDE DEF m, x
  <1>3. Optional(l) \subseteq Optional(m)
    BY <1>2, ZenonT(40) DEF Optional
  <1>4. /\ \A i \in DOMAIN l : m[i] = l[i]
        /\ m[x] = e
    BY <1>1 DEF m, x
  <1>5. ASSUME NEW k, NEW i \in DOMAIN l, IsLast(m, i, k)
        PROVE  IsLast(l, i, k) /\ ~(k \in e.keys \/ e.op = "drop")
    BY <1>2, <1>4, <1>5, ZenonT(40) DEF IsLast, Touches
  <1> QED
    BY <1>1, <1>3, <1>5 DEF m

\* LastChange is the last one, if there is one.
LEMMA LastChangeIs ==
    ASSUME log \in Seq(Event), NEW k \in Key, LastChange(k) # 0
    PROVE  IsLast(log, LastChange(k), k)
  <1> DEFINE T == {0} \cup {i \in DOMAIN log : k \in log[i].keys \/ log[i].op = "drop"}
  <1>1. Len(log) \in Nat /\ DOMAIN log = 1..Len(log)
    OBVIOUS
  <1>2. T \in SUBSET (0..Len(log)) /\ T # {}
    BY <1>1
  <1>3. Max(T) \in T /\ \A y \in T : y <= Max(T)
    <2> HIDE DEF T
    <2> QED
      BY ZenonT(40), <1>1, <1>2, MaxOf
  <1>4. LastChange(k) = Max(T)
    BY DEF LastChange
  <1> QED
    BY <1>3, <1>4, ZenonT(40) DEF IsLast, Touches

-----------------------------------------------------------------------------
(* The steps.                                                              *)

\* The invariant holds when the flow starts.
LEMMA CdcInit == Init => CdcInv
  <1> SUFFICES ASSUME Init PROVE CdcInv
    OBVIOUS
  <1>1. log \in Seq(Event) /\ Len(log) = 0 /\ DOMAIN log = {}
    BY DEF Init
  <1>2. stored = {} \/ stored = {0}
    BY ZenonT(40) DEF Init
  <1>3. 0 \in 0..Len(log)
    BY <1>1
  <1>4. {} \in Optional(log) /\ {0} \in Optional(log)
    BY <1>3, ZenonT(40) DEF Optional
  <1>5. mode \in {"PostImage", "LookupOnUpdate"}
    BY CdcAssumption, ZenonT(40) DEF Init
  <1>6. docs \in [Key -> Nat]
    BY DEF Init
  <1>7. CdcTypes
    BY <1>1, <1>2, <1>3, <1>4, <1>5, <1>6, ZenonT(40) DEF CdcTypes, Init
  <1>8. LogInv /\ DocsInv
    BY <1>1, ZenonT(40) DEF LogInv, DocsInv
  <1>9. pc = "idle"
    BY DEF Init
  <1>10. StreamInv /\ BatchInv /\ RowsInv
    BY <1>9 DEF StreamInv, BatchInv, RowsInv
  <1>11. LateInv /\ Reached = stored
    BY <1>9 DEF LateInv, Reached, Init
  <1>12. (\A s \in start : s = 0) /\ \A t \in Reached : t = 0
    BY <1>2, <1>11, ZenonT(40) DEF Init
  <1>13. Delivered
    BY <1>12 DEF Delivered, InSink
  <1>14. TokenInv
    BY <1>12 DEF TokenInv
  <1> QED
    BY <1>7, <1>8, <1>10, <1>11, <1>13, <1>14 DEF CdcInv

\* What holds of the changes up to b holds when a change is added after them.
LEMMA InSinkGrows ==
    ASSUME CdcTypes, NEW e \in Event, log' = Append(log, e), sink' = sink,
           regressed' = regressed,
           \A k \in Key : ~(k \in e.keys \/ e.op = "drop") => docs'[k] = docs[k],
           NEW a \in Nat, NEW b \in 0..Len(log), InSink(a, b)
    PROVE  InSink(a, b)'
  <1>1. log \in Seq(Event) /\ Len(log) \in Nat /\ DOMAIN log = 1..Len(log)
    BY DEF CdcTypes
  <1>2. (a + 1)..b \subseteq DOMAIN log
    BY <1>1
  <1>3. \A k : \A i \in DOMAIN log :
            IsLast(log', i, k) => IsLast(log, i, k) /\ ~(k \in e.keys \/ e.op = "drop")
    BY <1>1, LogGrows
  <1>4. a' = a /\ b' = b
    OBVIOUS
  <1>5. ASSUME NEW k \in Key \ regressed, NEW i \in (a + 1)..b, IsLast(log', i, k)
        PROVE  sink'[k] = docs'[k]
    <2>1. IsLast(log, i, k) /\ ~(k \in e.keys \/ e.op = "drop")
      BY <1>2, <1>3, <1>5, ZenonT(40)
    <2>2. sink[k] = docs[k]
      BY <2>1, ZenonT(40) DEF InSink
    <2> QED
      BY <2>1, <2>2, ZenonT(40)
  <1> QED
    BY <1>4, <1>5 DEF InSink

\* The tokens reached are positions of the log.
LEMMA ReachedIn ==
    ASSUME CdcInv, NEW t \in Reached
    PROVE  t \in 0..Len(log)
  BY OptionalIn DEF CdcInv, CdcTypes, LateInv, Reached

\* A change of the collection, whatever the flow is doing.
LEMMA CdcGrows ==
    ASSUME CdcInv, NEW e \in Event, log' = Append(log, e), ~Dropped,
           UNCHANGED <<flow, flowVars>>, docs' \in [Key -> Nat],
           IF e.op = "drop" THEN e.keys = {} ELSE \E k \in Key : e.keys = {k},
           \A k \in Key : docs'[k] = IF ~(k \in e.keys \/ e.op = "drop") THEN docs[k]
                                     ELSE IF e.op \in {"delete", "drop"} THEN 0 ELSE Len(log) + 1
    PROVE  CdcInv'
  <1> USE DEF CdcInv
  <1>1. log \in Seq(Event) /\ Len(log) \in Nat
    BY DEF CdcTypes
  <1>2. /\ log' \in Seq(Event) /\ Len(log') = Len(log) + 1
        /\ DOMAIN log = 1..Len(log) /\ DOMAIN log' = 1..(Len(log) + 1)
        /\ \A i \in DOMAIN log : log'[i] = log[i]
        /\ log'[Len(log) + 1] = e
        /\ Optional(log) \subseteq Optional(log')
        /\ \A k : \A i \in DOMAIN log :
              IsLast(log', i, k) => IsLast(log, i, k) /\ ~(k \in e.keys \/ e.op = "drop")
    BY <1>1, LogGrows
  <1>3. \A i \in DOMAIN log' : i \in DOMAIN log \/ i = Len(log')
    BY <1>1, <1>2
  <1>4. /\ mode' = mode /\ sink' = sink /\ stored' = stored /\ token' = token /\ pc' = pc
        /\ from' = from /\ events' = events /\ rows' = rows /\ next' = next
        /\ start' = start /\ lateWrites' = lateWrites /\ lateSaves' = lateSaves
        /\ regressed' = regressed /\ Reached' = Reached
    BY DEF flowVars, flow, tick, late, Reached
  <1>5. 0..Len(log) \subseteq 0..Len(log')
    BY <1>1, <1>2
  <1>6. CdcTypes'
    BY <1>2, <1>4, <1>5, ZenonT(40) DEF CdcTypes
  <1>7. LogInv'
    <2>1. \A i \in DOMAIN log : log[i].op # "drop"
      BY ZenonT(40) DEF Dropped
    <2> SUFFICES ASSUME NEW i \in DOMAIN log'
                 PROVE  IF log'[i].op = "drop" THEN i = Len(log') /\ log'[i].keys = {}
                        ELSE \E k \in Key : log'[i].keys = {k}
      BY DEF LogInv
    <2>2. CASE i \in DOMAIN log
      <3>1. \E k \in Key : log[i].keys = {k}
        BY <2>1, <2>2, ZenonT(40) DEF LogInv
      <3> QED
        BY <1>2, <2>1, <2>2, <3>1, ZenonT(40)
    <2>3. CASE i = Len(log')
      BY <1>2, <2>3
    <2> QED
      BY <1>3, <2>2, <2>3
  <1>8. DocsInv'
    <2> SUFFICES ASSUME NEW k \in Key, NEW i \in DOMAIN log', IsLast(log', i, k)
                 PROVE  docs'[k] = IF log'[i].op \in {"delete", "drop"} THEN 0 ELSE i
      BY DEF DocsInv
    <2>1. CASE i \in DOMAIN log
      <3>1. IsLast(log, i, k) /\ docs'[k] = docs[k] /\ log'[i] = log[i]
        BY <1>2, <2>1, ZenonT(40)
      <3> QED
        BY <2>1, <3>1, ZenonT(40) DEF DocsInv
    <2>2. CASE i = Len(log')
      <3>1. log'[i] = e /\ i = Len(log) + 1
        BY <1>2, <2>2
      <3>2. k \in e.keys \/ e.op = "drop"
        BY <3>1, ZenonT(40) DEF IsLast, Touches
      <3> QED
        BY <3>1, <3>2, ZenonT(40)
    <2> QED
      BY <1>3, <2>1, <2>2
  <1>9. StreamInv'
    BY <1>4 DEF StreamInv
  <1>10. ASSUME NEW n \in (from + 1)..Len(log)
         PROVE  /\ n \in (from + 1)..Len(log') /\ (from + 1)..n \subseteq DOMAIN log
                /\ n \in DOMAIN log
                /\ Dedup((from + 1)..n)' = Dedup((from + 1)..n)
    <2>1. /\ n \in (from + 1)..Len(log') /\ (from + 1)..n \subseteq DOMAIN log
          /\ n \in DOMAIN log
      BY <1>1, <1>2 DEF CdcTypes
    <2> DEFINE E == (from + 1)..n
    <2>2. E' = E /\ \A i \in E : log'[i] = log[i]
      BY <1>2, <1>4, <2>1
    <2>3. Dedup(E)' = Dedup(E)
      <3> HIDE DEF E
      <3> QED
        BY ZenonT(40), <2>2 DEF Dedup
    <2> QED
      BY <2>1, <2>3
  <1>11. BatchInv'
    BY <1>4, <1>10, ZenonT(40) DEF BatchInv
  <1>12. ASSUME pc \in {"write", "save"}, NEW n \in next
         PROVE  n \in (from + 1)..Len(log) /\ n \in 0..Len(log) /\ from \in Nat
    BY <1>1, <1>12 DEF BatchInv, CdcTypes
  <1>13. RowsInv'
    <2> SUFFICES ASSUME pc \in {"write", "save"}, NEW n \in next
                 PROVE  /\ log'[n].op # "drop"
                        /\ \A r \in rows : \E i \in (from + 1)..n : r[1] \in log'[i].keys
                        /\ \A k \in Key : \A i \in (from + 1)..n : IsLast(log', i, k) =>
                              {r \in rows : r[1] = k} = {<<k, docs'[k]>>}
      BY ZenonT(40), <1>4 DEF RowsInv
    <2>1. /\ log[n].op # "drop"
          /\ \A r \in rows : \E i \in (from + 1)..n : r[1] \in log[i].keys
          /\ \A k \in Key : \A i \in (from + 1)..n : IsLast(log, i, k) =>
                {r \in rows : r[1] = k} = {<<k, docs[k]>>}
      BY ZenonT(40) DEF RowsInv
    <2>2. (from + 1)..n \subseteq DOMAIN log /\ n \in DOMAIN log
      BY <1>10, <1>12, ZenonT(40)
    <2>3. /\ log'[n].op # "drop"
          /\ \A r \in rows : \E i \in (from + 1)..n : r[1] \in log'[i].keys
      BY <1>2, <2>1, <2>2, ZenonT(40)
    <2>4. ASSUME NEW k \in Key, NEW i \in (from + 1)..n, IsLast(log', i, k)
          PROVE  {r \in rows : r[1] = k} = {<<k, docs'[k]>>}
      <3>1. IsLast(log, i, k) /\ docs'[k] = docs[k]
        BY <1>2, <2>2, <2>4, ZenonT(40)
      <3> QED
        BY <2>1, <3>1
    <2> QED
      BY ZenonT(40), <2>3, <2>4
  <1>14. \A k \in Key : ~(k \in e.keys \/ e.op = "drop") => docs'[k] = docs[k]
    BY ZenonT(40)
  <1>15. LateInv'
    <2>1. lateSaves' \subseteq 0..Len(log')
      BY <1>4, <1>5, ZenonT(40) DEF LateInv
    <2>2. ASSUME NEW w \in lateWrites
          PROVE  w.end \in 0..Len(log') /\ RowsCurrent(w.rows, w.end)'
      <3>1. w.end \in 0..Len(log) /\ RowsCurrent(w.rows, w.end)
        BY DEF LateInv
      <3>2. 1..w.end \subseteq DOMAIN log
        BY <1>1, <1>2, <3>1
      <3>3. ASSUME NEW r \in w.rows, NEW i \in 1..w.end, IsLast(log', i, r[1])
            PROVE  r = <<r[1], docs'[r[1]]>>
        <4>1. IsLast(log, i, r[1]) /\ ~(r[1] \in e.keys \/ e.op = "drop")
          BY <1>2, <3>2, <3>3, ZenonT(40)
        <4>2. r[1] \in Key /\ r = <<r[1], docs[r[1]]>>
          BY <3>1, <4>1, ZenonT(40) DEF RowsCurrent
        <4>3. docs'[r[1]] = docs[r[1]]
          BY <1>14, <4>1, <4>2, ZenonT(40)
        <4> QED
          BY <4>2, <4>3, ZenonT(40)
      <3>4. \A r \in w.rows : r[1] \in Key
        BY <3>1 DEF RowsCurrent
      <3> QED
        BY <1>5, <3>1, <3>3, <3>4, ZenonT(40) DEF RowsCurrent
    <2> QED
      BY <1>4, <2>1, <2>2 DEF LateInv
  <1>16. ASSUME NEW t \in Reached
         PROVE  t \in 0..Len(log)
    BY <1>16, ReachedIn
  <1>17. Delivered'
    <2> SUFFICES ASSUME NEW s \in start, NEW t \in Reached PROVE InSink(s, t)'
      BY <1>4 DEF Delivered
    <2>1. InSink(s, t)
      BY DEF Delivered
    <2>2. s \in 0..Len(log) /\ t \in 0..Len(log)
      BY <1>16, OptionalIn DEF CdcTypes
    <2>3. s \in Nat
      BY <1>1, <2>2
    <2> QED
      BY <1>4, <1>14, <2>1, <2>2, <2>3, InSinkGrows
  <1>18. TokenInv'
    <2>1. \A t \in Reached : t # 0 => t \in DOMAIN log
      BY <1>1, <1>2, <1>16
    <2> QED
      BY <1>2, <1>4, <2>1, ZenonT(40) DEF TokenInv
  <1> QED
    BY <1>6, <1>7, <1>8, <1>9, <1>11, <1>13, <1>15, <1>17, <1>18

\* The parts of the invariant that a step of the flow leaves alone.
LEMMA CdcKeeps ==
    ASSUME CdcInv, UNCHANGED <<flow, source>>
    PROVE  /\ LogInv' /\ DocsInv'
           /\ log \in Seq(Event) /\ Len(log) \in Nat /\ DOMAIN log = 1..Len(log)
  BY DEF CdcInv, LogInv, DocsInv, CdcTypes, flow, source

\* A tick that ends: nothing is in progress, and no token is new.
LEMMA CdcIdle ==
    ASSUME CdcInv, EndTick, UNCHANGED <<flow, source, start>>,
           token' \in Optional(log), stored' \in Optional(log), Reached' \subseteq Reached,
           LateInv', \A s \in start, t \in Reached : InSink(s, t)'
    PROVE  CdcInv'
  <1>1. LogInv' /\ DocsInv' /\ Len(log) \in Nat
    BY CdcKeeps
  <1>2. pc' = "idle" /\ next' = {} /\ from' = 0
    BY DEF EndTick
  <1>3. next' \in Optional(log) /\ from' \in 0..Len(log)
    BY <1>1, <1>2 DEF Optional
  <1>4. CdcTypes'
    BY <1>3 DEF CdcTypes, CdcInv, flow, source
  <1>5. StreamInv' /\ BatchInv' /\ RowsInv'
    BY <1>2 DEF StreamInv, BatchInv, RowsInv
  <1>6. TokenInv' /\ Delivered'
    BY DEF CdcInv, TokenInv, Delivered, source
  <1> QED
    BY <1>1, <1>4, <1>5, <1>6 DEF CdcInv

\* The sink is left alone.
LEMMA CdcStays ==
    ASSUME CdcInv, UNCHANGED <<source, sink, start, regressed>>
    PROVE  \A s \in start, t \in Reached : InSink(s, t)'
  BY DEF CdcInv, Delivered, InSink, source

\* So are the calls in flight.
LEMMA CdcLate ==
    ASSUME CdcInv, UNCHANGED <<source, late>>
    PROVE  LateInv'
  BY DEF CdcInv, LateInv, RowsCurrent, source, late

\* The stream opens at the token, or at the present.
LEMMA CdcOpens == ASSUME CdcInv, OpenStream PROVE CdcInv'
  <1>1. LogInv' /\ DocsInv' /\ log \in Seq(Event) /\ Len(log) \in Nat
    BY CdcKeeps DEF OpenStream
  <1>2. token = {} \/ \E t \in 0..Len(log) : token = {t}
    BY ZenonT(40) DEF CdcInv, CdcTypes, Optional
  <1>3. IF token = {} THEN from' = Len(log) ELSE token = {from'} /\ from' \in 0..Len(log)
    <2>1. CASE token = {}
      BY <2>1 DEF OpenStream
    <2>2. ASSUME NEW t \in 0..Len(log), token = {t}
          PROVE  from' = t /\ token # {}
      <3>1. t \in Nat
        BY <1>1
      <3> QED
        BY <2>2, <3>1, MaxOfOne DEF OpenStream
    <2> QED
      BY <1>2, <2>1, <2>2
  <1>4. from' \in 0..Len(log)
    BY <1>1, <1>3
  <1>5. start' = (IF token = {} THEN {from'} ELSE start) /\ token' = token /\ pc' = "opened"
        /\ next' = next /\ stored' = stored /\ log' = log /\ docs' = docs /\ sink' = sink
        /\ mode' = mode /\ pc = "idle"
    BY DEF OpenStream, flow, source
  <1>6. {from'} \in Optional(log)
    BY <1>4, ZenonT(40) DEF Optional
  <1>7. start' \in Optional(log)
    BY <1>5, <1>6 DEF CdcInv, CdcTypes
  <1>8. CdcTypes'
    BY <1>4, <1>5, <1>7 DEF CdcInv, CdcTypes
  <1>9. StreamInv'
    BY <1>3, <1>5 DEF StreamInv
  <1>10. BatchInv' /\ RowsInv'
    BY <1>5 DEF BatchInv, RowsInv
  <1>11. LateInv'
    BY CdcLate DEF OpenStream
  <1>12. Reached' = Reached
    BY <1>5 DEF Reached, OpenStream, late
  <1>13. TokenInv'
    BY <1>5, <1>12 DEF CdcInv, TokenInv
  <1>14. Delivered'
    <2>1. CASE token # {}
      BY <1>5, <1>12, <2>1 DEF CdcInv, Delivered, InSink, OpenStream
    <2>2. CASE token = {}
      <3>1. start' = {Len(log)}
        BY <1>3, <1>5, <2>2
      <3>2. ASSUME NEW t \in Reached PROVE (Len(log) + 1)..t = {}
        BY <1>1, ReachedIn
      <3> QED
        BY <1>5, <1>12, <3>1, <3>2 DEF Delivered, InSink
    <2> QED
      BY <2>1, <2>2
  <1> QED
    BY <1>1, <1>8, <1>9, <1>10, <1>11, <1>13, <1>14 DEF CdcInv

\* A batch is the stretch of the log from the token on.
LEMMA CdcDrains == ASSUME CdcInv, DrainStream PROVE CdcInv'
  <1>1. LogInv' /\ DocsInv' /\ log \in Seq(Event) /\ Len(log) \in Nat
    BY CdcKeeps DEF DrainStream
  <1>2. PICK n \in 0..Limit :
            /\ from + n <= Len(log) /\ (n = 0 => from = Len(log))
            /\ events' = Dedup((from + 1)..(from + n))
            /\ next' \in IF n = 0 THEN {{}, {Len(log)}} ELSE {{from + n}}
    BY DEF DrainStream
  <1>3. /\ pc = "opened" /\ pc' = "drained"
        /\ UNCHANGED <<mode, log, docs, sink, stored, token, from, rows, start, regressed>>
        /\ Reached' = Reached /\ LateInv'
    BY CdcLate DEF DrainStream, flow, source, late, Reached
  <1>4. from \in 0..Len(log) /\ from \in Nat /\ n \in Nat
    BY <1>1, <1>2, CdcAssumption DEF CdcInv, CdcTypes
  <1>5. n = 0 => events' = {}
    <2>1. n = 0 => (from + 1)..(from + n) = {}
      BY <1>4
    <2>2. Dedup({}) = {}
      BY DEF Dedup
    <2> QED
      BY <1>2, <2>1, <2>2
  <1>6. n # 0 => from + n \in (from + 1)..Len(log) /\ next' = {from + n}
    BY <1>1, <1>2, <1>4
  <1>7. Len(log) \in 0..Len(log) /\ (n # 0 => from + n \in 0..Len(log))
    BY <1>1, <1>2, <1>4
  <1>8. next' \in Optional(log)
    BY <1>2, <1>6, <1>7, ZenonT(40) DEF Optional
  <1>9. CdcTypes'
    BY <1>3, <1>8 DEF CdcInv, CdcTypes
  <1>10. BatchInv'
    <2> SUFFICES \/ events' = {}
                 \/ \E m \in (from + 1)..Len(log) :
                       next' = {m} /\ events' = Dedup((from + 1)..m)
      BY <1>3 DEF BatchInv, Dedup
    <2> QED
      BY <1>2, <1>5, <1>6, ZenonT(40)
  <1>11. StreamInv' /\ RowsInv' /\ TokenInv' /\ Delivered'
    BY <1>3 DEF CdcInv, StreamInv, RowsInv, TokenInv, Delivered, InSink
  <1> QED
    BY <1>1, <1>3, <1>9, <1>10, <1>11 DEF CdcInv

\* A tick that ends as if it had not been.
LEMMA CdcAgain ==
    ASSUME CdcInv, EndTick, UNCHANGED <<flow, source, sink, stored, token, late, start, regressed>>
    PROVE  CdcInv'
  <1>1. token' \in Optional(log) /\ stored' \in Optional(log)
    BY DEF CdcInv, CdcTypes
  <1>2. Reached' \subseteq Reached
    BY DEF EndTick, Reached, late
  <1>3. LateInv' /\ \A s \in start, t \in Reached : InSink(s, t)'
    BY CdcLate, CdcStays
  <1> QED
    BY <1>1, <1>2, <1>3, CdcIdle

\* The rows of a batch without a drop.  The last change of a document in the
\* batch survives the deduplication, and is the only one that does.
LEMMA CdcBuilds == ASSUME CdcInv, BuildRows PROVE CdcInv'
  <1>1. LogInv' /\ DocsInv' /\ log \in Seq(Event) /\ Len(log) \in Nat /\ DOMAIN log = 1..Len(log)
    BY CdcKeeps DEF BuildRows
  <1> DEFINE R == UNION {RowsOf(i) : i \in events}
  <1>2. /\ pc = "drained" /\ \A i \in events : log[i].op # "drop"
        /\ UNCHANGED <<mode, log, docs, sink, stored, token, start, regressed>>
        /\ UNCHANGED <<flow, source, late>>
    BY DEF BuildRows, flow, source
  <1>3. CASE R = {} /\ EndTick
    BY <1>2, <1>3, CdcAgain
  <1>4. CASE R # {} /\ rows' = R /\ pc' = "write" /\ UNCHANGED <<from, events, next>>
    <2>1. events # {}
      BY <1>4
    <2>2. PICK n \in (from + 1)..Len(log) : next = {n} /\ events = Dedup((from + 1)..n)
      BY <1>2, <2>1 DEF CdcInv, BatchInv
    <2>3. from \in Nat /\ n \in Nat /\ n \in (from + 1)..n /\ (from + 1)..n \subseteq DOMAIN log
          /\ \A i \in (from + 1)..n : i \in Nat /\ i <= n
      BY <1>1, <2>2 DEF CdcInv, CdcTypes
    <2> DEFINE E == (from + 1)..n
    <2>4. \A i \in E : i \in Nat /\ i <= n /\ i \in DOMAIN log
      BY <2>3, ZenonT(40)
    <2> HIDE DEF E
    <2>5. n \in E /\ events = Dedup(E)
      BY <2>2, <2>3 DEF E
    <2>6. log[n].op # "drop"
      <3>1. \A j \in E : ~(j > n)
        BY <2>3, <2>4
      <3>2. n \in events
        BY <2>5, <3>1 DEF Dedup
      <3> QED
        BY <1>2, <3>2
    <2>7. \A i \in E : log[i].op # "drop"
      <3> SUFFICES ASSUME NEW i \in E, log[i].op = "drop" PROVE FALSE
        OBVIOUS
      <3>1. i = Len(log)
        BY <2>4, ZenonT(40) DEF CdcInv, LogInv
      <3>2. n <= Len(log) /\ i <= n /\ i \in Nat /\ n \in Nat /\ Len(log) \in Nat
        BY <1>1, <2>2, <2>3, <2>4
      <3>3. \A a, b, c \in Nat : a <= b /\ c <= a /\ c = b => c = a
        OBVIOUS
      <3>4. i = n
        BY <3>1, <3>2, <3>3, ZenonT(40)
      <3> QED
        BY <2>6, <3>4
    <2>8. ASSUME NEW r \in rows'
          PROVE  \E i \in E : r[1] \in log[i].keys
      <3>1. PICK i \in events : r \in RowsOf(i)
        BY <1>4
      <3>2. PICK k \in log[i].keys : r[1] = k
        BY <3>1 DEF RowsOf
      <3>3. i \in E
        BY <2>5 DEF Dedup
      <3> QED
        BY <3>2, <3>3
    <2>9. ASSUME NEW k \in Key, NEW i \in E, IsLast(log, i, k)
          PROVE  {r \in rows' : r[1] = k} = {<<k, docs[k]>>}
      <3>1. k \in log[i].keys /\ log[i].keys = {k} /\ log[i].op # "drop"
        <4>1. k \in log[i].keys
          BY <2>7, <2>9 DEF IsLast, Touches
        <4>2. \E x \in Key : log[i].keys = {x}
          BY <2>4, <2>7 DEF CdcInv, LogInv
        <4> QED
          BY <2>7, <4>1, <4>2
      <3>2. \A j \in E : k \in log[j].keys => j <= i
        BY <2>4, <2>9 DEF IsLast, Touches
      <3>3. i \in events
        <4>1. \A j \in E : j > i => log[i].keys \cap log[j].keys = {}
          BY <2>4, <3>1, <3>2
        <4> QED
          BY <2>5, <4>1 DEF Dedup
      <3>4. \A j \in events : k \in log[j].keys => j = i
        <4> SUFFICES ASSUME NEW j \in events, k \in log[j].keys, j # i PROVE FALSE
          OBVIOUS
        <4>1. j \in E /\ ~(\E m \in E : m > j /\ log[j].keys \cap log[m].keys # {})
          BY <2>5 DEF Dedup
        <4>2. j <= i
          BY <3>2, <4>1
        <4>3. i > j
          BY <2>4, <4>1, <4>2
        <4> QED
          BY <3>1, <4>1, <4>3
      <3>5. docs[k] = IF log[i].op = "delete" THEN 0 ELSE i
        BY <2>4, <2>9, <3>1 DEF CdcInv, DocsInv
      <3>6. i # 0
        BY <1>1, <2>4
      <3>7. RowsOf(i) = {<<k, docs[k]>>}
        <4> DEFINE v == IF log[i].op = "delete" THEN 0
                        ELSE IF mode = "PostImage" \/ log[i].op = "insert" THEN i
                        ELSE docs[k]
        <4>1. v = docs[k]
          BY <3>5
        <4>2. mode = "LookupOnUpdate" /\ log[i].op = "update" => docs[k] # 0
          BY <3>5, <3>6
        <4>3. {x \in log[i].keys : mode = "LookupOnUpdate" /\ log[i].op = "update" => docs[x] # 0} = {k}
          BY <3>1, <4>2
        <4> QED
          BY <4>1, <4>3 DEF RowsOf
      <3>8. \A j \in events : \A r \in RowsOf(j) : r[1] \in log[j].keys
        BY DEF RowsOf
      <3>9. ASSUME NEW r \in rows', r[1] = k
            PROVE  r = <<k, docs[k]>>
        <4>1. PICK j \in events : r \in RowsOf(j)
          BY <1>4
        <4>2. j = i
          BY <3>4, <3>8, <3>9, <4>1
        <4> QED
          BY <3>7, <4>1, <4>2
      <3>10. <<k, docs[k]>> \in rows'
        BY <1>4, <3>3, <3>7
      <3> QED
        BY <3>9, <3>10
    <2>10. RowsInv'
      <3>1. next' = {n} /\ from' = from /\ log' = log /\ docs' = docs
        BY <1>2, <1>4, <2>2
      <3> QED
        BY <2>6, <2>8, <2>9, <3>1 DEF RowsInv, E
    <2>11. BatchInv'
      <3>1. next' = {n} /\ from' = from /\ log' = log /\ events' = Dedup((from + 1)..n)
        BY <1>2, <1>4, <2>2
      <3>2. Dedup((from + 1)..n)' = Dedup((from + 1)..n)
        BY <3>1 DEF Dedup
      <3> QED
        BY <2>2, <3>1, <3>2, ZenonT(40) DEF BatchInv
    <2>12. Reached' = Reached /\ LateInv'
      BY <1>2, <1>4, CdcLate DEF Reached, late
    <2>13. CdcTypes' /\ StreamInv' /\ TokenInv' /\ Delivered'
      BY <1>2, <1>4, <2>12 DEF CdcInv, CdcTypes, StreamInv, TokenInv, Delivered, InSink
    <2> QED
      BY <1>1, <2>10, <2>11, <2>12, <2>13 DEF CdcInv
  <1> QED
    BY <1>3, <1>4 DEF BuildRows

\* The rows of the batch being written are current: none of their documents
\* has its last change before the batch.
LEMMA BatchCurrent ==
    ASSUME CdcInv, pc \in {"write", "save"}, NEW n \in next
    PROVE  /\ End = n /\ next = {n} /\ n \in (from + 1)..Len(log) /\ from \in Nat
           /\ RowsCurrent(rows, n)
  <1>1. log \in Seq(Event) /\ Len(log) \in Nat /\ DOMAIN log = 1..Len(log) /\ from \in Nat
    BY DEF CdcInv, CdcTypes
  <1>2. PICK m \in (from + 1)..Len(log) : next = {m}
    BY DEF CdcInv, BatchInv
  <1>3. n = m /\ n \in Nat /\ n \in (from + 1)..Len(log)
    BY <1>1, <1>2
  <1>4. End = n
    BY <1>2, <1>3, MaxOfOne DEF End
  <1>5. ASSUME NEW r \in rows
        PROVE  r[1] \in Key /\ \A i \in 1..n : IsLast(log, i, r[1]) => r = <<r[1], docs[r[1]]>>
    <2>1. PICK j \in (from + 1)..n : r[1] \in log[j].keys
      BY DEF CdcInv, RowsInv
    <2>2. j \in DOMAIN log /\ j \in Nat /\ j > from
      BY <1>1, <1>3, <2>1
    <2>3. r[1] \in Key
      <3>1. log[j] \in Event
        BY <1>1, <2>2
      <3> QED
        BY <2>1, <3>1 DEF Event
    <2>4. ASSUME NEW i \in 1..n, IsLast(log, i, r[1])
          PROVE  r = <<r[1], docs[r[1]]>>
      <3>1. j <= i
        BY <2>1, <2>2, <2>4 DEF IsLast, Touches
      <3>2. i \in (from + 1)..n
        BY <1>1, <1>3, <2>2, <3>1
      <3>3. {x \in rows : x[1] = r[1]} = {<<r[1], docs[r[1]]>>}
        BY <2>3, <2>4, <3>2 DEF CdcInv, RowsInv
      <3> QED
        BY <3>3
    <2> QED
      BY <2>3, <2>4
  <1> QED
    BY <1>1, <1>2, <1>3, <1>4, <1>5 DEF RowsCurrent

\* Rows that are current up to n make their documents current, and leave the
\* others alone.
LEMMA ApplyGives ==
    ASSUME CdcInv, NEW R, NEW n \in 0..Len(log), RowsCurrent(R, n), NEW k \in Key
    PROVE  /\ k \notin {r[1] : r \in R} => Apply(R)[k] = sink[k]
           /\ \A i \in 1..n : IsLast(log, i, k) /\ k \in {r[1] : r \in R} => Apply(R)[k] = docs[k]
  <1> DEFINE V == {r[2] : r \in {x \in R : x[1] = k}}
  <1>1. Apply(R)[k] = IF V = {} THEN sink[k] ELSE IF 0 \in V THEN 0 ELSE Max(V)
    BY DEF Apply
  <1>2. k \notin {r[1] : r \in R} => V = {}
    OBVIOUS
  <1>3. ASSUME NEW i \in 1..n, IsLast(log, i, k), k \in {r[1] : r \in R}
        PROVE  Apply(R)[k] = docs[k]
    <2>1. \A r \in {x \in R : x[1] = k} : r = <<k, docs[k]>>
      BY <1>3 DEF RowsCurrent
    <2>2. \E r \in R : r[1] = k
      BY <1>3
    <2>3. {x \in R : x[1] = k} = {<<k, docs[k]>>}
      BY <2>1, <2>2
    <2>4. {r[2] : r \in {<<k, docs[k]>>}} = {docs[k]}
      BY <<k, docs[k]>>[2] = docs[k], ZenonT(40)
    <2>5. V = {docs[k]}
      BY <2>3, <2>4, ZenonT(40)
    <2>6. docs[k] \in Nat
      BY DEF CdcInv, CdcTypes
    <2>7. Max({docs[k]}) = docs[k]
      BY <2>6, MaxOfOne
    <2> HIDE DEF V
    <2> QED
      BY <1>1, <2>5, <2>7
  <1> HIDE DEF V
  <1> QED
    BY <1>1, <1>2, <1>3

\* Rows that land, whole or in part, in time or late, leave the sink right for
\* every token reached: when one of them is beyond their batch, their keys are
\* excepted; when none is, they are current.
LEMMA LandKeeps ==
    ASSUME CdcInv, NEW R, NEW n \in 0..Len(log), RowsCurrent(R, n), Land(R, n),
           UNCHANGED <<source, start>>
    PROVE  \A s \in start, t \in Reached : InSink(s, t)'
  <1> SUFFICES ASSUME NEW s \in start, NEW t \in Reached, NEW k \in Key \ regressed',
                      NEW i \in (s + 1)..t, IsLast(log, i, k)
               PROVE  Apply(R)[k] = docs[k]
    BY DEF InSink, Land, source
  <1> DEFINE keys == {r[1] : r \in R}
  <1>1. regressed' = IF \E x \in Reached : n < x THEN regressed \cup keys ELSE regressed \ keys
    BY DEF Land
  <1>2. Len(log) \in Nat /\ s \in Nat /\ t \in Nat
    BY ReachedIn, OptionalIn DEF CdcInv, CdcTypes
  <1>3. CASE k \notin keys
    <2>1. k \in Key \ regressed
      BY <1>1, <1>3
    <2>2. sink[k] = docs[k]
      BY <2>1 DEF CdcInv, Delivered, InSink
    <2> QED
      BY <1>3, <2>2, ApplyGives
  <1>4. CASE k \in keys
    <2>1. ~(n < t)
      BY <1>1, <1>4
    <2>2. i \in 1..n
      BY <1>2, <2>1
    <2> QED
      BY <1>4, <2>2, ApplyGives
  <1> QED
    BY <1>3, <1>4

\* With the batch the documents between its ends join those before it.
LEMMA CdcWrites == ASSUME CdcInv, WriteBatch PROVE CdcInv'
  <1>1. LogInv' /\ DocsInv' /\ log \in Seq(Event) /\ Len(log) \in Nat /\ DOMAIN log = 1..Len(log)
    BY CdcKeeps DEF WriteBatch
  <1>2. /\ pc = "write" /\ pc' = "save" /\ Land(rows, End)
        /\ UNCHANGED <<flow, source, stored, token, from, events, rows, next, late, start>>
    BY DEF WriteBatch
  <1>3. mode' = mode /\ log' = log /\ docs' = docs /\ lateSaves' = lateSaves
    BY <1>2 DEF flow, source, late
  <1>4. PICK n \in next : n \in (from + 1)..Len(log)
    BY <1>2, ZenonT(40) DEF CdcInv, BatchInv
  <1>5. /\ End = n /\ next = {n} /\ from \in Nat /\ RowsCurrent(rows, n)
        /\ n \in 0..Len(log) /\ n \in Nat
    BY <1>1, <1>2, <1>4, BatchCurrent
  <1>6. CdcTypes' /\ StreamInv'
    BY <1>2, <1>3 DEF CdcInv, CdcTypes, StreamInv
  <1>7. RowsInv'
    BY <1>2, <1>3 DEF CdcInv, RowsInv
  <1>8. BatchInv'
    BY <1>2, <1>3 DEF CdcInv, BatchInv, Dedup
  <1>9. LateInv' /\ Reached' = Reached \cup {n}
    BY <1>2, <1>3, <1>5, CdcLate DEF Reached
  <1>10. TokenInv'
    <2>1. log[n].op # "drop"
      BY <1>2, <1>4 DEF CdcInv, RowsInv
    <2> QED
      BY <1>3, <1>9, <2>1 DEF CdcInv, TokenInv
  <1>11. \A s \in start, t \in Reached : InSink(s, t)'
    BY <1>2, <1>5, LandKeeps
  <1>12. ASSUME NEW s \in start PROVE InSink(s, n)'
    <2> SUFFICES ASSUME NEW k \in Key \ regressed', NEW i \in (s + 1)..n, IsLast(log, i, k)
                 PROVE  sink'[k] = docs[k]
      BY <1>3, ZenonT(40) DEF InSink
    <2>1. s \in Nat
      BY <1>1, OptionalIn DEF CdcInv, CdcTypes
    <2>2. CASE i > from
      <3>1. i \in (from + 1)..n /\ i \in 1..n
        BY <1>5, <2>1, <2>2
      <3>2. {r \in rows : r[1] = k} = {<<k, docs[k]>>}
        BY <1>2, <1>4, <3>1, ZenonT(40) DEF CdcInv, RowsInv
      <3>3. k \in {r[1] : r \in rows}
        BY <3>2
      <3>4. sink' = Apply(rows)
        BY <1>2 DEF Land
      <3> QED
        BY <1>5, <3>1, <3>3, <3>4, ApplyGives, ZenonT(40)
    <2>3. CASE ~(i > from)
      <3>1. i \in (s + 1)..from /\ s # from
        BY <1>5, <2>1, <2>3
      <3>2. token = {from}
        BY <1>2, <3>1 DEF CdcInv, StreamInv
      <3>3. PICK t \in Reached : t = from
        BY <3>2 DEF Reached
      <3>4. InSink(s, t)'
        BY <1>11, <3>3
      <3>5. i \in (s + 1)..t
        BY <3>1, <3>3
      <3> QED
        BY <1>3, <3>4, <3>5, ZenonT(40) DEF InSink
    <2> QED
      BY <2>2, <2>3
  <1>13. Delivered'
    BY <1>2, <1>9, <1>11, <1>12 DEF Delivered
  <1> QED
    BY <1>1, <1>6, <1>7, <1>8, <1>9, <1>10, <1>13 DEF CdcInv

\* A save moves the token over a batch the sink has.
LEMMA CdcSaves == ASSUME CdcInv, SaveToken PROVE CdcInv'
  <1>1. /\ pc = "save" /\ stored' = next /\ token' = next /\ EndTick
        /\ UNCHANGED <<flow, source, sink, late, start, regressed>>
    BY DEF SaveToken
  <1>2. Reached' \subseteq Reached
    BY <1>1 DEF Reached, EndTick, late
  <1>3. token' \in Optional(log) /\ stored' \in Optional(log)
    BY <1>1 DEF CdcInv, CdcTypes
  <1>4. LateInv' /\ \A s \in start, t \in Reached : InSink(s, t)'
    BY <1>1, CdcLate, CdcStays
  <1> QED
    BY <1>1, <1>2, <1>3, <1>4, CdcIdle

\* A call that fails, whatever of it took effect or is still to take effect.
LEMMA CdcFails == ASSUME CdcInv, CallFails PROVE CdcInv'
  BY CdcAgain DEF CallFails, Fails

\* Part of the batch is in the sink, part may follow.
LEMMA CdcWriteFails == ASSUME CdcInv, WriteFails PROVE CdcInv'
  <1>1. /\ pc = "write" /\ EndTick
        /\ UNCHANGED <<flow, source, token, start, stored, lateSaves>>
    BY DEF WriteFails, Fails
  <1>2. PICK R \in SUBSET rows :
            /\ Land(R, End)
            /\ lateWrites' \subseteq lateWrites \cup {[rows |-> rows \ R, end |-> End]}
    BY DEF WriteFails
  <1>3. log' = log /\ docs' = docs /\ Len(log) \in Nat
    BY <1>1 DEF source, CdcInv, CdcTypes
  <1>4. PICK n \in next : n \in (from + 1)..Len(log)
    BY <1>1 DEF CdcInv, BatchInv
  <1>5. End = n /\ from \in Nat /\ RowsCurrent(rows, n) /\ n \in 0..Len(log)
    BY <1>1, <1>3, <1>4, BatchCurrent
  <1>6. RowsCurrent(R, n) /\ RowsCurrent(rows \ R, n)
    BY <1>5 DEF RowsCurrent
  <1>7. \A s \in start, t \in Reached : InSink(s, t)'
    BY <1>1, <1>2, <1>5, <1>6, LandKeeps
  <1>8. Reached' \subseteq Reached
    BY <1>1 DEF Reached, EndTick
  <1>9. LateInv'
    <2>1. ASSUME NEW w \in lateWrites' PROVE w.end \in 0..Len(log) /\ RowsCurrent(w.rows, w.end)
      <3>1. CASE w \in lateWrites
        BY <3>1 DEF CdcInv, LateInv
      <3>2. CASE w = [rows |-> rows \ R, end |-> End]
        <4>1. w.rows = rows \ R /\ w.end = n
          BY <1>5, <3>2
        <4> QED
          BY <1>5, <1>6, <4>1
      <3> QED
        BY <1>2, <3>1, <3>2
    <2>2. lateSaves' \subseteq 0..Len(log)
      BY <1>1 DEF CdcInv, LateInv
    <2> QED
      BY <1>3, <2>1, <2>2 DEF LateInv, RowsCurrent
  <1>10. token' \in Optional(log) /\ stored' \in Optional(log)
    BY <1>1 DEF CdcInv, CdcTypes
  <1> QED
    BY <1>1, <1>7, <1>8, <1>9, <1>10, CdcIdle

\* The token that was to be saved had been reached.
LEMMA CdcSaveFails == ASSUME CdcInv, SaveFails PROVE CdcInv'
  <1>1. /\ pc = "save" /\ EndTick
        /\ UNCHANGED <<flow, source, token, start, sink, lateWrites, regressed>>
        /\ stored' \in {stored, next} /\ lateSaves' \subseteq lateSaves \cup next
    BY DEF SaveFails, Fails
  <1>2. Reached' \subseteq Reached
    BY <1>1 DEF Reached, EndTick
  <1>3. token' \in Optional(log) /\ stored' \in Optional(log)
    BY <1>1 DEF CdcInv, CdcTypes
  <1>4. \A s \in start, t \in Reached : InSink(s, t)'
    BY <1>1, CdcStays
  <1>5. lateSaves' \subseteq 0..Len(log)
    BY <1>1, OptionalIn DEF CdcInv, CdcTypes, LateInv
  <1>6. LateInv'
    BY <1>1, <1>5 DEF CdcInv, LateInv, RowsCurrent, source
  <1> QED
    BY <1>1, <1>2, <1>3, <1>4, <1>6, CdcIdle

\* A step beside the tick.
LEMMA CdcBeside ==
    ASSUME CdcInv, UNCHANGED <<flow, source, token, tick, start>>, stored' \in Optional(log),
           Reached' \subseteq Reached, LateInv', \A s \in start, t \in Reached : InSink(s, t)'
    PROVE  CdcInv'
  <1>1. LogInv' /\ DocsInv'
    BY CdcKeeps
  <1>2. /\ mode' = mode /\ log' = log /\ docs' = docs /\ pc' = pc /\ from' = from
        /\ events' = events /\ rows' = rows /\ next' = next
    BY DEF flow, source, tick
  <1>3. CdcTypes' /\ StreamInv'
    BY <1>2 DEF CdcInv, CdcTypes, StreamInv
  <1>4. RowsInv' /\ BatchInv'
    BY <1>2 DEF CdcInv, RowsInv, BatchInv, Dedup
  <1>5. TokenInv' /\ Delivered'
    BY <1>2 DEF CdcInv, TokenInv, Delivered
  <1> QED
    BY <1>1, <1>3, <1>4, <1>5 DEF CdcInv

\* A write given up on lands after a later batch.
LEMMA CdcLateWrite == ASSUME CdcInv, LateWrite PROVE CdcInv'
  <1>1. UNCHANGED <<flow, source, stored, token, tick, lateSaves, start>>
    BY DEF LateWrite
  <1>2. PICK w \in lateWrites : \E R \in SUBSET w.rows :
            /\ Land(R, w.end)
            /\ lateWrites' \subseteq lateWrites \cup {[rows |-> w.rows \ R, end |-> w.end]}
    BY DEF LateWrite
  <1>3. PICK R \in SUBSET w.rows :
            /\ Land(R, w.end)
            /\ lateWrites' \subseteq lateWrites \cup {[rows |-> w.rows \ R, end |-> w.end]}
    BY <1>2
  <1>4. w.end \in 0..Len(log) /\ RowsCurrent(w.rows, w.end)
    BY DEF CdcInv, LateInv
  <1>5. RowsCurrent(R, w.end) /\ RowsCurrent(w.rows \ R, w.end)
    BY <1>4 DEF RowsCurrent
  <1>6. \A s \in start, t \in Reached : InSink(s, t)'
    BY <1>1, <1>3, <1>4, <1>5, LandKeeps
  <1>7. Reached' \subseteq Reached
    BY <1>1 DEF Reached, tick
  <1>8. LateInv'
    <2>1. ASSUME NEW v \in lateWrites' PROVE v.end \in 0..Len(log) /\ RowsCurrent(v.rows, v.end)
      <3>1. CASE v \in lateWrites
        BY <3>1 DEF CdcInv, LateInv
      <3>2. CASE v = [rows |-> w.rows \ R, end |-> w.end]
        <4>1. v.rows = w.rows \ R /\ v.end = w.end
          BY <3>2
        <4> QED
          BY <1>4, <1>5, <4>1
      <3> QED
        BY <1>3, <3>1, <3>2
    <2>2. lateSaves' \subseteq 0..Len(log) /\ log' = log /\ docs' = docs
      BY <1>1 DEF CdcInv, LateInv, source
    <2> QED
      BY <2>1, <2>2 DEF LateInv, RowsCurrent
  <1>9. stored' \in Optional(log)
    BY <1>1 DEF CdcInv, CdcTypes
  <1> QED
    BY <1>1, <1>6, <1>7, <1>8, <1>9, CdcBeside

\* A save given up on lands after a later one.
LEMMA CdcLateSave == ASSUME CdcInv, LateSave PROVE CdcInv'
  <1>1. UNCHANGED <<flow, source, sink, token, tick, lateWrites, start, regressed>>
    BY DEF LateSave
  <1>2. PICK t \in lateSaves : stored' = {t} /\ lateSaves' = lateSaves \ {t}
    BY DEF LateSave
  <1>3. t \in 0..Len(log)
    BY DEF CdcInv, LateInv
  <1>4. stored' \in Optional(log)
    BY <1>2, <1>3, ZenonT(40) DEF Optional
  <1>5. Reached' \subseteq Reached
    BY <1>1, <1>2 DEF Reached, tick
  <1>6. LateInv'
    BY <1>1, <1>2 DEF CdcInv, LateInv, RowsCurrent, source
  <1>7. \A s \in start, x \in Reached : InSink(s, x)'
    BY <1>1, CdcStays
  <1> QED
    BY <1>1, <1>4, <1>5, <1>6, <1>7, CdcBeside

\* A crash leaves the stored token and the sink.
LEMMA CdcCrashes == ASSUME CdcInv, Crash PROVE CdcInv'
  <1>1. /\ EndTick /\ UNCHANGED <<flow, source, sink, stored, late, start, regressed>>
        /\ token' = stored
    BY DEF Crash
  <1>2. Reached' \subseteq Reached
    BY <1>1 DEF Reached, EndTick, late
  <1>3. token' \in Optional(log) /\ stored' \in Optional(log)
    BY <1>1 DEF CdcInv, CdcTypes
  <1>4. LateInv' /\ \A s \in start, t \in Reached : InSink(s, t)'
    BY <1>1, CdcLate, CdcStays
  <1> QED
    BY <1>1, <1>2, <1>3, <1>4, CdcIdle

\* The stream of a dropped collection ends.
LEMMA CdcInvalidated == ASSUME CdcInv, StreamInvalidated PROVE CdcInv'
  BY CdcAgain DEF StreamInvalidated

\* A change of a document lengthens the log and touches no batch before it.
LEMMA CdcChanges ==
    ASSUME CdcInv, NEW op \in {"insert", "update", "delete"}, NEW k \in Key, NEW exists,
           Change(op, k, exists)
    PROVE  CdcInv'
  <1> DEFINE e == [op |-> op, keys |-> {k}]
  <1>1. e \in Event /\ e.op = op /\ e.keys = {k} /\ op # "drop"
    BY DEF Event
  <1>2. log' = Append(log, e) /\ ~Dropped /\ UNCHANGED <<flow, flowVars>>
        /\ docs' = [docs EXCEPT ![k] = IF op = "delete" THEN 0 ELSE Len(log) + 1]
    BY DEF Change
  <1>3. docs \in [Key -> Nat] /\ Len(log) \in Nat
    BY DEF CdcInv, CdcTypes
  <1>4. docs' \in [Key -> Nat]
    BY <1>2, <1>3
  <1>5. \A x \in Key : docs'[x] = IF ~(x \in e.keys \/ e.op = "drop") THEN docs[x]
                                  ELSE IF e.op \in {"delete", "drop"} THEN 0 ELSE Len(log) + 1
    BY <1>1, <1>2, <1>3
  <1> HIDE DEF e
  <1>6. \E x \in Key : e.keys = {x}
    BY <1>1
  <1> QED
    BY <1>1, <1>2, <1>4, <1>5, <1>6, CdcGrows

\* A drop is the last entry of the log.
LEMMA CdcDrops == ASSUME CdcInv, Drop PROVE CdcInv'
  <1> DEFINE e == [op |-> "drop", keys |-> {}]
  <1>1. e \in Event /\ e.op = "drop" /\ e.keys = {}
    BY DEF Event
  <1>2. log' = Append(log, e) /\ ~Dropped /\ UNCHANGED <<flow, flowVars>>
        /\ docs' = [x \in Key |-> 0]
    BY DEF Drop
  <1>3. docs' \in [Key -> Nat]
    BY <1>2
  <1>4. \A x \in Key : docs'[x] = IF ~(x \in e.keys \/ e.op = "drop") THEN docs[x]
                                  ELSE IF e.op \in {"delete", "drop"} THEN 0 ELSE Len(log) + 1
    BY <1>1, <1>2
  <1> HIDE DEF e
  <1> QED
    BY <1>1, <1>2, <1>3, <1>4, CdcGrows

\* Every step keeps the invariant.
LEMMA CdcStep == CdcInv /\ [Next]_vars => CdcInv'
  <1> SUFFICES ASSUME CdcInv, [Next]_vars PROVE CdcInv'
    OBVIOUS
  <1>1. CASE Tick
    BY <1>1, CdcOpens, CdcDrains, CdcBuilds, CdcInvalidated, CdcWrites, CdcSaves DEF Tick
  <1>2. CASE Fault
    BY <1>2, CdcFails, CdcWriteFails, CdcSaveFails, CdcLateWrite, CdcLateSave, CdcCrashes DEF Fault
  <1>3. CASE Env
    BY ZenonT(40), <1>3, CdcChanges, CdcDrops DEF Env
  <1>4. CASE UNCHANGED vars
    <2>1. /\ UNCHANGED <<flow, source, sink, stored, token>>
          /\ UNCHANGED <<tick, late, start, regressed>>
      BY <1>4 DEF vars, flowVars
    <2>2. stored' \in Optional(log)
      BY <2>1 DEF CdcInv, CdcTypes
    <2>3. Reached' \subseteq Reached
      BY <2>1 DEF Reached, tick, late
    <2>4. LateInv' /\ \A s \in start, t \in Reached : InSink(s, t)'
      BY <2>1, CdcLate, CdcStays
    <2> QED
      BY <2>1, <2>2, <2>3, <2>4, CdcBeside
  <1> QED
    BY <1>1, <1>2, <1>3, <1>4 DEF Next

\* The invariant holds throughout.
LEMMA CdcSafe == Spec => []CdcInv
  BY CdcInit, CdcStep, PTL DEF Spec

-----------------------------------------------------------------------------
(* The results.                                                            *)

\* No change between the first token and a token in memory or in the storage
\* is missing from the sink, whatever read_batch deduplicated and looked up,
\* however often the tick failed, whichever calls landed late and wherever the
\* process stopped: for any number of documents, changes and failures and any
\* limit.  Excepted are the keys that a batch wrote last which ends before a
\* token already reached.
THEOREM ChangesDeliveredHolds == Spec => []ChangesDelivered
  <1>1. CdcInv => ChangesDelivered
    <2> SUFFICES ASSUME CdcInv, NEW s \in start, NEW t \in stored \cup token,
                        NEW k \in Key \ regressed, LastChange(k) \in (s + 1)..t
                 PROVE  sink[k] = docs[k]
      BY DEF ChangesDelivered
    <2>1. log \in Seq(Event) /\ Len(log) \in Nat
      BY DEF CdcInv, CdcTypes
    <2>2. s \in Nat
      BY <2>1, OptionalIn DEF CdcInv, CdcTypes
    <2>3. LastChange(k) # 0
      BY <2>2
    <2>4. IsLast(log, LastChange(k), k)
      BY <2>1, <2>3, LastChangeIs
    <2>5. t \in Reached
      BY DEF Reached
    <2>6. InSink(s, t)
      BY <2>5 DEF CdcInv, Delivered
    <2> QED
      BY <2>4, <2>6 DEF InSink
  <1> QED
    BY <1>1, CdcSafe, PTL

\* Neither the stored token nor the runner's passes the drop of the collection:
\* the batch that has the event fails, and is read again.
THEOREM DropStopsHolds == Spec => []DropStops
  <1>1. CdcInv => DropStops
    <2> SUFFICES ASSUME CdcInv, NEW t \in stored \cup token, NEW i \in DOMAIN log, log[i].op = "drop"
                 PROVE  t < i
      BY DEF DropStops
    <2>1. log \in Seq(Event) /\ Len(log) \in Nat /\ DOMAIN log = 1..Len(log)
      BY DEF CdcInv, CdcTypes
    <2>2. t \in 0..Len(log) /\ t \in Reached
      BY OptionalIn DEF CdcInv, CdcTypes, Reached
    <2>3. i = Len(log)
      BY DEF CdcInv, LogInv
    <2>4. t # 0 => log[t].op # "drop"
      BY <2>2 DEF CdcInv, TokenInv
    <2>5. t # i
      BY <2>1, <2>4
    <2> QED
      BY <2>2, <2>3, <2>5
  <1> QED
    BY <1>1, CdcSafe, PTL
=============================================================================
