------------------------- MODULE AppLifecycle_proofs -------------------------
(***************************************************************************)
(* For any flows, storages and programs of the tasks: the tasks of one App *)
(* share one assembly, one validation and one migration, the metrics       *)
(* manager is never lost, and what the storages were told is true.         *)
(***************************************************************************)
EXTENDS AppLifecycle, WellFoundedInduction, TLAPS

\* What a step that names no prover is tried with: the translation of a large
\* obligation for the SMT solver may be cut short, and is then repeated.
USE SMTT(15), ZenonT(20), Z3T(15), SMTT(20)

\* A step of this name is still to come; each m comes before each n; n once.
Has(s, n) == \E i \in 1..Len(s) : s[i][1] = n
Before(s, m, n) == \A i, j \in 1..Len(s) : s[i][1] = m /\ s[j][1] = n => i < j
Once(s, n) == \A i, j \in 1..Len(s) : s[i][1] = n /\ s[j][1] = n => i = j
Followed(s, m, n) == \A i \in 1..Len(s) : s[i][1] = m => i < Len(s) /\ s[i + 1][1] = n
IsStep(x, n, f) == x = <<n, f>>
HasFlow(s, n, f) == \E i \in 1..Len(s) : IsStep(s[i], n, f)

\* What the steps of a method, and what is left of them, look like.
ShapeOf(s, F) ==
    /\ \A i \in 1..Len(s) : s[i][1] \in StorageSteps => s[i][2] \in F
    /\ Followed(s, "enter_assembled", "assemble")
    /\ \A i \in 2..Len(s) : s[i][1] = "assemble" => s[i - 1][1] = "enter_assembled"
    /\ Once(s, "validated!") /\ Once(s, "migrated!")
    /\ Before(s, "enter_validated", "validated!")
    /\ Has(s, "enter_validated") => Has(s, "validated!")
    /\ Before(s, "migrate_lock", "migrated!")
    /\ Followed(s, "migrate_lock", "migrated?")
    /\ Before(s, "migrated?", "migrate") /\ Before(s, "migrate", "migrated!")
    /\ Before(s, "migrated?", "migrated!")
    /\ Has(s, "migrated?") => Has(s, "migrated!") /\ \A f \in F : HasFlow(s, "migrate", f)
    /\ \A i, j \in 1..Len(s) : s[i][1] = "migrated?" /\ s[j][1] = "migrated?" /\ i < j =>
           \E k \in i..j : s[k][1] = "migrate_lock"
    /\ Before(s, "migrated!", "enter_validated") /\ Before(s, "migrated!", "validated!")
    /\ Before(s, "validated!", "save")
    /\ \A n \in {"sample", "load", "save"} : Before(s, "migrated!", n)
Shape(s) == ShapeOf(s, Flows)

PlainSteps ==
    {"enter_assembled", "assemble", "enter_validated", "validated!", "migrated?", "migrate_lock", "migrated!",
     "daemon", "spawn_metrics", "abort", "join"}
Cell == [set : BOOLEAN, by : Tasks \cup {NoTask}]
Managers == {"none", "enabled", "disabled"}
StepSet == {<<n>> : n \in PlainSteps} \cup (StorageSteps \X Flows)
TaskRecord == [calls : Seq(Methods), method : Methods \cup {"none"}, steps : Seq(StepSet), attempts : Nat]
StorageRecord ==
    [kind : STRING, tables : 0..Migrations, create : BOOLEAN, insert : BOOLEAN, rows : SUBSET (Flows \cup {Probe})]
Ghosts == {"assemblies", "validations", "migrations", "spawned_first", "acked", "surfaced"}
TaskTypes == tasks \in [Tasks -> TaskRecord] /\ \A t \in Tasks : Shape(tasks[t].steps)
PlainTypes ==
    /\ setup \in Setups
    /\ assembled \in Cell /\ validated \in Cell
    /\ migrated \in BOOLEAN /\ migrate_lock \in Tasks \cup {NoTask}
    /\ monitoring \in [slot : Managers, guard : Managers] /\ recorders \in BOOLEAN
    /\ storages \in [DOMAIN setup.storages -> StorageRecord]
    /\ server \in [state : {"off", "starting", "serving", "stopping", "done"}, requests : {0, 1}]
    /\ DOMAIN ghost = Ghosts /\ ghost.acked \subseteq Flows
AppTypes == PlainTypes /\ TaskTypes

Steps(t) == tasks[t].steps
InValidated(t) == Has(Steps(t), "validated!") /\ ~Has(Steps(t), "enter_validated")
InLock(t) == Has(Steps(t), "migrated!") /\ ~Has(Steps(t), "migrate_lock")
Complete(f) == StorageOf(f).kind = "mongodb" \/ StorageOf(f).tables = Migrations

CellsInv ==
    /\ \A t \in Tasks : AtStep(t, "assemble") => assembled.by = t /\ ~assembled.set
    /\ \A t \in Tasks : InValidated(t) => validated.by = t /\ ~validated.set
    /\ ghost.assemblies = (IF assembled.set THEN 1 ELSE 0)
    /\ ghost.validations = (IF validated.set THEN 1 ELSE 0)
LockInv ==
    /\ \A t \in Tasks : InLock(t) => migrate_lock = t
    /\ \A t \in Tasks : InLock(t) /\ ~Has(Steps(t), "migrated?") =>
          ~migrated /\ \A f \in Flows : Complete(f) \/ HasFlow(Steps(t), "migrate", f)
    /\ ghost.migrations = (IF migrated THEN 1 ELSE 0)
    /\ migrated => \A f \in Flows : Complete(f)
OrderInv ==
    \A t \in Tasks : Steps(t) # <<>> =>
       /\ tasks[t].method = "run_once" /\ ~Has(Steps(t), "migrated!") => migrated
       /\ Has(Steps(t), "save") /\ ~Has(Steps(t), "validated!") => validated.set
AttemptInv ==
    \A t \in Tasks :
       \/ tasks[t].attempts = 0
       \/ AtStep(t, "access") /\ tasks[t].attempts < ACCESS_PROBE_RETRY_ATTEMPTS
       \/ /\ \E n \in {"sample", "load", "save"} : AtStep(t, n)
          /\ tasks[t].attempts < MAX_ATTEMPTS
GuardInv ==
    /\ assembled.by = NoTask => monitoring.guard = "none"
    /\ assembled.by # NoTask => monitoring.slot = "none"
    /\ setup.metrics = "enabled" =>
         /\ \/ monitoring.slot = "enabled" /\ monitoring.guard # "enabled" /\ server.state = "off"
            \/ monitoring.slot # "enabled" /\ monitoring.guard = "enabled" /\ server.state = "off"
            \/ monitoring.slot # "enabled" /\ monitoring.guard # "enabled" /\ server.state # "off"
         /\ assembled.by # NoTask => monitoring.guard = "enabled" \/ ghost.spawned_first
         /\ assembled.set => recorders \/ ghost.spawned_first
AppInv == AppTypes /\ CellsInv /\ LockInv /\ OrderInv /\ AttemptInv /\ GuardInv

-----------------------------------------------------------------------------
(* Lists of steps.                                                         *)

NatLess == {p \in Nat \X Nat : p[1] < p[2]}

\* r is s without its first k steps.
Rest(r, s, k) ==
    /\ k \in 0..Len(s) /\ Len(r) = Len(s) - k
    /\ \A i \in 1..Len(r) : r[i] = s[i + k]

\* A program with steps left has a first one.
LEMMA FirstAt ==
    ASSUME NEW S, NEW s \in Seq(S), s # <<>>
    PROVE  1 \in 1..Len(s)
  OBVIOUS

\* No steps are a sequence of steps.
LEMMA NoStepsType == \A S : <<>> \in Seq(S) /\ 0 \in Nat
  OBVIOUS

\* A step is its name and its flow.
LEMMA StepIs == \A x, n, f : IsStep(x, n, f) => x[1] = n /\ x[2] = f
  BY DEF IsStep

\* How the numbers of tables a storage may have compare.
LEMMA TablesOrder == \A n \in 0..2 : n >= n /\ (n >= 2 => n = 2)
  OBVIOUS

\* An attempt that is not retried is the last one.
LEMMA LastAttempt ==
    ASSUME NEW n \in Nat, NEW most \in Nat \ {0}, ~(n + 1 < most), n = 0 \/ n < most
    PROVE  n + 1 = most
  OBVIOUS

\* A task with nothing left to do is well formed.
LEMMA EmptySteps == Shape(<<>>) /\ \A n : ~Has(<<>>, n)
  <1>1. \A i : i \notin 1..Len(<<>>) /\ i \notin 2..Len(<<>>)
    OBVIOUS
  <1>2. /\ \A n : ~Has(<<>>, n) /\ Once(<<>>, n)
        /\ \A m, n : Before(<<>>, m, n) /\ Followed(<<>>, m, n)
    BY <1>1, ZenonT(40) DEF Has, Once, Before, Followed
  <1> QED
    BY <1>1, <1>2, ZenonT(40) DEF Shape, ShapeOf

\* Doing the first step leaves the rest of the steps as they were.
LEMMA TailRest ==
    ASSUME NEW S, NEW s \in Seq(S), s # <<>>
    PROVE  Tail(s) \in Seq(S) /\ Rest(Tail(s), s, 1) /\ Len(s) \in Nat /\ 1 \in 1..Len(s)
  BY DEF Rest

\* Skipping to the steps after a name leaves only steps that were there.
LEMMA AfterRest ==
    ASSUME NEW S, NEW s \in Seq(S), NEW name, Has(s, name)
    PROVE  /\ After(s, name) \in Seq(S)
           /\ \E k \in 1..Len(s) :
                 /\ s[k][1] = name /\ \A i \in 1..(k - 1) : s[i][1] # name
                 /\ Rest(After(s, name), s, k)
  \* Some numbers have a least one: the order of the numbers is well-founded.
  <1>LeastNumber. ASSUME NEW I \in SUBSET Nat, I # {}
                  PROVE  \E i \in I : \A j \in I : i <= j
    <2>1. IsWellFoundedOn(NatLess, Nat)
      BY NatLessThanWellFounded DEF OpToRel, NatLess
    <2>2. PICK i \in I : \A j \in I : ~(<<j, i>> \in NatLess)
      BY ZenonT(40), <1>LeastNumber, <2>1, WFMin
    <2>3. \A j \in I : j < i => <<j, i>> \in NatLess
      BY DEF NatLess
    <2>4. \A j \in I : ~(j < i)
      BY <2>2, <2>3, ZenonT(40)
    <2> QED
      BY <2>4
  <1>AfterIs. \E k \in 1..Len(s) :
                 /\ s[k][1] = name /\ \A i \in 1..(k - 1) : s[i][1] # name
                 /\ After(s, name) = SubSeq(s, k + 1, Len(s))
    <2> DEFINE I == {i \in 1..Len(s) : s[i][1] = name}
               k == CHOOSE i \in I : \A j \in I : i <= j
    <2>1. I \in SUBSET Nat /\ I # {}
      BY DEF Has
    <2>2. \E i \in I : \A j \in I : i <= j
      <3> HIDE DEF I
      <3> QED
        BY <2>1, <1>LeastNumber
    <2>3. k \in I /\ \A j \in I : k <= j
      <3> HIDE DEF I
      <3> QED
        BY <2>2
    <2>4. After(s, name) = SubSeq(s, k + 1, Len(s))
      BY DEF After
    <2> HIDE DEF k
    <2>5. k \in 1..Len(s) /\ s[k][1] = name
      BY <2>3
    <2>6. ASSUME NEW i \in 1..(k - 1) PROVE s[i][1] # name
      <3>1. i \in 1..Len(s) /\ ~(k <= i)
        BY <2>5
      <3> QED
        BY <2>3, <3>1
    <2> HIDE DEF I
    <2> QED
      BY <2>4, <2>5, <2>6, ZenonT(40)
  <1>1. PICK k \in 1..Len(s) :
              /\ s[k][1] = name /\ \A i \in 1..(k - 1) : s[i][1] # name
              /\ After(s, name) = SubSeq(s, k + 1, Len(s))
    BY <1>AfterIs
  <1>2. SubSeq(s, k + 1, Len(s)) \in Seq(S) /\ Rest(SubSeq(s, k + 1, Len(s)), s, k)
    BY DEF Rest
  <1> QED
    BY <1>1, <1>2

-----------------------------------------------------------------------------
(* The steps of the methods, put together from their parts.                *)

Names(s) == {s[i][1] : i \in 1..Len(s)}
Pairs ==
    {<<"enter_validated", "validated!">>, <<"migrate_lock", "migrated!">>, <<"migrated?", "migrate">>,
     <<"migrate", "migrated!">>, <<"migrated?", "migrated!">>, <<"migrated!", "enter_validated">>,
     <<"migrated!", "validated!">>, <<"validated!", "save">>, <<"migrated!", "sample">>,
     <<"migrated!", "load">>, <<"migrated!", "save">>}
Singles == {"validated!", "migrated!", "migrated?"}

\* Shape but for what must be there.
Order(s) ==
    /\ \A i \in 1..Len(s) : s[i][1] \in StorageSteps => s[i][2] \in Flows
    /\ Followed(s, "enter_assembled", "assemble") /\ Followed(s, "migrate_lock", "migrated?")
    /\ \A i \in 1..Len(s) : s[i][1] = "assemble" => i > 1 /\ s[i - 1][1] = "enter_assembled"
    /\ Once(s, "validated!") /\ Once(s, "migrated!")
    /\ \A p \in Pairs : Before(s, p[1], p[2])
    /\ \A i, j \in 1..Len(s) : s[i][1] = "migrated?" /\ s[j][1] = "migrated?" /\ i < j =>
           \E k \in i..j : s[k][1] = "migrate_lock"
Well(s, X) == s \in Seq(StepSet) /\ Order(s) /\ Names(s) \subseteq X

\* Steps named in X may come before steps named in Y.
Separate(X, Y) ==
    /\ \A p \in Pairs : ~(p[1] \in Y /\ p[2] \in X)
    /\ X \cap Y \cap Singles = {}

MigrateNames == {"enter_assembled", "assemble", "migrated?", "migrate_lock", "migrate", "migrated!"}
ValidatedNames == {"enter_validated", "enter_assembled", "assemble", "access", "sample", "validated!"}

\* What a method that is called has before it.
Started(s, m) ==
    /\ s \in Seq(StepSet) /\ Shape(s)
    /\ s # <<>> => s[1][1] # "assemble"
    /\ Has(s, "migrated!") => Has(s, "migrate_lock")
    /\ Has(s, "validated!") => Has(s, "enter_validated")
    /\ Has(s, "save") => Has(s, "validated!")
    /\ m = "run_once" => Has(s, "migrated!")

\* A step that is followed by another is not the last of its start.
LEMMA Within == ASSUME NEW n \in Int, NEW i \in 1..n, i + 1 \in 1..n PROVE i < n
  OBVIOUS

\* The length of two lists of steps together is a number.
LEMMA SumType == ASSUME NEW m \in Nat, NEW n \in Nat PROVE m + n \in Int
  OBVIOUS

\* Places in the second of two joined sequences of steps.
LEMMA Shift ==
  ASSUME NEW i \in Int, NEW a \in Int
  PROVE  /\ \A j \in Int : i - a = j - a => i = j
         /\ \A b \in Int : i - a \in 1..b /\ i - a < b =>
               (i - a) + 1 \in 1..b /\ ((i - a) + 1) + a = i + 1
  OBVIOUS

\* Each command of main starts with well-formed steps.
LEMMA MethodStarts ==
    ASSUME setup \in Setups, NEW method \in Methods
    PROVE  Started(MethodSteps(method), method)
  <1>JoinIs. ASSUME NEW S, NEW a \in Seq(S), NEW b \in Seq(S)
             PROVE  /\ a \o b \in Seq(S) /\ Len(a \o b) = Len(a) + Len(b)
                    /\ \A i \in 1..Len(a \o b) :
                          \/ i \in 1..Len(a) /\ (a \o b)[i] = a[i]
                          \/ i - Len(a) \in 1..Len(b) /\ (a \o b)[i] = b[i - Len(a)]
                    /\ \A i \in 1..Len(a) : i \in 1..Len(a \o b) /\ (a \o b)[i] = a[i]
                    /\ \A i \in 1..Len(b) : i + Len(a) \in 1..Len(a \o b) /\ (a \o b)[i + Len(a)] = b[i]
    OBVIOUS
  <1>JoinHas. ASSUME NEW S, NEW a \in Seq(S), NEW b \in Seq(S)
              PROVE  /\ \A n : Has(a, n) \/ Has(b, n) => Has(a \o b, n)
                     /\ \A n, f : HasFlow(a, n, f) \/ HasFlow(b, n, f) => HasFlow(a \o b, n, f)
                     /\ Names(a \o b) \subseteq Names(a) \cup Names(b)
    <2> DEFINE s == a \o b
    <2>1. /\ \A i \in 1..Len(s) : \/ i \in 1..Len(a) /\ s[i] = a[i]
                                  \/ i - Len(a) \in 1..Len(b) /\ s[i] = b[i - Len(a)]
          /\ \A i \in 1..Len(a) : i \in 1..Len(s) /\ s[i] = a[i]
          /\ \A i \in 1..Len(b) : i + Len(a) \in 1..Len(s) /\ s[i + Len(a)] = b[i]
      BY <1>JoinIs
    <2> HIDE DEF s
    <2>2. ASSUME NEW n, Has(a, n) \/ Has(b, n) PROVE Has(s, n)
      <3>1. CASE Has(a, n)
        BY <2>1, <3>1 DEF Has
      <3>2. CASE Has(b, n)
        <4>1. PICK i \in 1..Len(b) : b[i][1] = n
          BY <3>2 DEF Has
        <4>2. i + Len(a) \in 1..Len(s) /\ s[i + Len(a)][1] = n
          BY <2>1, <4>1
        <4> QED
          BY <4>2 DEF Has
      <3> QED
        BY <2>2, <3>1, <3>2
    <2>3. \A n, f : HasFlow(a, n, f) \/ HasFlow(b, n, f) => HasFlow(s, n, f)
      BY <2>1 DEF HasFlow
    <2>4. Names(s) \subseteq Names(a) \cup Names(b)
      <3> SUFFICES ASSUME NEW n \in Names(s) PROVE n \in Names(a) \cup Names(b)
        OBVIOUS
      <3>1. PICK i \in 1..Len(s) : n = s[i][1]
        BY DEF Names
      <3> QED
        BY ZenonT(40), <2>1, <3>1 DEF Names
    <2> QED
      BY <2>2, <2>3, <2>4 DEF s
  <1>JoinWell. ASSUME NEW X, NEW Y, NEW a, NEW b, Well(a, X), Well(b, Y), Separate(X, Y)
               PROVE  Well(a \o b, X \cup Y)
    <2> DEFINE s == a \o b
    <2>0. a \in Seq(StepSet) /\ b \in Seq(StepSet) /\ Len(a) \in Nat /\ Len(b) \in Nat
      BY <1>JoinWell DEF Well
    <2>1. /\ s \in Seq(StepSet) /\ Len(s) = Len(a) + Len(b)
          /\ \A i \in 1..Len(s) : \/ i \in 1..Len(a) /\ s[i] = a[i]
                                  \/ i - Len(a) \in 1..Len(b) /\ s[i] = b[i - Len(a)]
          /\ \A i \in 1..Len(a) : i \in 1..Len(s) /\ s[i] = a[i]
          /\ \A i \in 1..Len(b) : i + Len(a) \in 1..Len(s) /\ s[i + Len(a)] = b[i]
      BY <2>0, <1>JoinIs
    <2>2. Names(s) \subseteq X \cup Y
      BY <1>JoinWell, <2>0, <1>JoinHas DEF Well
    <2>3. /\ \A i \in 1..Len(a) : a[i][1] \in X
          /\ \A i \in 1..Len(b) : b[i][1] \in Y
      BY <1>JoinWell DEF Well, Names
    <2>4. Order(a) /\ Order(b)
      BY <1>JoinWell DEF Well
    <2> HIDE DEF s
    <2>5. ASSUME NEW m, NEW n, Before(a, m, n), Before(b, m, n), ~(m \in Y /\ n \in X)
          PROVE  Before(s, m, n)
      <3> SUFFICES ASSUME NEW i \in 1..Len(s), NEW j \in 1..Len(s), s[i][1] = m, s[j][1] = n PROVE i < j
        BY DEF Before
      <3>1. CASE i \in 1..Len(a) /\ s[i] = a[i] /\ j \in 1..Len(a) /\ s[j] = a[j]
        BY <3>1, <2>5 DEF Before
      <3>2. CASE i \in 1..Len(a) /\ s[i] = a[i] /\ j - Len(a) \in 1..Len(b) /\ s[j] = b[j - Len(a)]
        BY <3>2, <2>0
      <3>3. CASE i - Len(a) \in 1..Len(b) /\ s[i] = b[i - Len(a)] /\ j \in 1..Len(a) /\ s[j] = a[j]
        BY ZenonT(40), <3>3, <2>3, <2>5
      <3>4. CASE i - Len(a) \in 1..Len(b) /\ s[i] = b[i - Len(a)] /\ j - Len(a) \in 1..Len(b) /\ s[j] = b[j - Len(a)]
        <4>1. i - Len(a) < j - Len(a)
          BY <3>4, <2>5 DEF Before
        <4> QED
          BY <4>1, <2>0
      <3> QED
        BY ZenonT(40), <2>1, <3>1, <3>2, <3>3, <3>4
    <2>6. ASSUME NEW n, Once(a, n), Once(b, n), ~(n \in X /\ n \in Y) PROVE Once(s, n)
      <3> SUFFICES ASSUME NEW i \in 1..Len(s), NEW j \in 1..Len(s), s[i][1] = n, s[j][1] = n PROVE i = j
        BY DEF Once
      <3>1. CASE i \in 1..Len(a) /\ s[i] = a[i] /\ j \in 1..Len(a) /\ s[j] = a[j]
        BY <3>1, <2>6 DEF Once
      <3>2. CASE i - Len(a) \in 1..Len(b) /\ s[i] = b[i - Len(a)] /\ j - Len(a) \in 1..Len(b) /\ s[j] = b[j - Len(a)]
        <4>1. i - Len(a) = j - Len(a)
          BY <3>2, <2>6 DEF Once
        <4>2. i \in Int /\ j \in Int /\ Len(a) \in Int
          BY <2>0
        <4> QED
          BY <4>1, <4>2, Shift, ZenonT(40)
      <3>3. CASE i \in 1..Len(a) /\ s[i] = a[i] /\ j - Len(a) \in 1..Len(b) /\ s[j] = b[j - Len(a)]
        BY <3>3, <2>3, <2>6, ZenonT(40)
      <3>4. CASE i - Len(a) \in 1..Len(b) /\ s[i] = b[i - Len(a)] /\ j \in 1..Len(a) /\ s[j] = a[j]
        BY <3>4, <2>3, <2>6, ZenonT(40)
      <3> QED
        BY <2>1, <3>1, <3>2, <3>3, <3>4, ZenonT(40)
    <2>7. ASSUME NEW m, NEW n, Followed(a, m, n), Followed(b, m, n) PROVE Followed(s, m, n)
      <3> SUFFICES ASSUME NEW i \in 1..Len(s), s[i][1] = m PROVE i < Len(s) /\ s[i + 1][1] = n
        BY DEF Followed
      <3>1. CASE i \in 1..Len(a) /\ s[i] = a[i]
        <4>1. i < Len(a) /\ a[i + 1][1] = n
          BY <3>1, <2>7 DEF Followed
        <4>2. i + 1 \in 1..Len(a)
          BY <2>0, <4>1, <3>1
        <4>3. i + 1 \in 1..Len(s) /\ s[i + 1][1] = n
          BY ZenonT(40), <2>1, <4>1, <4>2
        <4>4. Len(s) \in Int
          BY ZenonT(40), <2>0, <2>1, SumType
        <4> QED
          BY ZenonT(40), <4>3, <4>4, Within
      <3>2. CASE i - Len(a) \in 1..Len(b) /\ s[i] = b[i - Len(a)]
        <4>1. i - Len(a) < Len(b) /\ b[(i - Len(a)) + 1][1] = n
          BY <3>2, <2>7 DEF Followed
        <4>2. (i - Len(a)) + 1 \in 1..Len(b) /\ ((i - Len(a)) + 1) + Len(a) = i + 1
          <5>1. i \in Int /\ Len(a) \in Int /\ Len(b) \in Int
            BY <2>0
          <5> QED
            BY <5>1, <4>1, <3>2, Shift, ZenonT(40)
        <4>3. i + 1 \in 1..Len(s) /\ s[i + 1] = b[(i - Len(a)) + 1]
          <5>1. PICK k \in 1..Len(b) : k = (i - Len(a)) + 1 /\ k + Len(a) = i + 1
            BY ZenonT(40), <4>2
          <5>2. k + Len(a) \in 1..Len(s) /\ s[k + Len(a)] = b[k]
            BY ZenonT(40), <2>1
          <5> QED
            BY ZenonT(40), <5>1, <5>2
        <4>4. Len(s) \in Int
          BY ZenonT(40), <2>0, <2>1, SumType
        <4> QED
          BY ZenonT(40), <4>1, <4>3, <4>4, Within
      <3> QED
        BY ZenonT(40), <2>1, <3>1, <3>2
    <2>8. ASSUME NEW i \in 1..Len(s), s[i][1] = "assemble" PROVE i > 1 /\ s[i - 1][1] = "enter_assembled"
      <3>1. CASE i \in 1..Len(a) /\ s[i] = a[i]
        <4>1. i > 1 /\ a[i - 1][1] = "enter_assembled"
          BY <3>1, <2>4, <2>8 DEF Order
        <4>2. i - 1 \in 1..Len(a)
          BY <4>1, <3>1, <2>0
        <4> QED
          BY ZenonT(40), <4>1, <4>2, <2>1
      <3>2. CASE i - Len(a) \in 1..Len(b) /\ s[i] = b[i - Len(a)]
        <4>1. i - Len(a) > 1 /\ b[(i - Len(a)) - 1][1] = "enter_assembled"
          BY <3>2, <2>4, <2>8 DEF Order
        <4>2. (i - Len(a)) - 1 \in 1..Len(b) /\ ((i - Len(a)) - 1) + Len(a) = i - 1 /\ i > 1
          BY <2>0, <4>1, <3>2
        <4>3. s[((i - Len(a)) - 1) + Len(a)] = b[(i - Len(a)) - 1]
          BY ZenonT(40), <2>1, <4>2
        <4> QED
          BY ZenonT(40), <4>1, <4>2, <4>3
      <3> QED
        BY ZenonT(40), <2>1, <2>8, <3>1, <3>2
    <2>9. ASSUME NEW i \in 1..Len(s), NEW j \in 1..Len(s), s[i][1] = "migrated?", s[j][1] = "migrated?", i < j
          PROVE  \E k \in i..j : s[k][1] = "migrate_lock"
      <3>0. ~("migrated?" \in X /\ "migrated?" \in Y)
        BY <1>JoinWell DEF Separate, Singles
      <3>1. CASE i \in 1..Len(a) /\ s[i] = a[i] /\ j \in 1..Len(a) /\ s[j] = a[j]
        <4>1. PICK k \in i..j : a[k][1] = "migrate_lock"
          BY <3>1, <2>4, <2>9 DEF Order
        <4>2. k \in 1..Len(a)
          BY <2>0, <3>1, <4>1
        <4> QED
          BY ZenonT(40), <2>1, <4>1, <4>2
      <3>2. CASE i - Len(a) \in 1..Len(b) /\ s[i] = b[i - Len(a)] /\ j - Len(a) \in 1..Len(b) /\ s[j] = b[j - Len(a)]
        <4>0. i - Len(a) < j - Len(a)
          BY <2>0, <2>9
        <4>1. PICK k \in (i - Len(a))..(j - Len(a)) : b[k][1] = "migrate_lock"
          BY ZenonT(40), <3>2, <2>4, <2>9, <4>0 DEF Order
        <4>2. k \in 1..Len(b) /\ k + Len(a) \in i..j
          BY <2>0, <3>2, <4>1
        <4>3. s[k + Len(a)][1] = "migrate_lock"
          BY ZenonT(40), <2>1, <4>1, <4>2
        <4> QED
          BY ZenonT(40), <4>2, <4>3
      <3>3. CASE i \in 1..Len(a) /\ s[i] = a[i] /\ j - Len(a) \in 1..Len(b) /\ s[j] = b[j - Len(a)]
        BY ZenonT(40), <2>3, <2>9, <3>0, <3>3
      <3>4. CASE i - Len(a) \in 1..Len(b) /\ s[i] = b[i - Len(a)] /\ j \in 1..Len(a) /\ s[j] = a[j]
        BY ZenonT(40), <2>3, <2>9, <3>0, <3>4
      <3> QED
        BY ZenonT(40), <2>1, <3>1, <3>2, <3>3, <3>4
    <2>10. \A i \in 1..Len(s) : s[i][1] \in StorageSteps => s[i][2] \in Flows
      BY ZenonT(40), <2>1, <2>4 DEF Order
    <2>11. \A p \in Pairs : Before(s, p[1], p[2])
      BY ZenonT(40), <1>JoinWell, <2>4, <2>5 DEF Order, Separate
    <2>12. Once(s, "validated!") /\ Once(s, "migrated!")
      BY <1>JoinWell, <2>4, <2>6 DEF Order, Separate, Singles
    <2>13. Followed(s, "enter_assembled", "assemble") /\ Followed(s, "migrate_lock", "migrated?")
      BY <2>4, <2>7 DEF Order
    <2>14. Order(s)
      BY ZenonT(40), <2>8, <2>9, <2>10, <2>11, <2>12, <2>13 DEF Order
    <2> QED
      BY ZenonT(40), <2>1, <2>2, <2>14 DEF Well, s
  \* A part has no two steps of which one must come before the other.
  <1>NoPairs. ASSUME NEW s, NEW X, \A i \in 1..Len(s) : s[i][1] \in X, \A p \in Pairs : ~(p[1] \in X /\ p[2] \in X)
              PROVE  (\A p \in Pairs : Before(s, p[1], p[2])) /\ Names(s) \subseteq X
    <2>1. ASSUME NEW p \in Pairs PROVE Before(s, p[1], p[2])
      BY <1>NoPairs DEF Before
    <2> QED
      BY <1>NoPairs, <2>1 DEF Names
  <1>SingleWell. ASSUME NEW n \in PlainSteps \ {"assemble", "enter_assembled", "migrate_lock"}
                 PROVE  Well(<<<<n>>>>, {n})
    <2> DEFINE s == <<<<n>>>>
    <2>1. s \in Seq(StepSet) /\ Len(s) = 1 /\ s[1] = <<n>> /\ s[1][1] = n
      BY DEF StepSet
    <2>2. \A i \in 1..Len(s) : i = 1 /\ s[i][1] = n
      BY <2>1
    <2> HIDE DEF s
    <2>3. \A p \in Pairs : ~(p[1] \in {n} /\ p[2] \in {n})
      BY DEF Pairs
    <2>4. (\A p \in Pairs : Before(s, p[1], p[2])) /\ Names(s) \subseteq {n}
      BY ZenonT(40), <2>2, <2>3, <1>NoPairs
    <2>5. n \notin StorageSteps /\ n # "assemble" /\ n # "enter_assembled" /\ n # "migrate_lock"
      BY DEF PlainSteps, StorageSteps
    <2>6. \A i, j \in 1..Len(s) : ~(i < j)
      BY <2>2
    <2>7. Order(s)
      BY <2>2, <2>4, <2>5, <2>6 DEF Order, Followed, Once
    <2> QED
      BY <2>1, <2>4, <2>7 DEF Well, s
  <1>AssembledWell. Well(flows_assembled, {"enter_assembled", "assemble"})
    <2> DEFINE s == flows_assembled
               X == {"enter_assembled", "assemble"}
    <2>1. s \in Seq(StepSet) /\ Len(s) = 2 /\ s[1][1] = "enter_assembled" /\ s[2][1] = "assemble"
      BY DEF StepSet, PlainSteps, flows_assembled
    <2> HIDE DEF s
    <2>2. \A i \in 1..Len(s) : (i = 1 /\ s[i][1] = "enter_assembled") \/ (i = 2 /\ s[i][1] = "assemble")
      BY <2>1
    <2>3. \A p \in Pairs : ~(p[1] \in X /\ p[2] \in X)
      BY DEF Pairs
    <2>4. (\A p \in Pairs : Before(s, p[1], p[2])) /\ Names(s) \subseteq X
      BY ZenonT(40), <2>2, <2>3, <1>NoPairs
    <2>5. Followed(s, "enter_assembled", "assemble") /\ Followed(s, "migrate_lock", "migrated?")
      BY <2>1, <2>2 DEF Followed
    <2>6. \A i \in 1..Len(s) : s[i][1] = "assemble" => i > 1 /\ s[i - 1][1] = "enter_assembled"
      BY <2>1, <2>2
    <2>7. /\ Once(s, "validated!") /\ Once(s, "migrated!")
          /\ \A i \in 1..Len(s) : s[i][1] \notin StorageSteps /\ s[i][1] # "migrated?"
      BY <2>2 DEF Once, StorageSteps
    <2>8. Order(s)
      BY <2>4, <2>5, <2>6, <2>7 DEF Order
    <2> QED
      BY <2>1, <2>4, <2>8 DEF Well, s
  <1>LockWell. Well(<<<<"migrated?">>, <<"migrate_lock">>, <<"migrated?">>>>, {"migrated?", "migrate_lock"})
    <2> DEFINE s == <<<<"migrated?">>, <<"migrate_lock">>, <<"migrated?">>>>
               X == {"migrated?", "migrate_lock"}
    <2>1. /\ s \in Seq(StepSet) /\ Len(s) = 3
          /\ s[1][1] = "migrated?" /\ s[2][1] = "migrate_lock" /\ s[3][1] = "migrated?"
      BY DEF StepSet, PlainSteps
    <2> HIDE DEF s
    <2>2. \A i \in 1..Len(s) : \/ i = 1 /\ s[i][1] = "migrated?"
                               \/ i = 2 /\ s[i][1] = "migrate_lock"
                               \/ i = 3 /\ s[i][1] = "migrated?"
      BY <2>1
    <2>3. \A p \in Pairs : ~(p[1] \in X /\ p[2] \in X)
      BY DEF Pairs
    <2>4. (\A p \in Pairs : Before(s, p[1], p[2])) /\ Names(s) \subseteq X
      BY ZenonT(40), <2>2, <2>3, <1>NoPairs
    <2>5. Followed(s, "enter_assembled", "assemble") /\ Followed(s, "migrate_lock", "migrated?")
      BY <2>1, <2>2 DEF Followed
    <2>6. \A i \in 1..Len(s) : s[i][1] # "assemble" /\ s[i][1] \notin StorageSteps
      BY <2>2 DEF StorageSteps
    <2>7. Once(s, "validated!") /\ Once(s, "migrated!")
      BY <2>2 DEF Once
    <2>8. ASSUME NEW i \in 1..Len(s), NEW j \in 1..Len(s), s[i][1] = "migrated?", s[j][1] = "migrated?", i < j
          PROVE  \E k \in i..j : s[k][1] = "migrate_lock"
      <3>1. 2 \in i..j
        BY <2>2, <2>8
      <3> QED
        BY <2>1, <3>1
    <2>9. Order(s)
      BY <2>4, <2>5, <2>6, <2>7, <2>8 DEF Order
    <2> QED
      BY <2>1, <2>4, <2>9 DEF Well, s
  <1>FlowsWell. ASSUME NEW x \in StorageSteps
                PROVE  /\ Well(ForFlows(x), {x})
                       /\ \A f \in Flows : HasFlow(ForFlows(x), x, f)
    <2> DEFINE s == ForFlows(x)
               o == setup.order
               P(i) == <<x, o[i]>>
    <2>0. o \in Seq(Flows) /\ \A f \in Flows : \E i \in 1..Len(o) : o[i] = f
      BY SetupAssumption DEF Flows
    <2>1. s = [i \in 1..Len(o) |-> P(i)]
      BY DEF ForFlows
    <2> HIDE DEF s, o
    <2>2. \A i \in 1..Len(o) : o[i] \in Flows /\ P(i) \in StepSet /\ P(i)[1] = x /\ P(i)[2] = o[i]
      BY <2>0 DEF StepSet
    <2> HIDE DEF P
    <2>3. s \in Seq(StepSet) /\ Len(s) = Len(o) /\ \A i \in 1..Len(s) : s[i] = P(i)
      BY <2>0, <2>1, <2>2
    <2>4. \A i \in 1..Len(s) : s[i][1] = x /\ s[i][2] \in Flows
      BY <2>2, <2>3
    <2>5. \A p \in Pairs : ~(p[1] \in {x} /\ p[2] \in {x})
      BY DEF Pairs
    <2>6. (\A p \in Pairs : Before(s, p[1], p[2])) /\ Names(s) \subseteq {x}
      BY ZenonT(40), <2>4, <2>5, <1>NoPairs
    <2>7. x \notin {"enter_assembled", "assemble", "migrate_lock", "validated!", "migrated!", "migrated?"}
      BY DEF StorageSteps
    <2>8. Order(s)
      BY <2>4, <2>6, <2>7 DEF Order, Followed, Once
    <2>9. ASSUME NEW f \in Flows PROVE HasFlow(s, x, f)
      <3>1. PICK i \in 1..Len(o) : o[i] = f
        BY <2>0
      <3>2. i \in 1..Len(s) /\ IsStep(s[i], x, f)
        BY <2>3, <3>1 DEF IsStep, P
      <3> QED
        BY <3>2 DEF HasFlow
    <2> QED
      BY <2>3, <2>6, <2>8, <2>9 DEF Well, s
  <1>WellShape. ASSUME NEW X, NEW s, Well(s, X),
                       Has(s, "enter_validated") => Has(s, "validated!"),
                       Has(s, "migrated?") => Has(s, "migrated!") /\ \A f \in Flows : HasFlow(s, "migrate", f)
                PROVE  Shape(s)
    <2>1. Order(s) /\ Len(s) \in Nat
      BY <1>WellShape DEF Well
    <2>2. \A m, n : <<m, n>> \in Pairs => Before(s, m, n)
      <3> SUFFICES ASSUME NEW m, NEW n, <<m, n>> \in Pairs PROVE Before(s, m, n)
        OBVIOUS
      <3> DEFINE p == <<m, n>>
      <3>1. p[1] = m /\ p[2] = n /\ p \in Pairs
        OBVIOUS
      <3>2. Before(s, p[1], p[2])
        BY <2>1, <3>1 DEF Order
      <3> QED
        BY <3>1, <3>2
    <2>3. /\ Before(s, "enter_validated", "validated!") /\ Before(s, "migrate_lock", "migrated!")
          /\ Before(s, "migrated?", "migrate") /\ Before(s, "migrate", "migrated!")
          /\ Before(s, "migrated?", "migrated!")
          /\ Before(s, "migrated!", "enter_validated") /\ Before(s, "migrated!", "validated!")
          /\ Before(s, "validated!", "save")
          /\ Before(s, "migrated!", "sample") /\ Before(s, "migrated!", "load") /\ Before(s, "migrated!", "save")
      BY <2>2 DEF Pairs
    <2>4. \A i \in 2..Len(s) : s[i][1] = "assemble" => s[i - 1][1] = "enter_assembled"
      BY <2>1 DEF Order
    <2>5. \A i, j \in 1..Len(s) : s[i][1] = "migrated?" /\ s[j][1] = "migrated?" /\ i < j =>
             \E k \in i..j : s[k][1] = "migrate_lock"
      BY <2>1 DEF Order
    <2>6. /\ \A i \in 1..Len(s) : s[i][1] \in StorageSteps => s[i][2] \in Flows
          /\ Followed(s, "enter_assembled", "assemble") /\ Followed(s, "migrate_lock", "migrated?")
          /\ Once(s, "validated!") /\ Once(s, "migrated!")
      BY <2>1 DEF Order
    <2>7. \A n \in {"sample", "load", "save"} : Before(s, "migrated!", n)
      BY <2>3
    <2> QED
      BY <1>WellShape, <2>3, <2>4, <2>5, <2>6, <2>7 DEF Shape, ShapeOf
  <1>HasNames. ASSUME NEW s, NEW X, Well(s, X), NEW n, n \notin X
               PROVE  ~Has(s, n)
    BY <1>HasNames DEF Well, Names, Has
  <1>SingleHas. ASSUME NEW n PROVE Has(<<<<n>>>>, n)
    <2> DEFINE s == <<<<n>>>>
    <2>1. 1 \in 1..Len(s) /\ s[1][1] = n
      OBVIOUS
    <2> QED
      BY <2>1 DEF Has
  <1>MigrateWell. /\ Well(migrate, MigrateNames)
                  /\ Has(migrate, "migrated!") /\ Has(migrate, "migrate_lock")
                  /\ \A f \in Flows : HasFlow(migrate, "migrate", f)
    <2> DEFINE b == <<<<"migrated?">>, <<"migrate_lock">>, <<"migrated?">>>>
               c == ForFlows("migrate")
               d == <<<<"migrated!">>>>
               ab == flows_assembled \o b
               abc == ab \o c
    <2>0. migrate = abc \o d
      BY DEF migrate
    <2>1. Well(flows_assembled, {"enter_assembled", "assemble"}) /\ Well(b, {"migrated?", "migrate_lock"})
      BY <1>AssembledWell, <1>LockWell
    <2>2. Well(c, {"migrate"}) /\ \A f \in Flows : HasFlow(c, "migrate", f)
      BY <1>FlowsWell DEF StorageSteps
    <2>3. Well(d, {"migrated!"}) /\ Has(d, "migrated!")
      BY <1>SingleWell, <1>SingleHas DEF PlainSteps
    <2>4. Has(b, "migrate_lock")
      <3>1. 2 \in 1..Len(b) /\ b[2][1] = "migrate_lock"
        OBVIOUS
      <3> QED
        BY <3>1 DEF Has
    <2> HIDE DEF b, c, d
    <2>5. Well(ab, {"enter_assembled", "assemble"} \cup {"migrated?", "migrate_lock"})
      <3>1. Separate({"enter_assembled", "assemble"}, {"migrated?", "migrate_lock"})
        BY DEF Separate, Pairs, Singles
      <3> QED
        BY <2>1, <3>1, <1>JoinWell
    <2>6. Well(abc, ({"enter_assembled", "assemble"} \cup {"migrated?", "migrate_lock"}) \cup {"migrate"})
      <3>1. Separate({"enter_assembled", "assemble"} \cup {"migrated?", "migrate_lock"}, {"migrate"})
        BY DEF Separate, Pairs, Singles
      <3> QED
        BY <2>2, <2>5, <3>1, <1>JoinWell
    <2>7. Well(abc \o d, (({"enter_assembled", "assemble"} \cup {"migrated?", "migrate_lock"}) \cup {"migrate"})
                         \cup {"migrated!"})
      <3>1. Separate(({"enter_assembled", "assemble"} \cup {"migrated?", "migrate_lock"}) \cup {"migrate"},
                     {"migrated!"})
        BY DEF Separate, Pairs, Singles
      <3> QED
        BY <2>3, <2>6, <3>1, <1>JoinWell
    <2>8. /\ flows_assembled \in Seq(StepSet) /\ b \in Seq(StepSet) /\ c \in Seq(StepSet) /\ d \in Seq(StepSet)
          /\ ab \in Seq(StepSet) /\ abc \in Seq(StepSet)
      BY <2>1, <2>2, <2>3, <2>5, <2>6 DEF Well
    <2>9. Has(ab, "migrate_lock")
      BY <2>4, <2>8, <1>JoinHas
    <2> HIDE DEF ab
    <2>10. Has(abc, "migrate_lock") /\ \A f \in Flows : HasFlow(abc, "migrate", f)
      BY <2>2, <2>8, <2>9, <1>JoinHas
    <2> HIDE DEF abc
    <2>11. Has(abc \o d, "migrate_lock") /\ Has(abc \o d, "migrated!") /\ \A f \in Flows : HasFlow(abc \o d, "migrate", f)
      BY <2>3, <2>8, <2>10, <1>JoinHas
    <2>12. (({"enter_assembled", "assemble"} \cup {"migrated?", "migrate_lock"}) \cup {"migrate"}) \cup {"migrated!"}
           = MigrateNames
      BY DEF MigrateNames
    <2> QED
      BY ZenonT(40), <2>0, <2>7, <2>11, <2>12
  <1>ValidatedWell. /\ Well(flows_validated, ValidatedNames)
                    /\ Has(flows_validated, "enter_validated") /\ Has(flows_validated, "validated!")
    <2> DEFINE a == <<<<"enter_validated">>>>
               c == ForFlows("access")
               d == ForFlows("sample")
               e == <<<<"validated!">>>>
               ab == a \o flows_assembled
               abc == ab \o c
               abcd == abc \o d
               X1 == {"enter_validated"} \cup {"enter_assembled", "assemble"}
               X2 == X1 \cup {"access"}
               X3 == X2 \cup {"sample"}
    <2>0. flows_validated = abcd \o e
      BY DEF flows_validated
    <2>1. Well(a, {"enter_validated"}) /\ Has(a, "enter_validated") /\ Well(e, {"validated!"}) /\ Has(e, "validated!")
      BY <1>SingleWell, <1>SingleHas DEF PlainSteps
    <2>2. Well(flows_assembled, {"enter_assembled", "assemble"})
      BY <1>AssembledWell
    <2>3. Well(c, {"access"}) /\ Well(d, {"sample"})
      BY <1>FlowsWell DEF StorageSteps
    <2> HIDE DEF a, c, d, e
    <2>4. Well(ab, X1)
      <3>1. Separate({"enter_validated"}, {"enter_assembled", "assemble"})
        BY DEF Separate, Pairs, Singles
      <3> QED
        BY <2>1, <2>2, <3>1, <1>JoinWell
    <2>5. Well(abc, X2)
      <3>1. Separate(X1, {"access"})
        BY DEF Separate, Pairs, Singles
      <3> QED
        BY <2>3, <2>4, <3>1, <1>JoinWell
    <2>6. Well(abcd, X3)
      <3>1. Separate(X2, {"sample"})
        BY DEF Separate, Pairs, Singles
      <3> QED
        BY <2>3, <2>5, <3>1, <1>JoinWell
    <2>7. Well(abcd \o e, X3 \cup {"validated!"})
      <3>1. Separate(X3, {"validated!"})
        BY DEF Separate, Pairs, Singles
      <3> QED
        BY <2>1, <2>6, <3>1, <1>JoinWell
    <2>8. /\ a \in Seq(StepSet) /\ flows_assembled \in Seq(StepSet) /\ c \in Seq(StepSet) /\ d \in Seq(StepSet)
          /\ e \in Seq(StepSet) /\ ab \in Seq(StepSet) /\ abc \in Seq(StepSet) /\ abcd \in Seq(StepSet)
      BY <2>1, <2>2, <2>3, <2>4, <2>5, <2>6 DEF Well
    <2>9. Has(ab, "enter_validated")
      BY <2>1, <2>8, <1>JoinHas
    <2> HIDE DEF ab
    <2>10. Has(abc, "enter_validated")
      BY <2>8, <2>9, <1>JoinHas
    <2> HIDE DEF abc
    <2>11. Has(abcd, "enter_validated")
      BY <2>8, <2>10, <1>JoinHas
    <2> HIDE DEF abcd
    <2>12. Has(abcd \o e, "enter_validated") /\ Has(abcd \o e, "validated!")
      BY <2>1, <2>8, <2>11, <1>JoinHas
    <2>13. X3 \cup {"validated!"} = ValidatedNames
      BY DEF ValidatedNames
    <2> QED
      BY ZenonT(40), <2>0, <2>7, <2>12, <2>13
  <1>WellStarts. ASSUME NEW X, NEW s, Well(s, X) PROVE s \in Seq(StepSet) /\ (s # <<>> => s[1][1] # "assemble")
    <2>1. s \in Seq(StepSet) /\ Order(s)
      BY <1>WellStarts DEF Well
    <2>2. ASSUME s # <<>> PROVE s[1][1] # "assemble"
      <3>1. 1 \in 1..Len(s)
        BY <2>1, <2>2
      <3> QED
        BY <2>1, <3>1 DEF Order
    <2> QED
      BY <2>1, <2>2
  <1> DEFINE s == MethodSteps(method)
  <1>1. CASE method = "assemble"
    <2>1. s = flows_assembled
      BY <1>1 DEF MethodSteps
    <2>2. Well(s, {"enter_assembled", "assemble"})
      BY <2>1, <1>AssembledWell
    <2> HIDE DEF s
    <2>3. /\ ~Has(s, "enter_validated") /\ ~Has(s, "migrated?") /\ ~Has(s, "migrated!")
          /\ ~Has(s, "validated!") /\ ~Has(s, "save")
      BY <2>2, <1>HasNames
    <2>4. Shape(s)
      BY <2>2, <2>3, <1>WellShape
    <2>5. s \in Seq(StepSet) /\ (s # <<>> => s[1][1] # "assemble")
      BY <2>2, <1>WellStarts
    <2>6. Started(s, method)
      BY <2>3, <2>4, <2>5, <1>1 DEF Started
    <2> QED
      BY <2>6 DEF s
  <1>2. CASE method = "migrate"
    <2>1. s = migrate
      BY <1>2 DEF MethodSteps
    <2>2. /\ Well(s, MigrateNames)
          /\ Has(s, "migrated!") /\ Has(s, "migrate_lock")
          /\ \A f \in Flows : HasFlow(s, "migrate", f)
      BY <2>1, <1>MigrateWell
    <2> HIDE DEF s
    <2>3. ~Has(s, "enter_validated") /\ ~Has(s, "validated!") /\ ~Has(s, "save")
      BY <2>2, <1>HasNames DEF MigrateNames
    <2>4. Shape(s)
      BY <2>2, <2>3, <1>WellShape
    <2>5. s \in Seq(StepSet) /\ (s # <<>> => s[1][1] # "assemble")
      BY <2>2, <1>WellStarts
    <2>6. Started(s, method)
      BY <2>2, <2>3, <2>4, <2>5 DEF Started
    <2> QED
      BY <2>6 DEF s
  <1>3. CASE method = "validate"
    <2>1. s = flows_validated
      BY <1>3 DEF MethodSteps
    <2>2. Well(s, ValidatedNames) /\ Has(s, "enter_validated") /\ Has(s, "validated!")
      BY <2>1, <1>ValidatedWell
    <2> HIDE DEF s
    <2>3. ~Has(s, "migrated?") /\ ~Has(s, "migrated!")
      BY <2>2, <1>HasNames DEF ValidatedNames
    <2>4. Shape(s)
      BY <2>2, <2>3, <1>WellShape
    <2>5. s \in Seq(StepSet) /\ (s # <<>> => s[1][1] # "assemble")
      BY <2>2, <1>WellStarts
    <2>6. Started(s, method)
      BY <2>2, <2>3, <2>4, <2>5, <1>3 DEF Started
    <2> QED
      BY <2>6 DEF s
  <1>4. CASE method = "run_daemon"
    <2> DEFINE d == <<<<"daemon">>>>
    <2>1. s = flows_validated \o d
      BY <1>4 DEF MethodSteps
    <2>2. Well(flows_validated, ValidatedNames) /\ Has(flows_validated, "enter_validated")
          /\ Has(flows_validated, "validated!")
      BY <1>ValidatedWell
    <2>3. Well(d, {"daemon"})
      BY <1>SingleWell DEF PlainSteps
    <2> HIDE DEF d, s
    <2>4. Separate(ValidatedNames, {"daemon"})
      BY DEF Separate, Pairs, Singles, ValidatedNames
    <2>5. Well(s, ValidatedNames \cup {"daemon"})
      BY <2>1, <2>2, <2>3, <2>4, <1>JoinWell
    <2>6. flows_validated \in Seq(StepSet) /\ d \in Seq(StepSet)
      BY <2>2, <2>3 DEF Well
    <2>7. Has(s, "enter_validated") /\ Has(s, "validated!")
      BY <2>1, <2>2, <2>6, <1>JoinHas
    <2>8. ~Has(s, "migrated?") /\ ~Has(s, "migrated!")
      BY <2>5, <1>HasNames DEF ValidatedNames
    <2>9. Shape(s)
      BY <2>5, <2>7, <2>8, <1>WellShape
    <2>10. s \in Seq(StepSet) /\ (s # <<>> => s[1][1] # "assemble")
      BY <2>5, <1>WellStarts
    <2>11. Started(s, method)
      BY <2>7, <2>8, <2>9, <2>10, <1>4 DEF Started
    <2> QED
      BY <2>11 DEF s
  <1>5. CASE method = "run_once"
    <2> DEFINE l == ForFlows("load")
               v == ForFlows("save")
               ab == migrate \o flows_validated
               abl == ab \o l
               X1 == MigrateNames \cup ValidatedNames
               X2 == X1 \cup {"load"}
    <2>1. s = abl \o v
      BY <1>5 DEF MethodSteps
    <2>2. /\ Well(migrate, MigrateNames)
          /\ Has(migrate, "migrated!") /\ Has(migrate, "migrate_lock")
          /\ \A f \in Flows : HasFlow(migrate, "migrate", f)
      BY <1>MigrateWell
    <2>3. Well(flows_validated, ValidatedNames) /\ Has(flows_validated, "enter_validated")
          /\ Has(flows_validated, "validated!")
      BY <1>ValidatedWell
    <2>4. Well(l, {"load"}) /\ Well(v, {"save"})
      BY <1>FlowsWell DEF StorageSteps
    <2> HIDE DEF s, l, v
    <2>5. Well(ab, X1)
      <3>1. Separate(MigrateNames, ValidatedNames)
        BY DEF Separate, Pairs, Singles, MigrateNames, ValidatedNames
      <3> QED
        BY <2>2, <2>3, <3>1, <1>JoinWell
    <2>6. Well(abl, X2)
      <3>1. Separate(X1, {"load"})
        BY DEF Separate, Pairs, Singles, MigrateNames, ValidatedNames
      <3> QED
        BY <2>4, <2>5, <3>1, <1>JoinWell
    <2>7. Well(s, X2 \cup {"save"})
      <3>1. Separate(X2, {"save"})
        BY DEF Separate, Pairs, Singles, MigrateNames, ValidatedNames
      <3> QED
        BY <2>1, <2>4, <2>6, <3>1, <1>JoinWell
    <2>8. /\ migrate \in Seq(StepSet) /\ flows_validated \in Seq(StepSet) /\ l \in Seq(StepSet)
          /\ v \in Seq(StepSet) /\ ab \in Seq(StepSet) /\ abl \in Seq(StepSet)
      BY <2>2, <2>3, <2>4, <2>5, <2>6 DEF Well
    <2> DEFINE All(x) == /\ Has(x, "migrated!") /\ Has(x, "migrate_lock")
                         /\ Has(x, "enter_validated") /\ Has(x, "validated!")
                         /\ \A f \in Flows : HasFlow(x, "migrate", f)
    <2>9. All(ab)
      BY <2>2, <2>3, <2>8, <1>JoinHas
    <2> HIDE DEF ab
    <2>10. All(abl)
      BY <2>8, <2>9, <1>JoinHas
    <2> HIDE DEF abl
    <2>11. All(s)
      BY <2>1, <2>8, <2>10, <1>JoinHas
    <2>12. Shape(s)
      BY <2>7, <2>11, <1>WellShape
    <2>13. s \in Seq(StepSet) /\ (s # <<>> => s[1][1] # "assemble")
      BY <2>7, <1>WellStarts
    <2>14. Started(s, method)
      BY <2>11, <2>12, <2>13 DEF Started
    <2> QED
      BY <2>14 DEF s
  <1>6. CASE method \in {"spawn_metrics", "abort", "join"}
    <2>1. s = <<<<method>>>>
      BY <1>6 DEF MethodSteps
    <2>2. Well(s, {method})
      BY <2>1, <1>6, <1>SingleWell DEF PlainSteps
    <2> HIDE DEF s
    <2>3. /\ ~Has(s, "enter_validated") /\ ~Has(s, "migrated?") /\ ~Has(s, "migrated!")
          /\ ~Has(s, "validated!") /\ ~Has(s, "save")
      BY <2>2, <1>6, <1>HasNames
    <2>4. Shape(s)
      BY <2>2, <2>3, <1>WellShape
    <2>5. s \in Seq(StepSet) /\ (s # <<>> => s[1][1] # "assemble")
      BY <2>2, <1>WellStarts
    <2>6. Started(s, method)
      BY <2>3, <2>4, <2>5, <1>6 DEF Started
    <2> QED
      BY <2>6 DEF s
  <1> QED
    BY <1>1, <1>2, <1>3, <1>4, <1>5, <1>6 DEF Methods

-----------------------------------------------------------------------------
(* What a task has before it when it has done a step or skipped some.      *)

NotAssemble(r) == r # <<>> => r[1][1] # "assemble"
\* r is what is left of s; only steps named in D were dropped.
Left(r, s, D) ==
    /\ r \in Seq(StepSet) /\ Shape(r)
    /\ \A n : Has(r, n) => Has(s, n)
    /\ \A n : n \notin D /\ Has(s, n) => Has(r, n)
    /\ \A n, f : n \notin D /\ HasFlow(s, n, f) => HasFlow(r, n, f)

\* A step that comes before the first one left is not left.
LEMMA FirstFact ==
    ASSUME NEW s \in Seq(StepSet), s # <<>>, NEW m, NEW n, Before(s, m, n), s[1][1] = n
    PROVE  ~Has(s, m)
  <1>1. 1 \in 1..Len(s)
    OBVIOUS
  <1>2. ASSUME NEW i \in 1..Len(s), s[i][1] = m PROVE FALSE
    <2>1. i < 1
      BY <1>1, <1>2 DEF Before
    <2> QED
      BY <2>1
  <1> QED
    BY <1>2 DEF Has

\* The steps left behind the k-th one are well formed.
LEMMA RestLeft ==
    ASSUME NEW r \in Seq(StepSet), NEW s \in Seq(StepSet), Shape(s), NEW k \in 1..Len(s), Rest(r, s, k),
           NEW D, \A i \in 1..k : s[i][1] \in D
    PROVE  /\ Left(r, s, D)
           /\ s[k][1] # "enter_assembled" => NotAssemble(r)
           /\ \A n : Once(s, n) /\ s[k][1] = n => ~Has(r, n)
           /\ \A n, f : HasFlow(s, n, f) => HasFlow(r, n, f) \/ \E i \in 1..k : IsStep(s[i], n, f)
  <1>0. Len(r) \in Nat /\ Len(s) \in Nat /\ k \in Nat /\ k <= Len(s) /\ Len(r) = Len(s) - k
    BY DEF Rest
  \* The steps left are among those that were.
  <1>RestHas. ASSUME NEW n
              PROVE  /\ Has(r, n) => Has(s, n)
                     /\ Has(s, n) => Has(r, n) \/ \E i \in 1..k : s[i][1] = n
    <2>1. ASSUME NEW i \in 1..Len(r), r[i][1] = n PROVE Has(s, n)
      <3>1. i + k \in 1..Len(s) /\ s[i + k] = r[i]
        BY <1>0 DEF Rest
      <3> QED
        BY <2>1, <3>1 DEF Has
    <2>2. ASSUME NEW j \in 1..Len(s), s[j][1] = n, ~(\E i \in 1..k : s[i][1] = n) PROVE Has(r, n)
      <3>1. j > k
        BY <1>0, <2>2
      <3>2. j - k \in 1..Len(r) /\ (j - k) + k = j
        BY <1>0, <3>1
      <3>3. r[j - k] = s[j]
        BY <3>2 DEF Rest
      <3> QED
        BY <2>2, <3>2, <3>3 DEF Has
    <2> QED
      BY <2>1, <2>2 DEF Has
  <1>RestHasFlow. ASSUME NEW n, NEW f
                  PROVE  HasFlow(s, n, f) => HasFlow(r, n, f) \/ \E i \in 1..k : IsStep(s[i], n, f)
    <2>2. ASSUME NEW j \in 1..Len(s), IsStep(s[j], n, f), ~(\E i \in 1..k : IsStep(s[i], n, f)) PROVE HasFlow(r, n, f)
      <3>1. j > k
        BY <1>0, <2>2
      <3>2. j - k \in 1..Len(r) /\ (j - k) + k = j
        BY <1>0, <3>1
      <3>3. r[j - k] = s[j]
        BY <3>2 DEF Rest
      <3> QED
        BY <2>2, <3>2, <3>3 DEF HasFlow
    <2> QED
      BY <2>2 DEF HasFlow
  <1>RestBefore. ASSUME NEW m, NEW n
                 PROVE  /\ Before(s, m, n) => Before(r, m, n)
                        /\ Once(s, n) => Once(r, n)
                        /\ Followed(s, m, n) => Followed(r, m, n)
    <2>1. \A i \in 1..Len(r) : i + k \in 1..Len(s) /\ s[i + k] = r[i]
      BY <1>0 DEF Rest
    <2>2. ASSUME Before(s, m, n) PROVE Before(r, m, n)
      <3> SUFFICES ASSUME NEW i \in 1..Len(r), NEW j \in 1..Len(r), r[i][1] = m, r[j][1] = n PROVE i < j
        BY DEF Before
      <3>1. i + k < j + k
        BY <2>1, <2>2 DEF Before
      <3> QED
        BY <1>0, <3>1
    <2>3. ASSUME Once(s, n) PROVE Once(r, n)
      <3> SUFFICES ASSUME NEW i \in 1..Len(r), NEW j \in 1..Len(r), r[i][1] = n, r[j][1] = n PROVE i = j
        BY DEF Once
      <3>1. i + k = j + k
        BY <2>1, <2>3 DEF Once
      <3> QED
        BY <1>0, <3>1
    <2>4. ASSUME Followed(s, m, n) PROVE Followed(r, m, n)
      <3> SUFFICES ASSUME NEW i \in 1..Len(r), r[i][1] = m PROVE i < Len(r) /\ r[i + 1][1] = n
        BY DEF Followed
      <3>1. i + k < Len(s) /\ s[i + k + 1][1] = n
        BY <2>1, <2>4 DEF Followed
      <3>2. i < Len(r) /\ i + 1 \in 1..Len(r) /\ (i + 1) + k = i + k + 1
        BY <1>0, <3>1
      <3> QED
        BY <2>1, <3>1, <3>2
    <2> QED
      BY <2>2, <2>3, <2>4
  \* What comes after a step that is left is left.
  <1>RestAfter. ASSUME NEW m, NEW n,
                       Before(s, m, n), Has(r, m)
                PROVE  /\ Has(s, n) => Has(r, n)
                       /\ \A f : HasFlow(s, n, f) => HasFlow(r, n, f)
    <2>1. PICK i \in 1..Len(r) : r[i][1] = m
      BY <1>RestAfter DEF Has
    <2>2. i + k \in 1..Len(s) /\ s[i + k][1] = m
      BY <1>0, <2>1 DEF Rest
    <2>3. ASSUME NEW j \in 1..k, s[j][1] = n PROVE FALSE
      <3>1. j \in 1..Len(s)
        BY <1>0
      <3>2. i + k < j
        BY <1>RestAfter, <2>2, <2>3, <3>1 DEF Before
      <3> QED
        BY <1>0, <3>2
    <2>4. Has(s, n) => Has(r, n)
      BY <2>3, <1>RestHas
    <2>5. ASSUME NEW f, HasFlow(s, n, f) PROVE HasFlow(r, n, f)
      <3>1. ASSUME NEW j \in 1..k, IsStep(s[j], n, f) PROVE FALSE
        <4>1. s[j][1] = n
          BY <3>1 DEF IsStep
        <4> QED
          BY <2>3, <4>1
      <3>2. ~ \E j \in 1..k : IsStep(s[j], n, f)
        BY <3>1
      <3> QED
        <4>1. HasFlow(s, n, f) => HasFlow(r, n, f) \/ \E j \in 1..k : IsStep(s[j], n, f)
          BY <1>RestHasFlow
        <4> QED
          BY <2>5, <3>2, <4>1, ZenonT(40)
    <2> QED
      BY <2>4, <2>5
  <1>RestShape. ASSUME Shape(s)
                PROVE  Shape(r)
    <2>1. \A i \in 1..Len(r) : i + k \in 1..Len(s) /\ s[i + k] = r[i]
      BY <1>0 DEF Rest
    <2>2. \A i \in 1..Len(r) : r[i][1] \in StorageSteps => r[i][2] \in Flows
      BY ZenonT(40), <2>1 DEF Shape, ShapeOf
    <2>3. ASSUME NEW i \in 2..Len(r), r[i][1] = "assemble" PROVE r[i - 1][1] = "enter_assembled"
      <3>1. i - 1 \in 1..Len(r) /\ i \in 1..Len(r) /\ (i - 1) + k = (i + k) - 1
        BY <1>0
      <3>2. i + k \in 2..Len(s) /\ s[i + k][1] = "assemble"
        BY <1>0, <2>1, <2>3, <3>1
      <3>3. s[(i + k) - 1][1] = "enter_assembled"
        BY <3>2 DEF Shape, ShapeOf
      <3> QED
        BY <2>1, <3>1, <3>3
    <2>4. ASSUME NEW i \in 1..Len(r), NEW j \in 1..Len(r), r[i][1] = "migrated?", r[j][1] = "migrated?", i < j
          PROVE  \E l \in i..j : r[l][1] = "migrate_lock"
      <3>1. i + k < j + k
        BY <1>0, <2>4
      <3>2. PICK l \in (i + k)..(j + k) : s[l][1] = "migrate_lock"
        <4>1. i + k \in 1..Len(s) /\ j + k \in 1..Len(s)
          BY <2>1
        <4>2. s[i + k][1] = "migrated?" /\ s[j + k][1] = "migrated?"
          BY <2>1, <2>4
        <4>3. \A a, b \in 1..Len(s) : s[a][1] = "migrated?" /\ s[b][1] = "migrated?" /\ a < b =>
                  \E l \in a..b : s[l][1] = "migrate_lock"
          BY DEF Shape, ShapeOf
        <4> QED
          BY <3>1, <4>1, <4>2, <4>3
      <3>3. l - k \in i..j /\ l - k \in 1..Len(r) /\ (l - k) + k = l
        BY <1>0, <3>2
      <3>4. r[l - k][1] = "migrate_lock"
        BY <2>1, <3>2, <3>3
      <3> QED
        BY <3>3, <3>4
    <2>5. Has(r, "enter_validated") => Has(r, "validated!")
      <3> SUFFICES ASSUME Has(r, "enter_validated") PROVE Has(r, "validated!")
        OBVIOUS
      <3>1. Has(s, "enter_validated")
        BY <1>RestHas
      <3>2. Has(s, "validated!") /\ Before(s, "enter_validated", "validated!")
        BY <3>1 DEF Shape, ShapeOf
      <3> QED
        BY <3>2, <1>RestAfter
    <2>6. Has(r, "migrated?") => Has(r, "migrated!") /\ \A f \in Flows : HasFlow(r, "migrate", f)
      <3> SUFFICES ASSUME Has(r, "migrated?")
                   PROVE  Has(r, "migrated!") /\ \A f \in Flows : HasFlow(r, "migrate", f)
        OBVIOUS
      <3>1. Has(s, "migrated?")
        BY <1>RestHas
      <3>2. Has(s, "migrated!") /\ \A f \in Flows : HasFlow(s, "migrate", f)
        BY <3>1 DEF Shape, ShapeOf
      <3>3. Before(s, "migrated?", "migrated!") /\ Before(s, "migrated?", "migrate")
        BY DEF Shape, ShapeOf
      <3>4. Has(r, "migrated!")
        BY <3>2, <3>3, <1>RestAfter
      <3>5. \A f \in Flows : HasFlow(r, "migrate", f)
        BY <3>2, <3>3, <1>RestAfter
      <3> QED
        BY <3>4, <3>5
    <2>7. \A m, n : Before(s, m, n) => Before(r, m, n)
      BY <1>RestBefore
    <2>8. \A n : Once(s, n) => Once(r, n)
      BY <1>RestBefore
    <2>9. \A m, n : Followed(s, m, n) => Followed(r, m, n)
      BY <1>RestBefore
    <2>10. \A i, j \in 1..Len(r) : r[i][1] = "migrated?" /\ r[j][1] = "migrated?" /\ i < j =>
              \E l \in i..j : r[l][1] = "migrate_lock"
      BY <2>4
    <2>11. \A i \in 2..Len(r) : r[i][1] = "assemble" => r[i - 1][1] = "enter_assembled"
      BY <2>3
    <2> QED
      BY <2>2, <2>5, <2>6, <2>7, <2>8, <2>9, <2>10, <2>11 DEF Shape, ShapeOf
  <1>1. Shape(r)
    BY <1>RestShape
  <1>2. \A n : Has(r, n) => Has(s, n)
    BY <1>RestHas
  <1>3. \A n : n \notin D /\ Has(s, n) => Has(r, n)
    BY <1>RestHas
  <1>4. ASSUME s[k][1] # "enter_assembled", r # <<>> PROVE r[1][1] # "assemble"
    <2>1. 1 \in 1..Len(r) /\ k + 1 \in 2..Len(s) /\ (k + 1) - 1 = k /\ 1 + k = k + 1
      BY <1>0, <1>4
    <2>2. r[1] = s[k + 1]
      BY <2>1 DEF Rest
    <2>3. s[k + 1][1] = "assemble" => s[k][1] = "enter_assembled"
      BY <2>1 DEF Shape, ShapeOf
    <2> QED
      BY <1>4, <2>2, <2>3
  <1>5. ASSUME NEW n, Once(s, n), s[k][1] = n, NEW i \in 1..Len(r), r[i][1] = n PROVE FALSE
    <2>1. i + k \in 1..Len(s) /\ s[i + k] = r[i] /\ i + k # k
      BY <1>0 DEF Rest
    <2> QED
      BY <1>5, <2>1 DEF Once
  <1>6. ASSUME NEW n, NEW f, n \notin D, HasFlow(s, n, f) PROVE HasFlow(r, n, f)
    <2>1. ~ \E i \in 1..k : IsStep(s[i], n, f)
      BY <1>6 DEF IsStep
    <2>2. HasFlow(r, n, f) \/ \E i \in 1..k : IsStep(s[i], n, f)
      BY <1>6, <1>RestHasFlow
    <2> QED
      BY <2>1, <2>2
  <1> QED
    BY <1>1, <1>2, <1>3, <1>4, <1>5, <1>6, <1>RestHasFlow DEF Left, NotAssemble, Has

\* The steps left when the first one is done.
LEMMA DoneLeft ==
    ASSUME NEW s \in Seq(StepSet), Shape(s), s # <<>>
    PROVE  /\ Left(Tail(s), s, {s[1][1]})
           /\ s[1][1] # "enter_assembled" => NotAssemble(Tail(s))
           /\ s[1][1] \in {"validated!", "migrated!"} => ~Has(Tail(s), s[1][1])
           /\ \A n, f : HasFlow(s, n, f) => HasFlow(Tail(s), n, f) \/ IsStep(s[1], n, f)
           /\ s[1][1] = "migrate_lock" => Has(Tail(s), "migrated?")
  <1>1. Tail(s) \in Seq(StepSet) /\ Rest(Tail(s), s, 1) /\ Len(s) \in Nat /\ 1 \in 1..Len(s)
    BY TailRest
  <1>2. \A i \in 1..1 : s[i][1] \in {s[1][1]}
    OBVIOUS
  <1> DEFINE r == Tail(s)
  <1> HIDE DEF r
  <1>3. /\ Left(r, s, {s[1][1]})
        /\ s[1][1] # "enter_assembled" => NotAssemble(r)
        /\ \A n : Once(s, n) /\ s[1][1] = n => ~Has(r, n)
        /\ \A n, f : HasFlow(s, n, f) => HasFlow(r, n, f) \/ \E i \in 1..1 : IsStep(s[i], n, f)
    BY ZenonT(40), <1>1, <1>2, RestLeft DEF r
  <1>4. Once(s, "validated!") /\ Once(s, "migrated!")
    BY DEF Shape, ShapeOf
  <1>5. s[1][1] \in {"validated!", "migrated!"} => ~Has(r, s[1][1])
    BY <1>3, <1>4
  <1>7. ASSUME s[1][1] = "migrate_lock" PROVE Has(r, "migrated?")
    <2>1. 1 < Len(s) /\ s[1 + 1][1] = "migrated?"
      BY <1>1, <1>7 DEF Shape, ShapeOf, Followed
    <2>2. 1 \in 1..Len(r) /\ r[1] = s[1 + 1]
      BY <1>1, <2>1 DEF Rest, r
    <2> QED
      BY <2>1, <2>2 DEF Has
  <1> QED
    BY <1>3, <1>5, <1>7 DEF r

\* A caller that finds the assembled flows skips the assembly.
LEMMA SkipAssembled ==
    ASSUME NEW s \in Seq(StepSet), Shape(s), s # <<>>, s[1][1] = "enter_assembled"
    PROVE  /\ Left(After(s, "assemble"), s, {"enter_assembled", "assemble"})
           /\ NotAssemble(After(s, "assemble"))
  <1> DEFINE r == After(s, "assemble")
  <1>1. 1 \in 1..Len(s) /\ Len(s) \in Nat
    OBVIOUS
  <1>2. 1 < Len(s) /\ s[1 + 1][1] = "assemble"
    BY <1>1 DEF Shape, ShapeOf, Followed
  <1>3. 2 \in 1..Len(s) /\ s[2][1] = "assemble"
    BY <1>1, <1>2
  <1>4. Has(s, "assemble")
    BY <1>3 DEF Has
  <1>5. r \in Seq(StepSet) /\ \E k \in 1..Len(s) :
            /\ s[k][1] = "assemble" /\ \A i \in 1..(k - 1) : s[i][1] # "assemble"
            /\ Rest(r, s, k)
    BY <1>4, AfterRest
  <1> HIDE DEF r
  <1>6. PICK k \in 1..Len(s) : /\ s[k][1] = "assemble" /\ \A i \in 1..(k - 1) : s[i][1] # "assemble"
                               /\ Rest(r, s, k)
    BY <1>5
  <1>7. k # 1
    BY <1>6
  <1>8. k = 2
    BY <1>3, <1>6, <1>7
  <1>9. \A i \in 1..k : s[i][1] \in {"enter_assembled", "assemble"}
    BY <1>3, <1>8
  <1> QED
    BY ZenonT(40), <1>5, <1>6, <1>9, RestLeft DEF r

\* A caller that finds the flows validated skips the validation.
LEMMA SkipValidated ==
    ASSUME NEW s \in Seq(StepSet), Shape(s), s # <<>>, s[1][1] = "enter_validated"
    PROVE  /\ After(s, "validated!") \in Seq(StepSet) /\ Shape(After(s, "validated!"))
           /\ \A n : Has(After(s, "validated!"), n) => Has(s, n)
           /\ ~Has(After(s, "validated!"), "validated!") /\ ~Has(s, "migrated!")
           /\ NotAssemble(After(s, "validated!"))
  <1> DEFINE r == After(s, "validated!")
  <1>1. Has(s, "enter_validated")
    BY DEF Has
  <1>2. Has(s, "validated!") /\ Before(s, "migrated!", "enter_validated") /\ Once(s, "validated!")
    BY <1>1 DEF Shape, ShapeOf
  <1>3. ~Has(s, "migrated!")
    BY <1>2, FirstFact
  <1>4. r \in Seq(StepSet) /\ \E k \in 1..Len(s) :
            /\ s[k][1] = "validated!" /\ \A i \in 1..(k - 1) : s[i][1] # "validated!"
            /\ Rest(r, s, k)
    BY <1>2, AfterRest
  <1> HIDE DEF r
  <1>5. PICK k \in 1..Len(s) : s[k][1] = "validated!" /\ Rest(r, s, k)
    BY <1>4
  <1>6. \A i \in 1..k : s[i][1] \in {s[j][1] : j \in 1..k}
    OBVIOUS
  <1>7. /\ Left(r, s, {s[j][1] : j \in 1..k})
        /\ s[k][1] # "enter_assembled" => NotAssemble(r)
        /\ \A n : Once(s, n) /\ s[k][1] = n => ~Has(r, n)
    BY ZenonT(40), <1>4, <1>5, <1>6, RestLeft
  <1> QED
    BY <1>2, <1>3, <1>5, <1>7 DEF Left, r

\* A caller that finds the storages migrated skips the migration.
LEMMA SkipMigrated ==
    ASSUME NEW s \in Seq(StepSet), Shape(s), s # <<>>, s[1][1] = "migrated?"
    PROVE  /\ After(s, "migrated!") \in Seq(StepSet) /\ Shape(After(s, "migrated!"))
           /\ \A n : Has(After(s, "migrated!"), n) => Has(s, n)
           /\ ~Has(After(s, "migrated!"), "migrated!")
           /\ \A n \in {"enter_validated", "validated!"} : Has(s, n) => Has(After(s, "migrated!"), n)
           /\ NotAssemble(After(s, "migrated!"))
  <1> DEFINE r == After(s, "migrated!")
  <1>1. Has(s, "migrated?")
    BY DEF Has
  <1>2. /\ Has(s, "migrated!") /\ Once(s, "migrated!")
        /\ \A n \in {"enter_validated", "validated!"} : Before(s, "migrated!", n)
    BY <1>1 DEF Shape, ShapeOf
  <1>4. r \in Seq(StepSet) /\ \E k \in 1..Len(s) :
            /\ s[k][1] = "migrated!" /\ \A i \in 1..(k - 1) : s[i][1] # "migrated!"
            /\ Rest(r, s, k)
    BY <1>2, AfterRest
  <1> HIDE DEF r
  <1>5. PICK k \in 1..Len(s) : s[k][1] = "migrated!" /\ Rest(r, s, k)
    BY <1>4
  <1>6. \A i \in 1..k : s[i][1] \in {s[j][1] : j \in 1..k}
    OBVIOUS
  <1>7. /\ Left(r, s, {s[j][1] : j \in 1..k})
        /\ s[k][1] # "enter_assembled" => NotAssemble(r)
        /\ \A n : Once(s, n) /\ s[k][1] = n => ~Has(r, n)
    BY ZenonT(40), <1>4, <1>5, <1>6, RestLeft
  <1>8. ASSUME NEW n \in {"enter_validated", "validated!"}, NEW j \in 1..k, s[j][1] = n PROVE FALSE
    <2>1. Len(s) \in Nat /\ j \in 1..Len(s)
      OBVIOUS
    <2>2. k < j
      BY <1>2, <1>5, <1>8, <2>1 DEF Before
    <2> QED
      BY <2>2
  <1>9. \A n \in {"enter_validated", "validated!"} : Has(s, n) => Has(r, n)
    BY <1>7, <1>8 DEF Left
  <1> QED
    BY <1>2, <1>5, <1>7, <1>9 DEF Left, r

-----------------------------------------------------------------------------
(* One task acts: what the others rely on stays.                           *)

Others(t) == \A u \in Tasks : u # t => tasks'[u] = tasks[u]

\* The configuration and the commands never change.
LEMMA SetupStays ==
    ASSUME setup' = setup
    PROVE  Tasks' = Tasks /\ Flows' = Flows /\ StepSet' = StepSet /\ TaskRecord' = TaskRecord /\ Cell' = Cell
           /\ StorageRecord' = StorageRecord
  <1>1. Tasks' = Tasks /\ Flows' = Flows
    BY DEF Tasks, Flows
  <1>2. StepSet' = StepSet
    BY <1>1 DEF StepSet
  <1> QED
    BY <1>1, <1>2 DEF TaskRecord, Cell, StorageRecord

\* The tasks when only t changes.
LEMMA TaskChanges ==
    ASSUME TaskTypes, setup' = setup, NEW t \in Tasks, tasks' \in [Tasks -> TaskRecord], Others(t),
           Shape(tasks'[t].steps)
    PROVE  TaskTypes'
  <1>1. Tasks' = Tasks /\ Flows' = Flows /\ TaskRecord' = TaskRecord
    BY SetupStays
  <1>2. \A u \in Tasks : ShapeOf(tasks[u].steps, Flows)
    BY DEF TaskTypes, Shape
  <1>3. \A u \in Tasks : ShapeOf(tasks'[u].steps, Flows)
    BY <1>2 DEF Shape, Others
  <1> QED
    BY <1>1, <1>3 DEF TaskTypes, Shape

\* A task that goes on keeps everything but its steps.
LEMMA GoIs ==
    ASSUME TaskTypes, setup' = setup, NEW t \in Tasks, NEW r \in Seq(StepSet), Shape(r), Go(t, r)
    PROVE  /\ TaskTypes' /\ Others(t)
           /\ tasks'[t].steps = r /\ tasks'[t].method = tasks[t].method /\ tasks'[t].attempts = 0
  <1>1. tasks \in [Tasks -> TaskRecord] /\ tasks[t] \in TaskRecord
    BY DEF TaskTypes
  <1>2. /\ tasks' \in [Tasks -> TaskRecord] /\ \A u \in Tasks : u # t => tasks'[u] = tasks[u]
        /\ tasks'[t].steps = r /\ tasks'[t].method = tasks[t].method /\ tasks'[t].attempts = 0
    BY ZenonT(40), <1>1 DEF Go, TaskRecord
  <1> QED
    BY <1>2, TaskChanges DEF Others

\* A task that fails has no step left.
LEMMA FailIs ==
    ASSUME TaskTypes, setup' = setup, NEW t \in Tasks, Fail(t)
    PROVE  TaskTypes' /\ Others(t) /\ tasks'[t].steps = <<>> /\ tasks'[t].attempts = 0
  <1> DEFINE c == IF tasks[t].method = "run_daemon" THEN tasks[t].calls ELSE <<>>
  <1>1. tasks \in [Tasks -> TaskRecord] /\ tasks[t] \in TaskRecord
    BY DEF TaskTypes
  <1>2. c \in Seq(Methods) /\ <<>> \in Seq(StepSet)
    BY <1>1 DEF TaskRecord
  <1>3. tasks' = [tasks EXCEPT ![t].steps = <<>>, ![t].attempts = 0, ![t].calls = c]
    BY <1>1 DEF Fail, TaskRecord
  <1> HIDE DEF c
  <1>4. /\ tasks' \in [Tasks -> TaskRecord] /\ \A u \in Tasks : u # t => tasks'[u] = tasks[u]
        /\ tasks'[t].steps = <<>> /\ tasks'[t].attempts = 0
    BY ZenonT(40), <1>1, <1>2, <1>3 DEF TaskRecord
  <1>5. Shape(<<>>)
    BY DEF Shape, ShapeOf, Has, Once, Before, Followed
  <1> QED
    BY <1>4, <1>5, TaskChanges DEF Others

\* A call starts with the steps of its method.
LEMMA CallIs ==
    ASSUME TaskTypes, setup \in Setups, NEW t \in Tasks, Call(t)
    PROVE  /\ TaskTypes' /\ Others(t) /\ tasks'[t].attempts = tasks[t].attempts
           /\ Started(tasks'[t].steps, tasks'[t].method)
  <1> DEFINE m == Head(tasks[t].calls)
             c == Tail(tasks[t].calls)
             s == MethodSteps(m)
  <1>1. tasks \in [Tasks -> TaskRecord] /\ tasks[t] \in TaskRecord
    BY DEF TaskTypes
  <1>2. m \in Methods /\ c \in Seq(Methods)
    BY <1>1 DEF TaskRecord, Call
  <1>3. Started(s, m)
    BY <1>2, MethodStarts
  <1>4. tasks' = [tasks EXCEPT ![t].calls = c, ![t].method = m, ![t].steps = s] /\ setup' = setup
    BY <1>1 DEF Call, TaskRecord
  <1> HIDE DEF s, m, c
  <1>5. /\ tasks' \in [Tasks -> TaskRecord] /\ \A u \in Tasks : u # t => tasks'[u] = tasks[u]
        /\ tasks'[t].steps = s /\ tasks'[t].method = m /\ tasks'[t].attempts = tasks[t].attempts
    BY ZenonT(40), <1>1, <1>2, <1>3, <1>4 DEF TaskRecord, Started
  <1> QED
    BY <1>3, <1>4, <1>5, TaskChanges DEF Others, Started

\* The memoised cells are only ever set.
LEMMA CellsStep ==
    ASSUME CellsInv, setup' = setup, NEW t \in Tasks, NoTask \notin Tasks, Others(t),
           assembled' = assembled \/ assembled.by \in {t, NoTask},
           validated' = validated \/ validated.by \in {t, NoTask},
           AtStep(t, "assemble")' => assembled'.by = t /\ ~assembled'.set,
           InValidated(t)' => validated'.by = t /\ ~validated'.set,
           ghost'.assemblies = (IF assembled'.set THEN 1 ELSE 0),
           ghost'.validations = (IF validated'.set THEN 1 ELSE 0)
    PROVE  CellsInv'
  <1>0. Tasks' = Tasks
    BY SetupStays
  <1>1. ASSUME NEW u \in Tasks, u # t PROVE /\ AtStep(u, "assemble")' => assembled'.by = u /\ ~assembled'.set
                                            /\ InValidated(u)' => validated'.by = u /\ ~validated'.set
    <2>1. tasks'[u] = tasks[u]
      BY <1>1 DEF Others
    <2>2. AtStep(u, "assemble")' => AtStep(u, "assemble")
      BY <2>1 DEF AtStep, Step
    <2>3. InValidated(u)' => InValidated(u)
      BY <2>1 DEF InValidated, Steps
    <2> QED
      BY <1>1, <2>2, <2>3 DEF CellsInv
  <1> QED
    BY <1>0, <1>1 DEF CellsInv

\* The lock of the migration has at most one holder.
LEMMA LockStep ==
    ASSUME LockInv, setup' = setup, NEW t \in Tasks, NoTask \notin Tasks, Others(t),
           migrate_lock' = migrate_lock \/ migrate_lock \in {t, NoTask},
           migrated' = migrated \/ migrate_lock = t,
           InLock(t)' => migrate_lock' = t,
           InLock(t)' /\ ~Has(Steps(t)', "migrated?") =>
              ~migrated' /\ \A f \in Flows : Complete(f)' \/ HasFlow(Steps(t)', "migrate", f),
           \A f \in Flows : Complete(f) => Complete(f)',
           migrated' => \A f \in Flows : Complete(f)',
           ghost'.migrations = (IF migrated' THEN 1 ELSE 0)
    PROVE  LockInv'
  <1>0. Tasks' = Tasks /\ Flows' = Flows
    BY SetupStays
  <1>1. ASSUME NEW u \in Tasks, u # t, InLock(u)'
        PROVE  /\ migrate_lock' = u
               /\ ~Has(Steps(u)', "migrated?") =>
                     ~migrated' /\ \A f \in Flows : Complete(f)' \/ HasFlow(Steps(u)', "migrate", f)
    <2>1. tasks'[u] = tasks[u]
      BY <1>1 DEF Others
    <2>2. InLock(u) /\ Steps(u)' = Steps(u)
      BY <1>1, <2>1 DEF InLock, Steps
    <2>3. migrate_lock = u
      BY <2>2 DEF LockInv
    <2>4. migrate_lock' = u /\ migrated' = migrated
      BY <1>1, <2>3
    <2>5. ~Has(Steps(u), "migrated?") => ~migrated /\ \A f \in Flows : Complete(f) \/ HasFlow(Steps(u), "migrate", f)
      BY <2>2 DEF LockInv
    <2>6. ASSUME ~Has(Steps(u)', "migrated?")
          PROVE  ~migrated' /\ \A f \in Flows : Complete(f)' \/ HasFlow(Steps(u)', "migrate", f)
      BY <2>2, <2>4, <2>5, <2>6
    <2> QED
      BY <2>4, <2>6
  <1>2. ASSUME NEW u \in Tasks
        PROVE  /\ InLock(u)' => migrate_lock' = u
               /\ InLock(u)' /\ ~Has(Steps(u)', "migrated?") =>
                     ~migrated' /\ \A f \in Flows : Complete(f)' \/ HasFlow(Steps(u)', "migrate", f)
    BY <1>1
  <1> QED
    BY <1>0, <1>2 DEF LockInv

\* What OrderInv asks of one task, and AttemptInv.
OrderOf(q, m, v) ==
    q.steps # <<>> =>
       /\ q.method = "run_once" /\ ~Has(q.steps, "migrated!") => m
       /\ Has(q.steps, "save") /\ ~Has(q.steps, "validated!") => v

\* The order of a task's steps, when another task moves.
LEMMA OrderStep ==
    ASSUME OrderInv, setup' = setup, NEW t \in Tasks, Others(t),
           OrderOf(tasks'[t], migrated', validated'.set),
           migrated => migrated', validated.set => validated'.set
    PROVE  OrderInv'
  <1>0. Tasks' = Tasks
    BY SetupStays
  <1>1. ASSUME NEW u \in Tasks PROVE OrderOf(tasks'[u], migrated', validated'.set)
    <2>1. CASE u # t
      <3>1. tasks'[u] = tasks[u]
        BY <2>1 DEF Others
      <3>2. OrderOf(tasks[u], migrated, validated.set)
        BY DEF OrderInv, OrderOf, Steps
      <3> QED
        BY <3>1, <3>2 DEF OrderOf
    <2> QED
      BY <2>1
  <1> QED
    BY <1>0, <1>1 DEF OrderInv, OrderOf, Steps

AttemptOf(q) ==
    \/ q.attempts = 0
    \/ q.steps # <<>> /\ q.steps[1][1] = "access" /\ q.attempts < ACCESS_PROBE_RETRY_ATTEMPTS
    \/ q.steps # <<>> /\ q.steps[1][1] \in {"sample", "load", "save"} /\ q.attempts < MAX_ATTEMPTS

\* The invariant on attempts is a property of each task.
LEMMA AttemptIs == AttemptInv <=> \A t \in Tasks : AttemptOf(tasks[t])
  BY DEF AttemptInv, AttemptOf, AtStep, Step

\* It is kept when one task changes to a state that has it.
LEMMA AttemptStep ==
    ASSUME AttemptInv, setup' = setup, NEW t \in Tasks, Others(t), AttemptOf(tasks'[t])
    PROVE  AttemptInv'
  <1>0. Tasks' = Tasks
    BY SetupStays
  <1>1. ASSUME NEW u \in Tasks PROVE AttemptOf(tasks'[u])
    BY AttemptIs DEF Others
  <1> QED
    BY <1>0, <1>1 DEF AttemptInv, AttemptOf, AtStep, Step

\* The name for no task is not a task.
LEMMA TaskNames == ASSUME setup \in Setups PROVE NoTask \notin Tasks
  BY SetupAssumption DEF Tasks

Marks == {"enter_validated", "validated!", "migrate_lock", "migrated!", "migrated?"}

\* A task that drops none of the steps the invariants are about.
LEMMA Kept ==
    ASSUME AppInv, setup' = setup, NEW t \in Tasks, NEW r, NEW D, Go(t, r), Steps(t) # <<>>,
           Left(r, Steps(t), D), D \cap Marks = {},
           \A f \in Flows : HasFlow(Steps(t), "migrate", f) => HasFlow(r, "migrate", f) \/ Complete(f)',
           \A f \in Flows : Complete(f) => Complete(f)',
           r # <<>> /\ r[1][1] = "assemble" => assembled'.by = t /\ ~assembled'.set,
           assembled' = assembled \/ assembled.by \in {t, NoTask},
           UNCHANGED <<validated, migrated, migrate_lock>>,
           ghost'.assemblies = (IF assembled'.set THEN 1 ELSE 0),
           ghost'.validations = ghost.validations, ghost'.migrations = ghost.migrations
    PROVE  TaskTypes' /\ CellsInv' /\ LockInv' /\ OrderInv' /\ AttemptInv'
  <1> DEFINE s == Steps(t)
  <1>0. /\ AppTypes /\ CellsInv /\ LockInv /\ OrderInv /\ AttemptInv /\ TaskTypes /\ setup \in Setups
        /\ NoTask \notin Tasks
    BY TaskNames DEF AppInv, AppTypes, PlainTypes
  <1>1. /\ r \in Seq(StepSet) /\ Shape(r)
        /\ \A n : Has(r, n) => Has(s, n)
        /\ \A n \in Marks : Has(s, n) => Has(r, n)
    BY DEF Left
  <1>2. /\ TaskTypes' /\ Others(t)
        /\ tasks'[t].steps = r /\ tasks'[t].method = tasks[t].method /\ tasks'[t].attempts = 0
    BY <1>0, <1>1, GoIs
  <1>3. Steps(t)' = r /\ tasks[t].steps = s
    BY ZenonT(40), <1>2 DEF Steps
  <1> HIDE DEF s
  <1>4. Has(r, "validated!") /\ ~Has(r, "enter_validated") => Has(s, "validated!") /\ ~Has(s, "enter_validated")
    BY <1>1 DEF Marks
  <1>5. InValidated(t)' => InValidated(t)
    BY <1>3, <1>4 DEF InValidated, s
  <1>6. AtStep(t, "assemble")' => assembled'.by = t /\ ~assembled'.set
    BY <1>2 DEF AtStep, Step
  <1>7. CellsInv'
    <2>1. InValidated(t)' => validated'.by = t /\ ~validated'.set
      BY <1>0, <1>5 DEF CellsInv
    <2>2. ghost'.validations = (IF validated'.set THEN 1 ELSE 0)
      BY ZenonT(40), <1>0 DEF CellsInv
    <2> QED
      BY <1>0, <1>2, <1>6, <2>1, <2>2, CellsStep
  <1>8. LockInv'
    <2>1. InLock(t)' => InLock(t)
      <3>1. Has(r, "migrated!") /\ ~Has(r, "migrate_lock") => Has(s, "migrated!") /\ ~Has(s, "migrate_lock")
        BY <1>1 DEF Marks
      <3> QED
        BY <1>3, <3>1 DEF InLock, s
    <2>2. InLock(t)' => migrate_lock' = t
      BY <1>0, <2>1 DEF LockInv
    <2>3. ASSUME InLock(t)', ~Has(Steps(t)', "migrated?")
          PROVE  ~migrated' /\ \A f \in Flows : Complete(f)' \/ HasFlow(Steps(t)', "migrate", f)
      <3>1. ~Has(s, "migrated?")
        BY <1>1, <1>3, <2>3 DEF Marks
      <3>2. ~migrated /\ \A f \in Flows : Complete(f) \/ HasFlow(s, "migrate", f)
        BY <1>0, <2>1, <2>3, <3>1 DEF LockInv, s
      <3>3. \A f \in Flows : HasFlow(s, "migrate", f) => HasFlow(r, "migrate", f) \/ Complete(f)'
        BY ZenonT(40) DEF s
      <3> QED
        BY <1>3, <3>2, <3>3
    <2>4. migrated' => \A f \in Flows : Complete(f)'
      BY <1>0 DEF LockInv
    <2>5. ghost'.migrations = (IF migrated' THEN 1 ELSE 0)
      BY <1>0 DEF LockInv
    <2> QED
      BY ZenonT(40), <1>0, <1>2, <2>2, <2>3, <2>4, <2>5, LockStep
  <1>9. OrderInv'
    <2>1. OrderOf(tasks[t], migrated, validated.set) /\ s # <<>>
      BY <1>0 DEF OrderInv, OrderOf, Steps, s
    <2>2. OrderOf(tasks'[t], migrated', validated'.set)
      BY <1>1, <1>2, <1>3, <2>1 DEF OrderOf, Marks
    <2> QED
      BY <1>0, <1>2, <2>2, OrderStep
  <1>10. AttemptInv'
    BY <1>0, <1>2, AttemptStep DEF AttemptOf
  <1> QED
    BY <1>2, <1>7, <1>8, <1>9, <1>10

\* The storages do not change.
LEMMA CompleteStays == ASSUME UNCHANGED <<setup, storages>> PROVE \A f : Complete(f)' <=> Complete(f)
  BY DEF Complete, StorageOf

-----------------------------------------------------------------------------
(* The metrics manager.                                                    *)

\* The guard of the metrics manager, when nothing about it changes.
LEMMA GuardStays ==
    ASSUME GuardInv, UNCHANGED <<setup, assembled, monitoring, recorders>>,
           ghost'.spawned_first = ghost.spawned_first,
           (server'.state = "off") <=> (server.state = "off")
    PROVE  GuardInv'
  BY DEF GuardInv

\* The guard of the metrics manager, taken by an assembly.
LEMMA GuardTaken ==
    ASSUME AppInv, NEW t \in Tasks, EnterAssembled(t) PROVE GuardInv' /\ monitoring' \in [slot : Managers, guard : Managers]
  <1>0. /\ GuardInv /\ assembled \in Cell /\ monitoring \in [slot : Managers, guard : Managers]
        /\ DOMAIN ghost = Ghosts /\ NoTask \notin Tasks
    BY TaskNames DEF AppInv, AppTypes, PlainTypes
  <1>1. CASE assembled.set /\ UNCHANGED <<assembled, monitoring, ghost>>
    BY <1>0, <1>1, GuardStays DEF EnterAssembled
  <1>2. CASE /\ ~assembled.set /\ assembled.by = NoTask /\ assembled' = [assembled EXCEPT !.by = t]
             /\ monitoring' = [slot |-> "none",
                               guard |-> IF monitoring.slot = "none" THEN "disabled" ELSE monitoring.slot]
             /\ ghost' = [ghost EXCEPT !.spawned_first = server.state # "off"]
    <2>1. assembled'.by = t /\ assembled'.set = assembled.set /\ t # NoTask
      BY <1>0, <1>2 DEF Cell
    <2>2. /\ monitoring'.slot = "none" /\ monitoring' \in [slot : Managers, guard : Managers]
          /\ monitoring.slot = "enabled" <=> monitoring'.guard = "enabled"
      BY <1>0, <1>2 DEF Managers
    <2>3. ghost'.spawned_first = (server.state # "off")
      BY <1>0, <1>2 DEF Ghosts
    <2>4. setup' = setup /\ server' = server /\ recorders' = recorders
      BY DEF EnterAssembled
    <2>5. monitoring.guard = "none"
      BY <1>0, <1>2 DEF GuardInv
    <2> QED
      BY ZenonT(40), <1>0, <1>2, <2>1, <2>2, <2>3, <2>4, <2>5 DEF GuardInv
  <1> QED
    BY <1>1, <1>2 DEF EnterAssembled

\* The guard puts the manager back, at the end of the assembly or when it fails.
LEMMA GuardReturned ==
    ASSUME AppInv, assembled.by # NoTask, assembled'.by = NoTask, monitoring' = Restored,
           UNCHANGED <<setup, server>>, ghost'.spawned_first = ghost.spawned_first,
           assembled'.set => (assembled.set /\ recorders' = recorders) \/ recorders' = (monitoring.guard = "enabled")
    PROVE  GuardInv' /\ monitoring' \in [slot : Managers, guard : Managers]
  <1>0. GuardInv /\ monitoring \in [slot : Managers, guard : Managers]
    BY DEF AppInv, AppTypes, PlainTypes
  <1>1. monitoring'.slot = monitoring.guard /\ monitoring'.guard = "none" /\ monitoring.slot = "none"
    BY <1>0 DEF Restored, GuardInv
  <1>2. monitoring' \in [slot : Managers, guard : Managers]
    BY <1>0 DEF Restored, Managers
  <1> QED
    BY ZenonT(40), <1>0, <1>1, <1>2 DEF GuardInv

\* The guard puts the manager back when the assembly fails.
LEMMA FailGuard ==
    ASSUME AppInv, NEW t \in Tasks, Fail(t), UNCHANGED <<setup, server, recorders>>,
           ghost'.spawned_first = ghost.spawned_first
    PROVE  /\ GuardInv' /\ monitoring' \in [slot : Managers, guard : Managers]
           /\ assembled' \in Cell /\ validated' \in Cell /\ migrate_lock' \in Tasks \cup {NoTask}
           /\ assembled'.set = assembled.set /\ validated'.set = validated.set
           /\ assembled' = assembled \/ assembled.by = t
           /\ validated' = validated \/ validated.by = t
           /\ migrate_lock' = migrate_lock \/ migrate_lock = t
  <1>0. /\ GuardInv /\ assembled \in Cell /\ validated \in Cell /\ migrate_lock \in Tasks \cup {NoTask}
        /\ monitoring \in [slot : Managers, guard : Managers] /\ NoTask \notin Tasks
    BY TaskNames DEF AppInv, AppTypes, PlainTypes
  <1>1. /\ validated' \in Cell /\ validated'.set = validated.set /\ (validated' = validated \/ validated.by = t)
        /\ migrate_lock' \in Tasks \cup {NoTask} /\ (migrate_lock' = migrate_lock \/ migrate_lock = t)
    BY <1>0 DEF Fail, Cell
  <1>2. CASE assembled.by = t
    <2>1. assembled' = [assembled EXCEPT !.by = NoTask] /\ monitoring' = Restored
      BY <1>2 DEF Fail
    <2>2. assembled' \in Cell /\ assembled'.set = assembled.set /\ assembled'.by = NoTask
      BY <1>0, <2>1 DEF Cell
    <2>3. GuardInv' /\ monitoring' \in [slot : Managers, guard : Managers]
      BY <1>0, <1>2, <2>1, <2>2, GuardReturned
    <2> QED
      BY <1>1, <1>2, <2>2, <2>3
  <1>3. CASE assembled.by # t
    <2>1. assembled' = assembled /\ monitoring' = monitoring
      BY <1>3 DEF Fail
    <2>2. GuardInv'
      BY <1>0, <2>1, GuardStays
    <2> QED
      BY <1>0, <1>1, <2>1, <2>2
  <1> QED
    BY <1>2, <1>3

-----------------------------------------------------------------------------
(* The actions.                                                            *)

\* What the invariant says of one task.
LEMMA Now ==
    ASSUME AppInv, NEW t \in Tasks
    PROVE  /\ PlainTypes /\ TaskTypes /\ CellsInv /\ LockInv /\ OrderInv /\ AttemptInv /\ GuardInv
           /\ setup \in Setups /\ NoTask \notin Tasks /\ assembled \in Cell /\ validated \in Cell
           /\ DOMAIN ghost = Ghosts
           /\ tasks[t] \in TaskRecord /\ Steps(t) \in Seq(StepSet) /\ Shape(Steps(t))
           /\ OrderOf(tasks[t], migrated, validated.set)
  <1>1. /\ PlainTypes /\ TaskTypes /\ CellsInv /\ LockInv /\ OrderInv /\ AttemptInv /\ GuardInv
        /\ setup \in Setups /\ NoTask \notin Tasks /\ assembled \in Cell /\ validated \in Cell
        /\ DOMAIN ghost = Ghosts
    BY TaskNames DEF AppInv, AppTypes, PlainTypes
  <1>2. tasks[t] \in TaskRecord /\ Shape(Steps(t))
    BY <1>1 DEF TaskTypes, Steps
  <1>3. Steps(t) \in Seq(StepSet)
    BY <1>2 DEF TaskRecord, Steps
  <1>4. OrderOf(tasks[t], migrated, validated.set)
    BY <1>1 DEF OrderInv, OrderOf, Steps
  <1> QED
    BY <1>1, <1>2, <1>3, <1>4

\* A call keeps the invariant.
LEMMA CallKeeps == ASSUME AppInv, NEW t \in Tasks, Call(t) PROVE AppInv'
  <1> USE Now
  <1>0. UNCHANGED <<setup, assembled, validated, migrated, migrate_lock, monitoring, recorders, storages,
                    server, signal, faults, ghost>>
    BY DEF Call
  <1>1. /\ TaskTypes' /\ Others(t) /\ tasks'[t].attempts = tasks[t].attempts
        /\ Started(tasks'[t].steps, tasks'[t].method)
    BY CallIs
  <1>2. tasks[t].attempts = 0
    <2>1. AttemptOf(tasks[t]) /\ tasks[t].steps = <<>>
      BY AttemptIs DEF Call
    <2> QED
      BY <2>1 DEF AttemptOf
  <1>3. ~AtStep(t, "assemble")' /\ ~InValidated(t)' /\ ~InLock(t)'
    BY ZenonT(40), <1>1 DEF Started, AtStep, Step, InValidated, InLock, Steps
  <1>4. CellsInv'
    <2>1. /\ ghost'.assemblies = (IF assembled'.set THEN 1 ELSE 0)
          /\ ghost'.validations = (IF validated'.set THEN 1 ELSE 0)
      BY ZenonT(40), <1>0 DEF CellsInv
    <2> QED
      BY ZenonT(40), <1>0, <1>1, <1>3, <2>1, CellsStep
  <1>5. LockInv'
    <2>1. \A f : Complete(f)' <=> Complete(f)
      BY <1>0, CompleteStays
    <2>2. (migrated' => \A f \in Flows : Complete(f)') /\ ghost'.migrations = (IF migrated' THEN 1 ELSE 0)
      BY <1>0, <2>1 DEF LockInv
    <2> QED
      BY ZenonT(40), <1>0, <1>1, <1>3, <2>1, <2>2, LockStep
  <1>6. OrderInv'
    <2>1. OrderOf(tasks'[t], migrated', validated'.set)
      BY ZenonT(40), <1>1 DEF OrderOf, Started
    <2> QED
      BY <1>0, <1>1, <2>1, OrderStep
  <1>7. AttemptInv'
    BY ZenonT(40), <1>0, <1>1, <1>2, AttemptStep DEF AttemptOf
  <1>8. GuardInv'
    BY <1>0, GuardStays
  <1>9. PlainTypes'
    BY <1>0, SetupStays DEF PlainTypes
  <1> QED
    BY <1>1, <1>4, <1>5, <1>6, <1>7, <1>8, <1>9 DEF AppInv, AppTypes

\* Entering flows_assembled keeps the invariant.
LEMMA EnterAssembledKeeps == ASSUME AppInv, NEW t \in Tasks, EnterAssembled(t) PROVE AppInv'
  <1> USE Now
  <1> DEFINE s == Steps(t)
  <1>0. /\ UNCHANGED <<setup, validated, migrated, migrate_lock, recorders, storages, server>>
        /\ s # <<>> /\ s[1][1] = "enter_assembled"
    BY DEF EnterAssembled, AtStep, Step, Steps
  <1>1. GuardInv' /\ monitoring' \in [slot : Managers, guard : Managers]
    BY GuardTaken
  <1>2. \A f \in Flows : Complete(f)' <=> Complete(f)
    BY <1>0, CompleteStays
  <1>3. CASE assembled.set /\ Go(t, After(s, "assemble")) /\ UNCHANGED <<assembled, monitoring, ghost>>
    <2> DEFINE r == After(s, "assemble")
               D == {"enter_assembled", "assemble"}
    <2>1. Left(r, s, D) /\ NotAssemble(r)
      BY ZenonT(40), <1>0, SkipAssembled
    <2>2. D \cap Marks = {} /\ "migrate" \notin D
      BY DEF Marks
    <2>3. ghost'.assemblies = (IF assembled'.set THEN 1 ELSE 0)
      BY ZenonT(40), <1>3 DEF CellsInv
    <2> HIDE DEF D, r
    <2>4. \A f \in Flows : HasFlow(s, "migrate", f) => HasFlow(r, "migrate", f)
      BY <2>1, <2>2 DEF Left
    <2>5. TaskTypes' /\ CellsInv' /\ LockInv' /\ OrderInv' /\ AttemptInv'
      BY ZenonT(40), <1>0, <1>2, <1>3, <2>1, <2>2, <2>3, <2>4, Kept DEF NotAssemble, r
    <2>6. PlainTypes'
      BY ZenonT(40), <1>0, <1>3, SetupStays DEF PlainTypes
    <2> QED
      BY <1>1, <2>5, <2>6 DEF AppInv, AppTypes
  <1>4. CASE /\ ~assembled.set /\ assembled.by = NoTask /\ assembled' = [assembled EXCEPT !.by = t]
             /\ Done(t) /\ ghost' = [ghost EXCEPT !.spawned_first = server.state # "off"]
    <2> DEFINE r == Tail(s)
               D == {"enter_assembled"}
    <2>1. Left(r, s, D)
      BY ZenonT(40), <1>0, DoneLeft
    <2>2. D \cap Marks = {} /\ "migrate" \notin D
      BY DEF Marks
    <2>3. assembled'.by = t /\ ~assembled'.set /\ assembled' \in Cell
      BY <1>4 DEF Cell
    <2>4. /\ ghost'.assemblies = ghost.assemblies /\ ghost'.validations = ghost.validations
          /\ ghost'.migrations = ghost.migrations /\ ghost'.acked = ghost.acked /\ DOMAIN ghost' = Ghosts
      BY <1>4 DEF Ghosts
    <2>5. ghost'.assemblies = (IF assembled'.set THEN 1 ELSE 0)
      BY <1>4, <2>3, <2>4 DEF CellsInv
    <2>6. Go(t, r)
      BY <1>4 DEF Done, Steps
    <2> HIDE DEF D, r
    <2>7. \A f \in Flows : HasFlow(s, "migrate", f) => HasFlow(r, "migrate", f)
      BY <2>1, <2>2 DEF Left
    <2>8. TaskTypes' /\ CellsInv' /\ LockInv' /\ OrderInv' /\ AttemptInv'
      BY <1>0, <1>2, <1>4, <2>1, <2>2, <2>3, <2>4, <2>5, <2>6, <2>7, Kept
    <2>9. PlainTypes'
      BY ZenonT(40), <1>0, <1>1, <2>3, <2>4, SetupStays DEF PlainTypes
    <2> QED
      BY <1>1, <2>8, <2>9 DEF AppInv, AppTypes
  <1> QED
    BY <1>3, <1>4 DEF EnterAssembled, Steps

\* An assembly keeps the invariant.
LEMMA AssembleKeeps == ASSUME AppInv, NEW t \in Tasks, Assemble(t) PROVE AppInv'
  <1> USE Now
  <1> DEFINE s == Steps(t)
             r == Tail(s)
             D == {"assemble"}
  <1>0. /\ UNCHANGED <<setup, validated, migrated, migrate_lock, storages, server>>
        /\ s # <<>> /\ s[1][1] = "assemble" /\ Go(t, r) /\ AtStep(t, "assemble")
        /\ assembled' = [set |-> TRUE, by |-> NoTask] /\ recorders' = (monitoring.guard = "enabled")
        /\ monitoring' = Restored /\ ghost' = [ghost EXCEPT !.assemblies = @ + 1]
    BY DEF Assemble, AtStep, Step, Steps, Done
  <1>1. assembled.by = t /\ ~assembled.set /\ ghost.assemblies = 0
    BY <1>0 DEF CellsInv
  <1>2. assembled'.set /\ assembled'.by = NoTask /\ assembled' \in Cell /\ recorders' \in BOOLEAN
    BY <1>0 DEF Cell
  <1>3. /\ ghost'.assemblies = 1 /\ ghost'.validations = ghost.validations
        /\ ghost'.spawned_first = ghost.spawned_first
        /\ ghost'.migrations = ghost.migrations /\ ghost'.acked = ghost.acked /\ DOMAIN ghost' = Ghosts
    BY <1>0, <1>1 DEF Ghosts
  <1>4. GuardInv' /\ monitoring' \in [slot : Managers, guard : Managers]
    BY <1>0, <1>1, <1>2, <1>3, GuardReturned
  <1>5. \A f \in Flows : Complete(f)' <=> Complete(f)
    BY <1>0, CompleteStays
  <1>6. Left(r, s, D) /\ NotAssemble(r)
    BY ZenonT(40), <1>0, DoneLeft
  <1>7. D \cap Marks = {} /\ "migrate" \notin D
    BY DEF Marks
  <1> HIDE DEF D, r
  <1>8. \A f \in Flows : HasFlow(s, "migrate", f) => HasFlow(r, "migrate", f)
    BY <1>6, <1>7 DEF Left
  <1>9. ghost'.assemblies = (IF assembled'.set THEN 1 ELSE 0)
    BY <1>2, <1>3
  <1>10. TaskTypes' /\ CellsInv' /\ LockInv' /\ OrderInv' /\ AttemptInv'
    BY <1>0, <1>1, <1>3, <1>5, <1>6, <1>7, <1>8, <1>9, Kept DEF NotAssemble
  <1>11. PlainTypes'
    BY <1>0, <1>2, <1>3, <1>4, SetupStays DEF PlainTypes
  <1> QED
    BY <1>4, <1>10, <1>11 DEF AppInv, AppTypes

\* Entering flows_validated keeps the invariant.
LEMMA EnterValidatedKeeps == ASSUME AppInv, NEW t \in Tasks, EnterValidated(t) PROVE AppInv'
  <1> USE Now
  <1> DEFINE s == Steps(t)
             r == Steps(t)'
  <1>0. /\ UNCHANGED <<setup, assembled, migrated, migrate_lock, monitoring, recorders, storages, server, ghost>>
        /\ s # <<>> /\ s[1][1] = "enter_validated"
    BY DEF EnterValidated, AtStep, Step, Steps
  <1>1. /\ (\A f : Complete(f)' <=> Complete(f)) /\ GuardInv'
        /\ (migrated' => \A f \in Flows : Complete(f)') /\ ghost'.migrations = (IF migrated' THEN 1 ELSE 0)
    BY ZenonT(40), <1>0, CompleteStays, GuardStays DEF LockInv
  <1>2. ~Has(s, "migrated!")
    BY <1>0, SkipValidated
  <1>3. /\ TaskTypes' /\ Others(t) /\ tasks'[t].method = tasks[t].method /\ tasks'[t].attempts = 0
        /\ r = tasks'[t].steps /\ NotAssemble(r) /\ \A n : Has(r, n) => Has(s, n)
        /\ validated'.set = validated.set /\ validated' \in Cell
        /\ validated' = validated \/ validated.by = NoTask
        /\ InValidated(t)' => validated'.by = t /\ ~validated'.set
        /\ Has(r, "save") /\ ~Has(r, "validated!") => validated'.set
    <2>1. CASE validated.set /\ Go(t, After(s, "validated!")) /\ UNCHANGED validated
      <3> DEFINE a == After(s, "validated!")
      <3>1. /\ a \in Seq(StepSet) /\ Shape(a) /\ (\A n : Has(a, n) => Has(s, n))
            /\ ~Has(a, "validated!") /\ NotAssemble(a)
        BY <1>0, SkipValidated
      <3>2. Go(t, a)
        BY <2>1
      <3> HIDE DEF a
      <3>3. /\ TaskTypes' /\ Others(t)
            /\ tasks'[t].steps = a /\ tasks'[t].method = tasks[t].method /\ tasks'[t].attempts = 0
        BY ZenonT(40), <1>0, <3>1, <3>2, GoIs
      <3> QED
        BY ZenonT(40), <2>1, <3>1, <3>3 DEF Steps, InValidated
    <2>2. CASE ~validated.set /\ validated.by = NoTask /\ validated' = [validated EXCEPT !.by = t] /\ Done(t)
      <3> DEFINE a == Tail(s)
      <3>1. Left(a, s, {s[1][1]}) /\ NotAssemble(a)
        BY ZenonT(40), <1>0, DoneLeft
      <3>2. Go(t, a)
        BY <2>2 DEF Done, Steps
      <3>3. validated'.by = t /\ ~validated'.set /\ validated' \in Cell
        BY <2>2 DEF Cell
      <3> HIDE DEF a
      <3>4. /\ a \in Seq(StepSet) /\ Shape(a) /\ (\A n : Has(a, n) => Has(s, n))
            /\ Has(s, "validated!") => Has(a, "validated!")
        BY ZenonT(40), <1>0, <3>1 DEF Left
      <3>5. /\ TaskTypes' /\ Others(t)
            /\ tasks'[t].steps = a /\ tasks'[t].method = tasks[t].method /\ tasks'[t].attempts = 0
        BY ZenonT(40), <1>0, <3>2, <3>4, GoIs
      <3>6. Has(s, "validated!")
        <4>1. 1 \in 1..Len(s)
          BY ZenonT(40), <1>0, FirstAt
        <4>2. Has(s, "enter_validated")
          BY <1>0, <4>1, ZenonT(40) DEF Has
        <4> QED
          BY ZenonT(40), <4>2 DEF Shape, ShapeOf
      <3> QED
        BY <2>2, <3>1, <3>3, <3>4, <3>5, <3>6 DEF Steps, InValidated
    <2> QED
      BY <2>1, <2>2 DEF EnterValidated, Steps
  <1> HIDE DEF r
  <1>4. ~AtStep(t, "assemble")' /\ ~InLock(t)'
    BY ZenonT(40), <1>2, <1>3 DEF NotAssemble, AtStep, Step, InLock, r
  <1>5. CellsInv'
    <2>1. /\ ghost'.assemblies = (IF assembled'.set THEN 1 ELSE 0)
          /\ ghost'.validations = (IF validated'.set THEN 1 ELSE 0)
      BY ZenonT(40), <1>0, <1>3 DEF CellsInv
    <2> QED
      BY ZenonT(40), <1>0, <1>3, <1>4, <2>1, CellsStep
  <1>6. LockInv'
    BY ZenonT(40), <1>0, <1>1, <1>3, <1>4, LockStep
  <1>7. OrderInv'
    <2>1. tasks[t].method = "run_once" => migrated
      BY ZenonT(40), <1>0, <1>2 DEF OrderOf, Steps
    <2>2. OrderOf(tasks'[t], migrated', validated'.set)
      BY ZenonT(40), <1>0, <1>3, <2>1 DEF OrderOf
    <2> QED
      BY ZenonT(40), <1>0, <1>3, <2>2, OrderStep
  <1>8. AttemptInv'
    BY ZenonT(40), <1>0, <1>3, AttemptStep DEF AttemptOf
  <1>9. PlainTypes'
    BY ZenonT(40), <1>0, <1>3, SetupStays DEF PlainTypes
  <1> QED
    BY ZenonT(40), <1>1, <1>3, <1>5, <1>6, <1>7, <1>8, <1>9 DEF AppInv, AppTypes

\* The end of a validation keeps the invariant.
LEMMA ValidatedKeeps == ASSUME AppInv, NEW t \in Tasks, Validated(t) PROVE AppInv'
  <1> USE Now
  <1> DEFINE s == Steps(t)
             r == Tail(s)
  <1>0. /\ UNCHANGED <<setup, assembled, migrated, migrate_lock, monitoring, recorders, storages, server>>
        /\ s # <<>> /\ s[1][1] = "validated!" /\ Go(t, r)
        /\ validated' = [set |-> TRUE, by |-> NoTask] /\ ghost' = [ghost EXCEPT !.validations = @ + 1]
    BY DEF Validated, AtStep, Step, Steps, Done
  <1>1. Left(r, s, {s[1][1]}) /\ NotAssemble(r) /\ ~Has(r, "validated!")
    BY ZenonT(40), <1>0, DoneLeft
  <1>2. InValidated(t)
    <2>1. Has(s, "validated!")
      BY <1>0 DEF Has
    <2>2. ~Has(s, "enter_validated") /\ ~Has(s, "migrated!")
      BY <1>0, FirstFact DEF Shape, ShapeOf
    <2> QED
      BY <2>1, <2>2 DEF InValidated
  <1>3. ~Has(s, "migrated!")
    BY <1>0, FirstFact DEF Shape, ShapeOf
  <1>4. validated.by = t /\ ~validated.set /\ ghost.validations = 0
    BY <1>2 DEF CellsInv
  <1>5. validated'.set /\ validated' \in Cell
    BY <1>0 DEF Cell
  <1>6. /\ ghost'.assemblies = ghost.assemblies /\ ghost'.validations = 1
        /\ ghost'.spawned_first = ghost.spawned_first
        /\ ghost'.migrations = ghost.migrations /\ ghost'.acked = ghost.acked /\ DOMAIN ghost' = Ghosts
    BY <1>0, <1>4 DEF Ghosts
  <1> HIDE DEF r
  <1>7. /\ TaskTypes' /\ Others(t)
        /\ tasks'[t].steps = r /\ tasks'[t].method = tasks[t].method /\ tasks'[t].attempts = 0
    BY <1>0, <1>1, GoIs DEF Left
  <1>8. ~AtStep(t, "assemble")' /\ ~InLock(t)' /\ ~InValidated(t)'
    BY ZenonT(40), <1>1, <1>3, <1>7 DEF NotAssemble, AtStep, Step, InLock, InValidated, Steps, Left
  <1>9. CellsInv'
    <2>1. /\ ghost'.assemblies = (IF assembled'.set THEN 1 ELSE 0)
          /\ ghost'.validations = (IF validated'.set THEN 1 ELSE 0)
      BY <1>0, <1>5, <1>6 DEF CellsInv
    <2> QED
      BY <1>0, <1>4, <1>7, <1>8, <2>1, CellsStep
  <1>10. LockInv'
    <2>1. /\ (\A f : Complete(f)' <=> Complete(f))
          /\ (migrated' => \A f \in Flows : Complete(f)') /\ ghost'.migrations = (IF migrated' THEN 1 ELSE 0)
      BY <1>0, <1>6, CompleteStays DEF LockInv
    <2> QED
      BY <1>0, <1>7, <1>8, <2>1, LockStep
  <1>11. OrderInv'
    <2>1. tasks[t].method = "run_once" => migrated
      BY <1>0, <1>3 DEF OrderOf, Steps
    <2>2. OrderOf(tasks'[t], migrated', validated'.set)
      BY <1>0, <1>5, <1>7, <2>1 DEF OrderOf
    <2> QED
      BY ZenonT(40), <1>0, <1>5, <1>7, <2>2, OrderStep
  <1>12. AttemptInv'
    BY <1>0, <1>7, AttemptStep DEF AttemptOf
  <1>13. GuardInv'
    BY <1>0, <1>6, GuardStays
  <1>14. PlainTypes'
    BY <1>0, <1>5, <1>6, SetupStays DEF PlainTypes
  <1> QED
    BY ZenonT(40), <1>7, <1>9, <1>10, <1>11, <1>12, <1>13, <1>14 DEF AppInv, AppTypes

\* The check of the migrated flag keeps the invariant.
LEMMA CheckMigratedKeeps == ASSUME AppInv, NEW t \in Tasks, CheckMigrated(t) PROVE AppInv'
  <1> USE Now
  <1> DEFINE s == Steps(t)
             r == tasks'[t].steps
  <1>0. /\ UNCHANGED <<setup, assembled, validated, migrated, monitoring, recorders, storages, server, ghost>>
        /\ s # <<>> /\ s[1][1] = "migrated?"
    BY ZenonT(40) DEF CheckMigrated, AtStep, Step, Steps
  <1>1. /\ (\A f : Complete(f)' <=> Complete(f)) /\ GuardInv'
        /\ (migrated' => \A f \in Flows : Complete(f)') /\ ghost'.migrations = (IF migrated' THEN 1 ELSE 0)
    BY ZenonT(40), <1>0, CompleteStays, GuardStays DEF LockInv
  <1>2. /\ TaskTypes' /\ Others(t) /\ tasks'[t].method = tasks[t].method /\ tasks'[t].attempts = 0
        /\ NotAssemble(r) /\ \A n : Has(r, n) => Has(s, n)
        /\ \A n \in {"enter_validated", "validated!"} : Has(s, n) => Has(r, n)
        /\ migrate_lock' = migrate_lock \/ migrate_lock = t
        /\ migrate_lock' \in Tasks \cup {NoTask}
        /\ InLock(t)' => migrate_lock' = t
        /\ InLock(t)' /\ ~Has(Steps(t)', "migrated?") =>
              ~migrated' /\ \A f \in Flows : Complete(f)' \/ HasFlow(Steps(t)', "migrate", f)
        /\ migrated \/ (Has(s, "migrated!") => Has(r, "migrated!"))
    <2>1. CASE /\ migrated /\ Go(t, After(s, "migrated!"))
               /\ migrate_lock' = IF migrate_lock = t THEN NoTask ELSE migrate_lock
      <3> DEFINE a == After(s, "migrated!")
      <3>1. /\ a \in Seq(StepSet) /\ Shape(a) /\ (\A n : Has(a, n) => Has(s, n))
            /\ ~Has(a, "migrated!") /\ NotAssemble(a)
            /\ \A n \in {"enter_validated", "validated!"} : Has(s, n) => Has(a, n)
        BY ZenonT(40), <1>0, SkipMigrated
      <3>2. Go(t, a)
        BY <2>1
      <3> HIDE DEF a
      <3>3. /\ TaskTypes' /\ Others(t)
            /\ tasks'[t].steps = a /\ tasks'[t].method = tasks[t].method /\ tasks'[t].attempts = 0
        BY ZenonT(40), <1>0, <3>1, <3>2, GoIs
      <3>4. ~InLock(t)'
        BY <3>1, <3>3 DEF InLock, Steps
      <3>5. migrate_lock' = migrate_lock \/ migrate_lock = t
        BY <2>1
      <3>6. migrate_lock' \in Tasks \cup {NoTask}
        BY ZenonT(40), <2>1 DEF PlainTypes
      <3> QED
        BY ZenonT(40), <2>1, <3>1, <3>3, <3>4, <3>5, <3>6
    <2>2. CASE ~migrated /\ Done(t) /\ UNCHANGED migrate_lock
      <3> DEFINE a == Tail(s)
      <3>1. Left(a, s, {s[1][1]}) /\ NotAssemble(a)
        BY ZenonT(40), <1>0, DoneLeft
      <3>2. Go(t, a)
        BY <2>2 DEF Done, Steps
      <3> HIDE DEF a
      <3>3. /\ a \in Seq(StepSet) /\ Shape(a) /\ (\A n : Has(a, n) => Has(s, n))
            /\ \A n : n # "migrated?" /\ Has(s, n) => Has(a, n)
            /\ \A f \in Flows : HasFlow(s, "migrate", f) => HasFlow(a, "migrate", f)
        BY ZenonT(40), <1>0, <3>1 DEF Left
      <3>4. /\ TaskTypes' /\ Others(t)
            /\ tasks'[t].steps = a /\ tasks'[t].method = tasks[t].method /\ tasks'[t].attempts = 0
        BY ZenonT(40), <1>0, <3>2, <3>3, GoIs
      <3>5. \A f \in Flows : HasFlow(s, "migrate", f)
        <4>1. Has(s, "migrated?")
          BY <1>0 DEF Has
        <4> QED
          BY ZenonT(40), <4>1 DEF Shape, ShapeOf
      <3>6. InLock(t)' => InLock(t)
        BY ZenonT(40), <3>3, <3>4 DEF InLock, Steps
      <3>7. InLock(t)' => migrate_lock' = t
        BY <2>2, <3>6 DEF LockInv
      <3>8. ~migrated' /\ \A f \in Flows : HasFlow(Steps(t)', "migrate", f)
        BY ZenonT(40), <1>0, <2>2, <3>3, <3>4, <3>5 DEF Steps
      <3>9. migrate_lock' \in Tasks \cup {NoTask}
        BY ZenonT(40), <2>2 DEF PlainTypes
      <3> QED
        BY ZenonT(40), <2>2, <3>1, <3>3, <3>4, <3>7, <3>8, <3>9
    <2> QED
      BY ZenonT(40), <2>1, <2>2 DEF CheckMigrated, Steps
  <1> HIDE DEF r
  <1>3. ~AtStep(t, "assemble")' /\ (InValidated(t)' => InValidated(t))
    BY ZenonT(40), <1>2 DEF NotAssemble, AtStep, Step, InValidated, r, Steps
  <1>5. CellsInv'
    <2>1. /\ ghost'.assemblies = (IF assembled'.set THEN 1 ELSE 0)
          /\ ghost'.validations = (IF validated'.set THEN 1 ELSE 0)
          /\ InValidated(t)' => validated'.by = t /\ ~validated'.set
      BY ZenonT(40), <1>0, <1>3 DEF CellsInv
    <2> QED
      BY ZenonT(40), <1>0, <1>2, <1>3, <2>1, CellsStep
  <1>6. LockInv'
    BY ZenonT(40), <1>0, <1>1, <1>2, LockStep
  <1>7. OrderInv'
    <2>1. OrderOf(tasks'[t], migrated', validated'.set)
      BY ZenonT(40), <1>0, <1>2 DEF OrderOf, Steps, r
    <2> QED
      BY ZenonT(40), <1>0, <1>2, <2>1, OrderStep
  <1>8. AttemptInv'
    BY ZenonT(40), <1>0, <1>2, AttemptStep DEF AttemptOf
  <1>9. PlainTypes'
    BY ZenonT(40), <1>0, <1>2, SetupStays DEF PlainTypes
  <1> QED
    BY ZenonT(40), <1>1, <1>2, <1>5, <1>6, <1>7, <1>8, <1>9 DEF AppInv, AppTypes

\* Taking the lock of the migration keeps the invariant.
LEMMA MigrateLockKeeps == ASSUME AppInv, NEW t \in Tasks, MigrateLock(t) PROVE AppInv'
  <1> USE Now
  <1> DEFINE s == Steps(t)
             r == Tail(s)
  <1>0. /\ UNCHANGED <<setup, assembled, validated, migrated, monitoring, recorders, storages, server, ghost>>
        /\ s # <<>> /\ s[1][1] = "migrate_lock" /\ Go(t, r) /\ migrate_lock = NoTask /\ migrate_lock' = t
    BY ZenonT(40) DEF MigrateLock, AtStep, Step, Steps, Done
  <1>1. Left(r, s, {s[1][1]}) /\ NotAssemble(r) /\ Has(r, "migrated?")
    BY ZenonT(40), <1>0, DoneLeft
  <1> HIDE DEF r
  <1>2. /\ TaskTypes' /\ Others(t)
        /\ tasks'[t].steps = r /\ tasks'[t].method = tasks[t].method /\ tasks'[t].attempts = 0
    BY ZenonT(40), <1>0, <1>1, GoIs DEF Left
  <1>3. /\ \A n : Has(r, n) => Has(s, n)
        /\ \A n : n # "migrate_lock" /\ Has(s, n) => Has(r, n)
    BY ZenonT(40), <1>0, <1>1 DEF Left
  <1>4. ~AtStep(t, "assemble")' /\ (InValidated(t)' => InValidated(t)) /\ Has(Steps(t)', "migrated?")
    BY ZenonT(40), <1>1, <1>2, <1>3 DEF NotAssemble, AtStep, Step, InValidated, Steps
  <1>5. CellsInv'
    <2>1. /\ ghost'.assemblies = (IF assembled'.set THEN 1 ELSE 0)
          /\ ghost'.validations = (IF validated'.set THEN 1 ELSE 0)
          /\ InValidated(t)' => validated'.by = t /\ ~validated'.set
      BY ZenonT(40), <1>0, <1>4 DEF CellsInv
    <2> QED
      BY ZenonT(40), <1>0, <1>2, <1>4, <2>1, CellsStep
  <1>6. LockInv'
    <2>1. /\ (\A f : Complete(f)' <=> Complete(f))
          /\ (migrated' => \A f \in Flows : Complete(f)') /\ ghost'.migrations = (IF migrated' THEN 1 ELSE 0)
      BY ZenonT(40), <1>0, CompleteStays DEF LockInv
    <2> QED
      BY ZenonT(40), <1>0, <1>2, <1>4, <2>1, LockStep
  <1>7. OrderInv'
    <2>1. OrderOf(tasks'[t], migrated', validated'.set)
      BY ZenonT(40), <1>0, <1>2, <1>3 DEF OrderOf, Steps
    <2> QED
      BY ZenonT(40), <1>0, <1>2, <2>1, OrderStep
  <1>8. AttemptInv' /\ GuardInv'
    BY ZenonT(40), <1>0, <1>2, AttemptStep, GuardStays DEF AttemptOf
  <1>9. PlainTypes'
    BY ZenonT(40), <1>0, SetupStays DEF PlainTypes
  <1> QED
    BY ZenonT(40), <1>2, <1>5, <1>6, <1>7, <1>8, <1>9 DEF AppInv, AppTypes

\* The end of a migration keeps the invariant.
LEMMA MigratedKeeps == ASSUME AppInv, NEW t \in Tasks, Migrated(t) PROVE AppInv'
  <1> USE Now
  <1> DEFINE s == Steps(t)
             r == Tail(s)
  <1>0. /\ UNCHANGED <<setup, assembled, validated, monitoring, recorders, storages, server>>
        /\ s # <<>> /\ s[1][1] = "migrated!" /\ Go(t, r) /\ migrated' = TRUE /\ migrate_lock' = NoTask
        /\ ghost' = [ghost EXCEPT !.migrations = @ + 1]
    BY DEF Migrated, AtStep, Step, Steps, Done
  <1>1. Left(r, s, {s[1][1]}) /\ NotAssemble(r) /\ ~Has(r, "migrated!")
    BY ZenonT(40), <1>0, DoneLeft
  <1>2. ~Has(s, "migrate_lock") /\ ~Has(s, "migrated?") /\ ~Has(s, "migrate") /\ Has(s, "migrated!")
    <2>1. Has(s, "migrated!")
      BY <1>0 DEF Has
    <2>2. Before(s, "migrate_lock", "migrated!") /\ Before(s, "migrated?", "migrated!") /\ Before(s, "migrate", "migrated!")
      BY ZenonT(40) DEF Shape, ShapeOf
    <2> QED
      BY <1>0, <2>1, <2>2, FirstFact
  <1>3. InLock(t)
    BY <1>2 DEF InLock
  <1>4. migrate_lock = t /\ ~migrated /\ \A f \in Flows : Complete(f) \/ HasFlow(s, "migrate", f)
    BY <1>2, <1>3 DEF LockInv
  <1>5. \A f \in Flows : ~HasFlow(s, "migrate", f)
    <2>1. ASSUME NEW f, NEW i \in 1..Len(s), IsStep(s[i], "migrate", f) PROVE FALSE
      BY ZenonT(40), <1>2, <2>1, StepIs DEF Has
    <2> QED
      BY <2>1 DEF HasFlow
  <1>6. ghost.migrations = 0
    BY <1>4 DEF LockInv
  <1>7. /\ ghost'.assemblies = ghost.assemblies /\ ghost'.validations = ghost.validations
        /\ ghost'.spawned_first = ghost.spawned_first
        /\ ghost'.migrations = 1 /\ ghost'.acked = ghost.acked /\ DOMAIN ghost' = Ghosts
    BY <1>0, <1>6 DEF Ghosts
  <1> HIDE DEF r
  <1>8. /\ TaskTypes' /\ Others(t)
        /\ tasks'[t].steps = r /\ tasks'[t].method = tasks[t].method /\ tasks'[t].attempts = 0
    BY <1>0, <1>1, GoIs DEF Left
  <1>9. /\ \A n : Has(r, n) => Has(s, n)
        /\ \A n : n # "migrated!" /\ Has(s, n) => Has(r, n)
    BY <1>0, <1>1 DEF Left
  <1>10. ~AtStep(t, "assemble")' /\ (InValidated(t)' => InValidated(t)) /\ ~InLock(t)'
    BY ZenonT(40), <1>1, <1>8, <1>9 DEF NotAssemble, AtStep, Step, InValidated, InLock, Steps
  <1>11. CellsInv'
    <2>1. /\ ghost'.assemblies = (IF assembled'.set THEN 1 ELSE 0)
          /\ ghost'.validations = (IF validated'.set THEN 1 ELSE 0)
          /\ InValidated(t)' => validated'.by = t /\ ~validated'.set
      BY <1>0, <1>7, <1>10 DEF CellsInv
    <2> QED
      BY <1>0, <1>8, <1>10, <2>1, CellsStep
  <1>12. LockInv'
    <2>1. (\A f : Complete(f)' <=> Complete(f)) /\ \A f \in Flows : Complete(f)
      BY <1>0, <1>4, <1>5, CompleteStays
    <2> QED
      BY ZenonT(40), <1>0, <1>4, <1>7, <1>8, <1>10, <2>1, LockStep
  <1>13. OrderInv'
    <2>1. OrderOf(tasks'[t], migrated', validated'.set)
      BY <1>0, <1>8, <1>9 DEF OrderOf, Steps
    <2> QED
      BY ZenonT(40), <1>0, <1>8, <2>1, OrderStep
  <1>14. AttemptInv' /\ GuardInv'
    BY <1>0, <1>7, <1>8, AttemptStep, GuardStays DEF AttemptOf
  <1>15. PlainTypes'
    BY <1>0, <1>7, SetupStays DEF PlainTypes
  <1> QED
    BY ZenonT(40), <1>8, <1>11, <1>12, <1>13, <1>14, <1>15 DEF AppInv, AppTypes

\* An error ends the method: the task leaves the cells and the lock.
LEMMA FailKeeps ==
    ASSUME AppInv, NEW t \in Tasks, Fail(t), UNCHANGED <<setup, server, recorders, migrated>>,
           \A f \in Flows : Complete(f) => Complete(f)',
           ghost'.spawned_first = ghost.spawned_first, ghost'.assemblies = ghost.assemblies,
           ghost'.validations = ghost.validations, ghost'.migrations = ghost.migrations
    PROVE  /\ TaskTypes' /\ CellsInv' /\ LockInv' /\ OrderInv' /\ AttemptInv' /\ GuardInv'
           /\ monitoring' \in [slot : Managers, guard : Managers]
           /\ assembled' \in Cell /\ validated' \in Cell /\ migrate_lock' \in Tasks \cup {NoTask}
           /\ validated'.set = validated.set
  <1> USE Now
  <1>1. TaskTypes' /\ Others(t) /\ tasks'[t].steps = <<>> /\ tasks'[t].attempts = 0
    BY ZenonT(40), FailIs
  <1>2. /\ GuardInv' /\ monitoring' \in [slot : Managers, guard : Managers]
        /\ assembled' \in Cell /\ validated' \in Cell /\ migrate_lock' \in Tasks \cup {NoTask}
        /\ assembled'.set = assembled.set /\ validated'.set = validated.set
        /\ assembled' = assembled \/ assembled.by = t
        /\ validated' = validated \/ validated.by = t
        /\ migrate_lock' = migrate_lock \/ migrate_lock = t
    BY ZenonT(40), FailGuard
  <1>3. ~AtStep(t, "assemble")' /\ ~InValidated(t)' /\ ~InLock(t)'
    BY ZenonT(40), <1>1, EmptySteps DEF AtStep, InValidated, InLock, Steps
  <1>4. CellsInv'
    <2>1. /\ ghost'.assemblies = (IF assembled'.set THEN 1 ELSE 0)
          /\ ghost'.validations = (IF validated'.set THEN 1 ELSE 0)
      BY ZenonT(40), <1>2 DEF CellsInv
    <2> QED
      BY ZenonT(40), <1>1, <1>2, <1>3, <2>1, CellsStep
  <1>5. LockInv'
    <2>1. (migrated' => \A f \in Flows : Complete(f)') /\ ghost'.migrations = (IF migrated' THEN 1 ELSE 0)
      BY ZenonT(40) DEF LockInv
    <2> QED
      BY ZenonT(40), <1>1, <1>2, <1>3, <2>1, LockStep
  <1>6. OrderInv'
    BY ZenonT(40), <1>1, <1>2, OrderStep DEF OrderOf
  <1>7. AttemptInv'
    BY ZenonT(40), <1>1, AttemptStep DEF AttemptOf
  <1> QED
    BY ZenonT(40), <1>1, <1>2, <1>4, <1>5, <1>6, <1>7

\* A failed assembly keeps the invariant.
LEMMA AssembleFailsKeeps == ASSUME AppInv, NEW t \in Tasks, AssembleFails(t) PROVE AppInv'
  <1> USE Now
  <1>0. UNCHANGED <<setup, migrated, recorders, storages, server, signal, ghost>> /\ Fail(t)
    BY DEF AssembleFails
  <1>1. \A f \in Flows : Complete(f) => Complete(f)'
    BY <1>0, CompleteStays
  <1>2. /\ TaskTypes' /\ CellsInv' /\ LockInv' /\ OrderInv' /\ AttemptInv' /\ GuardInv'
        /\ monitoring' \in [slot : Managers, guard : Managers]
        /\ assembled' \in Cell /\ validated' \in Cell /\ migrate_lock' \in Tasks \cup {NoTask}
    BY <1>0, <1>1, FailKeeps
  <1>3. PlainTypes'
    BY ZenonT(40), <1>0, <1>2, SetupStays DEF PlainTypes
  <1> QED
    BY <1>2, <1>3 DEF AppInv, AppTypes

\* A step the invariants are not about.
LEMMA PlainDone ==
    ASSUME AppInv, NEW t \in Tasks, Steps(t) # <<>>,
           Steps(t)[1][1] \notin Marks \cup {"enter_assembled", "migrate"}, Done(t),
           UNCHANGED <<setup, assembled, validated, migrated, migrate_lock>>,
           \A f \in Flows : Complete(f) => Complete(f)',
           ghost'.assemblies = ghost.assemblies, ghost'.validations = ghost.validations,
           ghost'.migrations = ghost.migrations
    PROVE  TaskTypes' /\ CellsInv' /\ LockInv' /\ OrderInv' /\ AttemptInv'
  <1> USE Now
  <1> DEFINE s == Steps(t)
             r == Tail(s)
             D == {s[1][1]}
  <1>1. Left(r, s, D) /\ NotAssemble(r)
    BY ZenonT(40), DoneLeft
  <1>2. D \cap Marks = {} /\ "migrate" \notin D
    OBVIOUS
  <1>3. Go(t, r)
    BY DEF Done, Steps
  <1>4. ghost'.assemblies = (IF assembled'.set THEN 1 ELSE 0)
    BY ZenonT(40) DEF CellsInv
  <1> HIDE DEF D, r
  <1>5. \A f \in Flows : HasFlow(s, "migrate", f) => HasFlow(r, "migrate", f)
    BY ZenonT(40), <1>1, <1>2 DEF Left
  <1> QED
    BY ZenonT(40), <1>1, <1>2, <1>3, <1>4, <1>5, Kept DEF NotAssemble

\* The remaining steps of a task keep the invariant.
LEMMA SmallStepsKeep ==
    ASSUME AppInv, NEW t \in Tasks, spawn_metrics(t) \/ Daemon(t) \/ Abort(t) \/ Join(t)
    PROVE  AppInv'
  <1> USE Now
  <1>0. /\ UNCHANGED <<setup, assembled, validated, migrated, migrate_lock, recorders, storages, ghost>>
        /\ Done(t) /\ Steps(t) # <<>> /\ Steps(t)[1][1] \in {"spawn_metrics", "daemon", "abort", "join"}
    BY DEF spawn_metrics, Daemon, Abort, Join, AtStep, Step, Steps
  <1>1. \A f \in Flows : Complete(f) => Complete(f)'
    BY ZenonT(40), <1>0, CompleteStays
  <1>2. TaskTypes' /\ CellsInv' /\ LockInv' /\ OrderInv' /\ AttemptInv'
    <2>1. Steps(t)[1][1] \notin Marks \cup {"enter_assembled", "migrate"}
      BY ZenonT(40), <1>0 DEF Marks
    <2> QED
      BY ZenonT(40), <1>0, <1>1, <2>1, PlainDone
  <1>3. /\ GuardInv' /\ monitoring' \in [slot : Managers, guard : Managers]
        /\ server' \in [state : {"off", "starting", "serving", "stopping", "done"}, requests : {0, 1}]
    <2>0. /\ monitoring \in [slot : Managers, guard : Managers]
          /\ server \in [state : {"off", "starting", "serving", "stopping", "done"}, requests : {0, 1}]
      BY DEF PlainTypes
    <2>1. CASE spawn_metrics(t)
      <3>1. /\ monitoring'.slot = "none" /\ monitoring'.guard = monitoring.guard
            /\ monitoring' \in [slot : Managers, guard : Managers]
        BY <2>0, <2>1 DEF spawn_metrics, Managers
      <3>2. /\ monitoring.slot = "enabled" => server'.state = "starting"
            /\ monitoring.slot # "enabled" => server' = server
            /\ server' \in [state : {"off", "starting", "serving", "stopping", "done"}, requests : {0, 1}]
        BY <2>0, <2>1 DEF spawn_metrics
      <3> QED
        BY ZenonT(40), <1>0, <3>1, <3>2 DEF GuardInv
    <2>2. CASE Daemon(t) \/ Abort(t) \/ Join(t)
      <3>1. monitoring' = monitoring /\ server' = server
        BY <2>2 DEF Daemon, Abort, Join
      <3> QED
        BY ZenonT(40), <1>0, <2>0, <3>1, GuardStays
    <2> QED
      BY <2>1, <2>2
  <1>4. PlainTypes'
    BY ZenonT(40), <1>0, <1>3, SetupStays DEF PlainTypes
  <1> QED
    BY <1>2, <1>3, <1>4 DEF AppInv, AppTypes

\* No task acts.
LEMMA ServerKeeps ==
    ASSUME AppInv, serve \/ Request \/ Respond \/ serve_on_listener \/ wait_for_shutdown \/ UNCHANGED appVars
    PROVE  AppInv'
  <1>0. UNCHANGED <<setup, assembled, validated, migrated, migrate_lock, monitoring, recorders, tasks, storages, ghost>>
    BY DEF serve, Request, Respond, serve_on_listener, wait_for_shutdown, appVars
  <1>1. server \in [state : {"off", "starting", "serving", "stopping", "done"}, requests : {0, 1}]
    BY DEF AppInv, AppTypes, PlainTypes
  <1>2. /\ server' \in [state : {"off", "starting", "serving", "stopping", "done"}, requests : {0, 1}]
        /\ (server'.state = "off") <=> (server.state = "off")
    BY <1>1 DEF serve, Request, Respond, serve_on_listener, wait_for_shutdown, appVars
  <1>3. GuardInv'
    BY <1>0, <1>2, GuardStays DEF AppInv
  <1>4. AppTypes'
    <2>1. Tasks' = Tasks /\ Flows' = Flows /\ TaskRecord' = TaskRecord /\ Cell' = Cell /\ StorageRecord' = StorageRecord
      BY <1>0, SetupStays
    <2> QED
      BY ZenonT(40), <1>0, <1>2, <2>1 DEF AppInv, AppTypes, PlainTypes, TaskTypes, Shape
  <1>5. CellsInv' /\ OrderInv' /\ AttemptInv'
    <2>1. Tasks' = Tasks
      BY <1>0, SetupStays
    <2>2. CellsInv'
      BY <1>0, <2>1 DEF AppInv, CellsInv, InValidated, AtStep, Step, Steps
    <2>3. OrderInv'
      BY <1>0, <2>1 DEF AppInv, OrderInv, Steps
    <2>4. AttemptInv'
      BY <1>0, <2>1 DEF AppInv, AttemptInv, AtStep, Step
    <2> QED
      BY <2>2, <2>3, <2>4
  <1>6. LockInv'
    <2>1. Tasks' = Tasks /\ Flows' = Flows
      BY <1>0, SetupStays
    <2>2. \A f : Complete(f)' <=> Complete(f)
      BY <1>0, CompleteStays
    <2>3. \A t : Steps(t)' = Steps(t) /\ (InLock(t)' <=> InLock(t))
      BY <1>0 DEF Steps, InLock
    <2> QED
      BY <1>0, <2>1, <2>2, <2>3 DEF AppInv, LockInv
  <1> QED
    BY <1>3, <1>4, <1>5, <1>6 DEF AppInv

-----------------------------------------------------------------------------
(* The storages.                                                           *)

\* What a storage step leaves, done or not: it takes away no cursor, and only a
\* save adds one.
LeavesOK(e, step, st) ==
    /\ e \in StorageRecord
    /\ e.kind = st.kind /\ e.tables >= st.tables
    /\ st.rows \ {Probe} \subseteq e.rows
    /\ step # "save" => e.rows \subseteq st.rows \cup {Probe}

\* A record that only its rows tell from a storage.
LEMMA RowsChange ==
    ASSUME NEW st \in StorageRecord, NEW R \in SUBSET (Flows \cup {Probe})
    PROVE  LET e == [st EXCEPT !.rows = R]
           IN  e \in StorageRecord /\ e.kind = st.kind /\ e.tables >= st.tables /\ e.rows = R
  <1> DEFINE e == [st EXCEPT !.rows = R]
  <1>0. /\ st.kind \in STRING /\ st.tables \in 0..2 /\ st.create \in BOOLEAN /\ st.insert \in BOOLEAN
        /\ st.rows \in SUBSET (Flows \cup {Probe})
    BY DEF StorageRecord, Migrations
  <1>1. e \in StorageRecord /\ e.kind = st.kind /\ e.tables = st.tables /\ e.rows = R
    BY <1>0 DEF StorageRecord, Migrations
  <1> HIDE DEF e
  <1>2. e.tables >= st.tables
    BY ZenonT(40), <1>0, <1>1, TablesOrder
  <1> QED
    BY ZenonT(40), <1>1, <1>2 DEF e

\* What a storage call that is done leaves.
LEMMA EffectIs ==
    ASSUME NEW st \in StorageRecord, NEW flow \in Flows, NEW step \in StorageSteps
    PROVE  /\ LeavesOK(Effect(step, st, flow), step, st)
           /\ step = "save" => flow \in Effect(step, st, flow).rows
  <1>0. /\ st.kind \in STRING /\ st.tables \in 0..2 /\ st.create \in BOOLEAN /\ st.insert \in BOOLEAN
        /\ st.rows \in SUBSET (Flows \cup {Probe})
    BY DEF StorageRecord, Migrations
  <1>1. CASE step = "save"
    <2> DEFINE R == st.rows \cup {flow}
               e == [st EXCEPT !.rows = R]
    <2>1. Effect(step, st, flow) = e
      BY <1>1 DEF Effect, Probes
    <2>2. R \in SUBSET (Flows \cup {Probe})
      BY ZenonT(40), <1>0
    <2>3. e \in StorageRecord /\ e.kind = st.kind /\ e.tables >= st.tables /\ e.rows = R
      BY ZenonT(40), <2>2, RowsChange
    <2> HIDE DEF e
    <2> QED
      BY ZenonT(40), <1>1, <2>1, <2>3 DEF LeavesOK
  <1>2. CASE step = "migrate"
    <2>1. Effect(step, st, flow) = migrate_step(st)
      BY <1>2 DEF Effect, Probes
    <2>2. CASE st.kind = "mongodb" \/ st.tables = Migrations \/ ~st.create
      <3>1. migrate_step(st) = st
        BY <2>2 DEF migrate_step
      <3> QED
        BY ZenonT(40), <1>0, <1>2, <2>1, <3>1, TablesOrder DEF LeavesOK
    <2>3. CASE ~(st.kind = "mongodb" \/ st.tables = Migrations \/ ~st.create)
      <3> DEFINE e == [st EXCEPT !.tables = @ + 1]
      <3>1. migrate_step(st) = e
        BY <2>3 DEF migrate_step
      <3>2. e \in StorageRecord /\ e.kind = st.kind /\ e.tables = st.tables + 1 /\ e.rows = st.rows
        BY <1>0, <2>3 DEF StorageRecord, Migrations
      <3> HIDE DEF e
      <3>3. e.tables >= st.tables
        BY <1>0, <3>2
      <3> QED
        BY ZenonT(40), <1>2, <2>1, <3>1, <3>2, <3>3 DEF LeavesOK
    <2> QED
      BY ZenonT(40), <2>2, <2>3
  <1>3. CASE step \notin {"save", "migrate"} /\ Probes(step, st)
    <2> DEFINE R == st.rows \ {Probe}
               e == [st EXCEPT !.rows = R]
    <2>1. Effect(step, st, flow) = e
      BY <1>3 DEF Effect
    <2>2. R \in SUBSET (Flows \cup {Probe})
      BY ZenonT(40), <1>0
    <2>3. e \in StorageRecord /\ e.kind = st.kind /\ e.tables >= st.tables /\ e.rows = R
      BY ZenonT(40), <2>2, RowsChange
    <2> HIDE DEF e
    <2> QED
      BY ZenonT(40), <1>3, <2>1, <2>3 DEF LeavesOK
  <1>4. CASE step \notin {"save", "migrate"} /\ ~Probes(step, st)
    <2>1. Effect(step, st, flow) = st
      BY <1>4 DEF Effect
    <2> QED
      BY ZenonT(40), <1>0, <1>4, <2>1, TablesOrder DEF LeavesOK
  <1> QED
    BY ZenonT(40), <1>1, <1>2, <1>3, <1>4

\* What a storage call leaves, done or not.
LEMMA LeavesHolds ==
    ASSUME NEW st \in StorageRecord, NEW flow \in Flows, NEW step \in StorageSteps, NEW done,
           NEW e \in Leaves(step, st, flow, done)
    PROVE  LeavesOK(e, step, st) /\ (done => e = Effect(step, st, flow))
  <1>1. CASE done
    BY ZenonT(40), <1>1, EffectIs DEF Leaves
  <1>2. CASE ~done /\ e = st
    <2>1. st.tables \in 0..2
      BY DEF StorageRecord, Migrations
    <2> QED
      BY ZenonT(40), <1>2, <2>1, TablesOrder DEF LeavesOK
  <1>3. CASE ~done /\ Probes(step, st) /\ e = [st EXCEPT !.rows = @ \union {Probe}]
    <2> DEFINE R == st.rows \cup {Probe}
    <2>1. e = [st EXCEPT !.rows = R]
      BY <1>3
    <2>2. R \in SUBSET (Flows \cup {Probe})
      BY DEF StorageRecord
    <2>3. e \in StorageRecord /\ e.kind = st.kind /\ e.tables >= st.tables /\ e.rows = R
      BY ZenonT(40), <2>1, <2>2, RowsChange
    <2> QED
      BY ZenonT(40), <1>3, <2>3 DEF LeavesOK
  <1> QED
    BY ZenonT(40), <1>1, <1>2, <1>3 DEF Leaves

\* What a storage call that reached the store does.
LEMMA ReachedIs ==
    ASSUME NEW st \in StorageRecord, NEW flow \in Flows, setup \in Setups
    PROVE  /\ \A step \in StorageSteps : Reached(step, st, flow) \in {"ok", "backend", "other"}
           /\ st.kind = "mongodb" \/ st.tables = Migrations => Reached("load", st, flow) = "ok"
           /\ Reached("migrate", st, flow) = "ok" /\ st.kind # "mongodb" => st.tables = Migrations \/ st.create
  <1>0. st.tables \in 0..2 /\ st.create \in BOOLEAN /\ st.insert \in BOOLEAN
    BY DEF StorageRecord, Migrations
  <1>1. TableOf(flow) \in {1, 2}
    BY DEF TableOf

  <1>3. /\ PgAccess(st) \in {"ok", "backend", "other"} /\ MySqlAccess(st) \in {"ok", "backend", "other"}
        /\ MongoAccess(st) \in {"ok", "backend", "other"}
    BY DEF PgAccess, MySqlAccess, MongoAccess
  <1> DEFINE p == PgStorage(st, flow)
             y == MySqlStorage(st, flow)
             m == MongoStorage(st, flow)
             l == Answer(st.tables >= TableOf(flow))
             v == Answer(st.tables >= TableOf(flow) /\ st.insert)
             g == Answer(st.tables = Migrations \/ st.create)
             w == Answer(st.insert)
  <1>4. p.access = PgAccess(st) /\ p.load = l /\ p.save = v /\ p.migrate = g
    BY DEF PgStorage
  <1>5. y.access = MySqlAccess(st) /\ y.load = l /\ y.save = v /\ y.migrate = g
    BY DEF PgStorage, MySqlStorage
  <1>6. m.access = MongoAccess(st) /\ m.load = "ok" /\ m.save = w /\ m.migrate = "ok"
    BY DEF MongoStorage
  <1>7. /\ l \in {"ok", "backend"} /\ v \in {"ok", "backend"} /\ g \in {"ok", "backend"} /\ w \in {"ok", "backend"}
        /\ (l = "ok" <=> st.tables >= TableOf(flow)) /\ (g = "ok" <=> st.tables = Migrations \/ st.create)
    BY DEF Answer
  <1>8. /\ Storage(st, flow) = p \/ Storage(st, flow) = y \/ Storage(st, flow) = m
        /\ st.kind # "mongodb" => Storage(st, flow) = p \/ Storage(st, flow) = y
    BY DEF Storage
  <1> HIDE DEF p, y, m, l, v, g, w
  <1>9. ASSUME NEW step \in StorageSteps PROVE Reached(step, st, flow) \in {"ok", "backend", "other"}
    <2>1. CASE step = "sample"
      <3>1. Reached(step, st, flow) = Storage(st, flow).load
        BY <2>1 DEF Reached
      <3> QED
        BY <1>4, <1>5, <1>6, <1>7, <1>8, <3>1
    <2>2. CASE step \in {"access", "load", "save", "migrate"}
      <3>1. Reached(step, st, flow) = Storage(st, flow)[step]
        BY <2>2 DEF Reached
      <3> QED
        BY <1>3, <1>4, <1>5, <1>6, <1>7, <1>8, <2>2, <3>1
    <2> QED
      BY <2>1, <2>2 DEF StorageSteps
  <1>10. Reached("load", st, flow) = Storage(st, flow).load /\ Reached("migrate", st, flow) = Storage(st, flow).migrate
    BY DEF Reached
  <1>11. ASSUME st.kind = "mongodb" \/ st.tables = Migrations PROVE Reached("load", st, flow) = "ok"
    <2>1. CASE st.kind = "mongodb"
      <3>1. Storage(st, flow) = m
        BY <2>1 DEF Storage, m
      <3> QED
        BY <1>6, <1>10, <3>1
    <2>2. CASE st.tables = Migrations
      <3>1. l = "ok"
        BY <1>0, <1>1, <1>7, <2>2 DEF Migrations
      <3> QED
        BY <1>4, <1>5, <1>6, <1>8, <1>10, <3>1
    <2> QED
      BY <1>11, <2>1, <2>2
  <1>12. ASSUME Reached("migrate", st, flow) = "ok", st.kind # "mongodb" PROVE st.tables = Migrations \/ st.create
    BY <1>4, <1>5, <1>7, <1>8, <1>10, <1>12
  <1> QED
    BY <1>9, <1>11, <1>12

\* A migration that is done, with at most one table missing, leaves none.
LEMMA MigrateCompletes ==
    ASSUME NEW st \in StorageRecord, NEW flow \in Flows, setup \in Setups,
           Reached("migrate", st, flow) = "ok", ~(st.kind # "mongodb" /\ st.tables < Migrations - 1)
    PROVE  st.kind = "mongodb" \/ Effect("migrate", st, flow).tables = Migrations
  <1>0. st.tables \in 0..2 /\ DOMAIN st = {"kind", "tables", "create", "insert", "rows"}
    BY DEF StorageRecord, Migrations
  <1>1. Effect("migrate", st, flow) = migrate_step(st)
    BY DEF Effect, Probes
  <1>2. st.kind # "mongodb" => st.tables = Migrations \/ st.create
    BY ReachedIs
  <1>3. CASE st.kind # "mongodb" /\ st.tables = Migrations
    BY <1>1, <1>3 DEF migrate_step
  <1>4. CASE st.kind # "mongodb" /\ st.tables # Migrations
    <2>1. st.tables = 1 /\ st.create
      BY <1>0, <1>2, <1>4 DEF Migrations
    <2>2. migrate_step(st) = [st EXCEPT !.tables = @ + 1]
      BY <1>4, <2>1 DEF migrate_step
    <2>3. migrate_step(st).tables = st.tables + 1
      BY <1>0, <2>2
    <2> QED
      BY <1>1, <2>1, <2>3 DEF Migrations
  <1> QED
    BY <1>3, <1>4

-----------------------------------------------------------------------------
(* One attempt at a storage step.                                          *)

\* What is true of an error that reached the caller.
SurfacedRight(e) ==
    /\ e.step = "access" /\ e.outcome # "other" => e.attempts = ACCESS_PROBE_RETRY_ATTEMPTS
    /\ e.outcome = "serialization" /\ e.step \in {"sample", "load", "save"} => e.attempts = MAX_ATTEMPTS
    /\ e.method = "run_once" /\ e.step \in {"sample", "load", "save"} => ~e.missing
HonestInv ==
    /\ \A f \in ghost.acked : f \in StorageOf(f).rows
    /\ ~validated.set => \A n \in DOMAIN setup.storages : storages[n].rows \subseteq {Probe}
    /\ \A e \in ghost.surfaced : SurfacedRight(e)

\* The attempt, taken apart: what the storage becomes, and how it ends.
AttemptEnds(t, step, flow, st, result, outcome, done) ==
    /\ result = "reached" => outcome = Reached(step, st, flow)
    /\ result # "reached" => outcome \in {"backend", "serialization"}
    /\ outcome = "serialization" => st.kind = "cockroachdb" /\ result = "serialization"
    /\ outcome = "ok" => done /\ Reached(step, st, flow) = "ok"
    /\ \E left \in Leaves(step, st, flow, done) :
          storages' = [storages EXCEPT ![setup.flows[flow].storage] = left]
    /\ \/ /\ outcome = "ok"
          /\ IF step = "migrate" /\ st.kind # "mongodb" /\ st.tables < Migrations - 1 THEN UNCHANGED tasks
             ELSE Done(t)
          /\ ghost' = IF step = "save" THEN [ghost EXCEPT !.acked = @ \union {flow}] ELSE ghost
          /\ UNCHANGED <<assembled, monitoring, validated, migrate_lock>>
       \/ /\ outcome # "ok" /\ Retried(step, st, outcome, tasks[t].attempts)
          /\ tasks' = [tasks EXCEPT ![t].attempts = @ + 1]
          /\ UNCHANGED <<assembled, monitoring, validated, migrate_lock, ghost>>
       \/ /\ outcome # "ok" /\ ~Retried(step, st, outcome, tasks[t].attempts)
          /\ Fail(t)
          /\ ghost' = [ghost EXCEPT !.surfaced = @ \union
                         {[step |-> step, kind |-> st.kind, outcome |-> outcome,
                           attempts |-> tasks[t].attempts + 1, method |-> tasks[t].method,
                           missing |-> Reached("load", st, flow) # "ok"]}]

\* One attempt of a storage call, and what retry_transient makes of it.
LEMMA AttemptDoes ==
    ASSUME AppInv, NEW t \in Tasks, Attempt(t)
    PROVE  /\ Steps(t) # <<>> /\ Step(t) \in StorageSteps /\ StepFlow(t) \in Flows
           /\ Step(t) = Steps(t)[1][1]
           /\ setup.flows[StepFlow(t)].storage \in DOMAIN setup.storages
           /\ StorageOf(StepFlow(t)) \in StorageRecord
           /\ UNCHANGED <<setup, migrated, recorders, server, signal>>
           /\ \E result, outcome, done :
                 AttemptEnds(t, Step(t), StepFlow(t), StorageOf(StepFlow(t)), result, outcome, done)
  <1> USE Now
  <1>1. Steps(t) # <<>> /\ Step(t) \in StorageSteps /\ Step(t) = Steps(t)[1][1] /\ StepFlow(t) = Steps(t)[1][2]
    BY ZenonT(40) DEF Attempt, Steps, Step, StepFlow
  <1>2. StepFlow(t) \in Flows
    <2>1. 1 \in 1..Len(Steps(t))
      BY ZenonT(40), <1>1, FirstAt DEF TaskTypes, TaskRecord
    <2> QED
      BY ZenonT(40), <1>1, <2>1 DEF Shape, ShapeOf
  <1>3. setup.flows[StepFlow(t)].storage \in DOMAIN setup.storages
    BY ZenonT(40), <1>2, SetupAssumption DEF Flows
  <1>4. StorageOf(StepFlow(t)) \in StorageRecord
    BY ZenonT(40), <1>3 DEF StorageOf, PlainTypes
  <1>5. UNCHANGED <<setup, migrated, recorders, server, signal>>
    BY DEF Attempt
  <1> DEFINE step == Step(t)
             flow == StepFlow(t)
             name == setup.flows[flow].storage
             st == storages[name]
             outcome(result) == IF result = "reached" THEN Reached(step, st, flow)
                                ELSE IF result = "lost" THEN "backend" ELSE result
             done(result) == \/ result = "reached" /\ outcome(result) = "ok"
                             \/ result = "lost" /\ Reached(step, st, flow) = "ok"
             unfinished == step = "migrate" /\ st.kind # "mongodb" /\ st.tables < Migrations - 1
  <1>6. PICK result \in {"reached", "lost", "backend", "serialization"} :
             /\ result # "reached" => faults < MaxFaults
             /\ result = "serialization" => st.kind = "cockroachdb"
             /\ faults' = IF result = "reached" THEN faults ELSE faults + 1
             /\ \E left \in Leaves(step, st, flow, done(result)) :
                   storages' = [storages EXCEPT ![name] = left]
             /\ IF outcome(result) = "ok"
                THEN /\ IF unfinished THEN UNCHANGED tasks ELSE Done(t)
                     /\ ghost' = IF step = "save" THEN [ghost EXCEPT !.acked = @ \union {flow}]
                                 ELSE ghost
                     /\ UNCHANGED <<assembled, monitoring, validated, migrate_lock>>
                ELSE IF Retried(step, st, outcome(result), tasks[t].attempts)
                THEN /\ tasks' = [tasks EXCEPT ![t].attempts = @ + 1]
                     /\ UNCHANGED <<assembled, monitoring, validated, migrate_lock, ghost>>
                ELSE /\ Fail(t)
                     /\ ghost' = [ghost EXCEPT !.surfaced = @ \union
                           {[step |-> step, kind |-> st.kind, outcome |-> outcome(result),
                             attempts |-> tasks[t].attempts + 1, method |-> tasks[t].method,
                             missing |-> Reached("load", st, flow) # "ok"]}]
    BY ZenonT(40) DEF Attempt
  <1>7. st = StorageOf(flow)
    BY DEF StorageOf
  <1>8. Reached(step, st, flow) \in {"ok", "backend", "other"}
    BY ZenonT(40), <1>1, <1>2, <1>4, <1>7, ReachedIs
  <1>9. /\ result = "reached" => outcome(result) = Reached(step, st, flow)
        /\ result # "reached" => outcome(result) \in {"backend", "serialization"}
        /\ outcome(result) = "serialization" => st.kind = "cockroachdb" /\ result = "serialization"
        /\ outcome(result) = "ok" => done(result) /\ Reached(step, st, flow) = "ok"
    BY ZenonT(40), <1>6, <1>8
  <1> DEFINE o == outcome(result)
             d == done(result)
  <1>10. AttemptEnds(t, step, flow, st, result, o, d)
    <2>1. /\ \E left \in Leaves(step, st, flow, d) : storages' = [storages EXCEPT ![name] = left]
          /\ IF o = "ok"
             THEN /\ IF unfinished THEN UNCHANGED tasks ELSE Done(t)
                  /\ ghost' = IF step = "save" THEN [ghost EXCEPT !.acked = @ \union {flow}]
                              ELSE ghost
                  /\ UNCHANGED <<assembled, monitoring, validated, migrate_lock>>
             ELSE IF Retried(step, st, o, tasks[t].attempts)
             THEN /\ tasks' = [tasks EXCEPT ![t].attempts = @ + 1]
                  /\ UNCHANGED <<assembled, monitoring, validated, migrate_lock, ghost>>
             ELSE /\ Fail(t)
                  /\ ghost' = [ghost EXCEPT !.surfaced = @ \union
                        {[step |-> step, kind |-> st.kind, outcome |-> o,
                          attempts |-> tasks[t].attempts + 1, method |-> tasks[t].method,
                          missing |-> Reached("load", st, flow) # "ok"]}]
      BY <1>6, ZenonT(40)
    <2>2. /\ result = "reached" => o = Reached(step, st, flow)
          /\ result # "reached" => o \in {"backend", "serialization"}
          /\ o = "serialization" => st.kind = "cockroachdb" /\ result = "serialization"
          /\ o = "ok" => d /\ Reached(step, st, flow) = "ok"
      BY ZenonT(40), <1>9
    <2> HIDE DEF o, d, step, flow, st
    <2> QED
      BY <2>1, <2>2, ZenonT(40) DEF AttemptEnds
  <1> QED
    BY ZenonT(40), <1>1, <1>2, <1>3, <1>4, <1>5, <1>7, <1>10

\* What an attempt may do to the storages.
StoragesAfter(step, flow, st, outcome) ==
    /\ storages' \in [DOMAIN setup.storages -> StorageRecord]
    /\ \A n \in DOMAIN setup.storages : storages[n].rows \ {Probe} \subseteq storages'[n].rows
    /\ step # "save" => \A n \in DOMAIN setup.storages : storages'[n].rows \subseteq storages[n].rows \cup {Probe}
    /\ \A f \in Flows : Complete(f) => Complete(f)'
    /\ outcome = "ok" /\ step = "save" => flow \in StorageOf(flow)'.rows
    /\ outcome = "ok" /\ step = "migrate" /\ ~(st.kind # "mongodb" /\ st.tables < Migrations - 1) => Complete(flow)'

\* The tables after an attempt.
LEMMA AttemptStorages ==
    ASSUME AppInv, NEW t \in Tasks, setup' = setup, NEW step \in StorageSteps, NEW flow \in Flows, NEW st,
           st = StorageOf(flow), setup.flows[flow].storage \in DOMAIN setup.storages,
           NEW result, NEW outcome, NEW done, AttemptEnds(t, step, flow, st, result, outcome, done)
    PROVE  StoragesAfter(step, flow, st, outcome)
  <1> DEFINE name == setup.flows[flow].storage
             T == DOMAIN setup.storages
  <1>0. storages \in [T -> StorageRecord] /\ st = storages[name] /\ st \in StorageRecord /\ name \in T
    BY ZenonT(40), Now DEF PlainTypes, StorageOf
  <1>2. PICK e \in Leaves(step, st, flow, done) : storages' = [storages EXCEPT ![name] = e]
    BY ZenonT(40) DEF AttemptEnds
  <1>1. /\ e \in StorageRecord /\ e.kind = st.kind /\ e.tables >= st.tables
        /\ st.rows \ {Probe} \subseteq e.rows
        /\ step # "save" => e.rows \subseteq st.rows \cup {Probe}
        /\ done => e = Effect(step, st, flow)
    <2>1. LeavesOK(e, step, st) /\ (done => e = Effect(step, st, flow))
      BY ZenonT(40), <1>0, LeavesHolds
    <2> QED
      BY ZenonT(40), <2>1 DEF LeavesOK
  <1>4. outcome = "ok" => done
    BY ZenonT(40) DEF AttemptEnds
  <1>3. /\ outcome = "ok" /\ step = "migrate" /\ ~(st.kind # "mongodb" /\ st.tables < Migrations - 1) =>
            st.kind = "mongodb" \/ e.tables = Migrations
        /\ outcome = "ok" /\ step = "save" => flow \in e.rows
    <2>1. setup \in Setups
      BY ZenonT(40), Now
    <2>2. st \in StorageRecord
      BY ZenonT(40), <1>0
    <2>3. outcome = "ok" => Reached(step, st, flow) = "ok"
      BY ZenonT(40) DEF AttemptEnds
    <2>4. outcome = "ok" /\ step = "save" => flow \in e.rows
      BY ZenonT(40), <1>1, <1>4, <2>2, EffectIs
    <2> QED
      BY ZenonT(40), <1>1, <1>4, <2>1, <2>2, <2>3, <2>4, MigrateCompletes
  <1> HIDE DEF name
  <1>5. storages' \in [T -> StorageRecord]
    BY ZenonT(40), <1>0, <1>1, <1>2
  <1>6. \A n \in T : storages'[n] = storages[n] \/ (n = name /\ storages'[n] = e)
    BY ZenonT(40), <1>0, <1>2
  <1>7. storages'[name] = e
    BY ZenonT(40), <1>0, <1>2
  <1>8. \A n \in T : /\ storages[n].rows \ {Probe} \subseteq storages'[n].rows
                     /\ step # "save" => storages'[n].rows \subseteq storages[n].rows \cup {Probe}
    BY ZenonT(40), <1>0, <1>1, <1>6
  <1>9. \A n \in T : storages'[n].kind = storages[n].kind /\ storages'[n].tables >= storages[n].tables
    <2> SUFFICES ASSUME NEW n \in T
                 PROVE  storages'[n].kind = storages[n].kind /\ storages'[n].tables >= storages[n].tables
      BY ZenonT(40)
    <2>1. storages[n].tables \in 0..2
      BY ZenonT(40), <1>0 DEF StorageRecord, Migrations
    <2>2. CASE storages'[n] = storages[n]
      BY ZenonT(40), <2>1, <2>2, TablesOrder
    <2>3. CASE n = name /\ storages'[n] = e
      BY ZenonT(40), <1>0, <1>1, <2>3
    <2> QED
      BY ZenonT(40), <1>6, <2>2, <2>3
  <1>10. ASSUME NEW f \in Flows, Complete(f) PROVE Complete(f)'
    <2> DEFINE n == setup.flows[f].storage
    <2>1. n \in T
      BY ZenonT(40), Now, SetupAssumption DEF Flows
    <2>2. storages[n].kind = "mongodb" \/ storages[n].tables = Migrations
      BY ZenonT(40), <1>10 DEF Complete, StorageOf
    <2>3. storages'[n].tables \in 0..2 /\ storages'[n].kind = storages[n].kind /\ storages'[n].tables >= storages[n].tables
      BY ZenonT(40), <1>5, <1>9, <2>1 DEF StorageRecord, Migrations
    <2> HIDE DEF n
    <2>4. storages'[n].kind = "mongodb" \/ storages'[n].tables = Migrations
      BY ZenonT(40), <2>2, <2>3, TablesOrder DEF Migrations
    <2> QED
      BY ZenonT(40), <2>4 DEF Complete, StorageOf, n
  <1>11. outcome = "ok" /\ step = "save" => flow \in StorageOf(flow)'.rows
    BY ZenonT(40), <1>3, <1>7 DEF StorageOf, name
  <1>12. outcome = "ok" /\ step = "migrate" /\ ~(st.kind # "mongodb" /\ st.tables < Migrations - 1) => Complete(flow)'
    BY ZenonT(40), <1>1, <1>3, <1>7 DEF Complete, StorageOf, name
  <1> QED
    BY ZenonT(40), <1>5, <1>8, <1>10, <1>11, <1>12 DEF StoragesAfter

\* An attempt keeps the invariant.
LEMMA AttemptKeeps == ASSUME AppInv, NEW t \in Tasks, Attempt(t) PROVE AppInv'
  <1> USE Now
  <1> DEFINE s == Steps(t)
  <1>step. PICK step \in StorageSteps : step = Step(t)
    BY ZenonT(40), AttemptDoes
  <1>flow. PICK flow \in Flows : flow = StepFlow(t)
    BY ZenonT(40), AttemptDoes
  <1>st. PICK st \in StorageRecord : st = StorageOf(flow)
    BY ZenonT(40), <1>flow, AttemptDoes
  <1>0. /\ s # <<>> /\ step = s[1][1] /\ flow = s[1][2]
        /\ setup.flows[flow].storage \in DOMAIN setup.storages
        /\ UNCHANGED <<setup, migrated, recorders, server, signal>>
    BY ZenonT(40), <1>step, <1>flow, AttemptDoes DEF StepFlow, Steps
  <1>1. PICK result, outcome, done : AttemptEnds(t, step, flow, st, result, outcome, done)
    BY ZenonT(40), <1>step, <1>flow, <1>st, AttemptDoes
  <1> DEFINE unfinished == st.kind # "mongodb" /\ st.tables < Migrations - 1
  <1>2. /\ storages' \in [DOMAIN setup.storages -> StorageRecord]
        /\ \A f \in Flows : Complete(f) => Complete(f)'
        /\ outcome = "ok" /\ step = "migrate" /\ ~unfinished => Complete(flow)'
    <2>1. setup' = setup
      BY ZenonT(40), <1>0
    <2>2. StoragesAfter(step, flow, st, outcome)
      BY ZenonT(40), <1>0, <1>1, <1>st, <2>1, AttemptStorages
    <2> QED
      BY ZenonT(40), <2>2 DEF StoragesAfter
  <1>3. step \notin Marks \cup {"enter_assembled", "assemble"}
    BY ZenonT(40), <1>0 DEF StorageSteps, Marks
  <1>4. CASE /\ outcome = "ok" /\ step = "migrate" /\ unfinished /\ UNCHANGED tasks
             /\ UNCHANGED <<assembled, monitoring, validated, migrate_lock, ghost>>
    <2>1. Others(t) /\ \A u : Steps(u)' = Steps(u)
      BY <1>4 DEF Others, Steps
    <2>2. /\ AtStep(t, "assemble")' <=> AtStep(t, "assemble")
          /\ (InValidated(t)' <=> InValidated(t)) /\ (InLock(t)' <=> InLock(t))
      BY ZenonT(40), <1>4 DEF AtStep, Step, InValidated, InLock, Steps
    <2>3. CellsInv'
      <3>1. /\ ghost'.assemblies = (IF assembled'.set THEN 1 ELSE 0)
            /\ ghost'.validations = (IF validated'.set THEN 1 ELSE 0)
            /\ InValidated(t)' => validated'.by = t /\ ~validated'.set
            /\ AtStep(t, "assemble")' => assembled'.by = t /\ ~assembled'.set
        BY ZenonT(40), <1>4, <2>2 DEF CellsInv
      <3> QED
        BY ZenonT(40), <1>0, <1>4, <2>1, <3>1, CellsStep
    <2>4. LockInv'
      <3>1. InLock(t)' => migrate_lock' = t
        BY <1>4, <2>1, <2>2 DEF LockInv
      <3>2. ASSUME InLock(t)', ~Has(Steps(t)', "migrated?")
            PROVE  ~migrated' /\ \A f \in Flows : Complete(f)' \/ HasFlow(Steps(t)', "migrate", f)
        <4>1. InLock(t) /\ ~Has(Steps(t), "migrated?")
          BY <2>1, <2>2, <3>2
        <4>2. ~migrated /\ \A f \in Flows : Complete(f) \/ HasFlow(Steps(t), "migrate", f)
          BY <4>1 DEF LockInv
        <4> QED
          BY ZenonT(40), <1>0, <1>2, <2>1, <2>2, <4>2
      <3>3. migrated' => \A f \in Flows : Complete(f)'
        BY ZenonT(40), <1>0, <1>2 DEF LockInv
      <3>4. ghost'.migrations = (IF migrated' THEN 1 ELSE 0)
        BY ZenonT(40), <1>0, <1>4 DEF LockInv
      <3> QED
        BY ZenonT(40), <1>0, <1>2, <1>4, <2>1, <3>1, <3>2, <3>3, <3>4, LockStep
    <2>5. OrderInv'
      BY ZenonT(40), <1>0, <1>4, <2>1, OrderStep
    <2>6. AttemptInv'
      <3>1. AttemptOf(tasks'[t])
        BY <1>4, AttemptIs
      <3> QED
        BY ZenonT(40), <1>0, <2>1, <3>1, AttemptStep
    <2>7. GuardInv'
      BY ZenonT(40), <1>0, <1>4, GuardStays
    <2>8. TaskTypes'
      <3>1. tasks' \in [Tasks -> TaskRecord] /\ Shape(tasks'[t].steps)
        BY <1>4 DEF TaskTypes
      <3> QED
        BY ZenonT(40), <1>0, <2>1, <3>1, TaskChanges
    <2>9. PlainTypes'
      BY ZenonT(40), <1>0, <1>2, <1>4, SetupStays DEF PlainTypes
    <2> QED
      BY <2>3, <2>4, <2>5, <2>6, <2>7, <2>8, <2>9 DEF AppInv, AppTypes
  <1>5. CASE /\ outcome = "ok" /\ ~(step = "migrate" /\ unfinished) /\ Done(t)
             /\ ghost' = IF step = "save" THEN [ghost EXCEPT !.acked = @ \union {flow}] ELSE ghost
             /\ UNCHANGED <<assembled, monitoring, validated, migrate_lock>>
    <2>1. /\ ghost'.assemblies = ghost.assemblies /\ ghost'.validations = ghost.validations
          /\ ghost'.migrations = ghost.migrations /\ ghost'.spawned_first = ghost.spawned_first
          /\ DOMAIN ghost' = Ghosts /\ ghost'.acked \subseteq Flows
      <3>1. ghost.acked \subseteq Flows
        BY DEF PlainTypes
      <3> QED
        BY <1>0, <1>5, <3>1 DEF Ghosts
    <2>2. TaskTypes' /\ CellsInv' /\ LockInv' /\ OrderInv' /\ AttemptInv'
      <3>1. CASE step # "migrate"
        BY <1>0, <1>2, <1>3, <1>5, <2>1, <3>1, PlainDone
      <3>2. CASE step = "migrate"
        <4> DEFINE r == Tail(s)
                   D == {"migrate"}
        <4>1. /\ Left(r, s, D) /\ NotAssemble(r)
              /\ \A n, f : HasFlow(s, n, f) => HasFlow(r, n, f) \/ IsStep(s[1], n, f)
          BY ZenonT(40), <1>0, <3>2, DoneLeft
        <4>2. D \cap Marks = {}
          BY DEF Marks
        <4>3. Go(t, r)
          BY <1>5 DEF Done, Steps
        <4> HIDE DEF r, D
        <4>4. ASSUME NEW f \in Flows, HasFlow(s, "migrate", f) PROVE HasFlow(r, "migrate", f) \/ Complete(f)'
          <5>1. ASSUME IsStep(s[1], "migrate", f) PROVE f = flow
            <6>1. s[1][2] = f
              BY ZenonT(40), <5>1, StepIs
            <6> QED
              BY <1>0, <6>1
          <5> QED
            BY <1>2, <1>5, <3>2, <4>1, <4>4, <5>1
        <4>5. ghost'.assemblies = (IF assembled'.set THEN 1 ELSE 0)
          BY <1>5, <2>1 DEF CellsInv
        <4> QED
          BY <1>0, <1>2, <1>5, <2>1, <4>1, <4>2, <4>3, <4>4, <4>5, Kept DEF NotAssemble
      <3> QED
        BY <3>1, <3>2
    <2>3. GuardInv'
      BY <1>0, <1>5, <2>1, GuardStays
    <2>4. PlainTypes'
      BY <1>0, <1>2, <1>5, <2>1, SetupStays DEF PlainTypes
    <2> QED
      BY <2>2, <2>3, <2>4 DEF AppInv, AppTypes
  <1>6. CASE /\ outcome # "ok" /\ Retried(step, st, outcome, tasks[t].attempts)
             /\ tasks' = [tasks EXCEPT ![t].attempts = @ + 1]
             /\ UNCHANGED <<assembled, monitoring, validated, migrate_lock, ghost>>
    <2>1. /\ tasks' \in [Tasks -> TaskRecord] /\ (\A u \in Tasks : u # t => tasks'[u] = tasks[u])
          /\ tasks'[t].steps = tasks[t].steps /\ tasks'[t].method = tasks[t].method
          /\ tasks'[t].attempts = tasks[t].attempts + 1
      <3> DEFINE k == tasks[t].attempts + 1
      <3>1. tasks \in [Tasks -> TaskRecord] /\ tasks[t] \in TaskRecord
        BY DEF TaskTypes
      <3>2. k \in Nat
        <4>1. tasks[t].attempts \in Nat
          BY ZenonT(40), <3>1 DEF TaskRecord
        <4> QED
          BY <4>1
      <3>3. tasks' = [tasks EXCEPT ![t].attempts = k]
        BY <1>6
      <3> HIDE DEF k
      <3>4. /\ tasks' \in [Tasks -> TaskRecord] /\ (\A u \in Tasks : u # t => tasks'[u] = tasks[u])
            /\ tasks'[t].steps = tasks[t].steps /\ tasks'[t].method = tasks[t].method
            /\ tasks'[t].attempts = k
        BY ZenonT(40), <3>1, <3>2, <3>3 DEF TaskRecord
      <3> QED
        BY ZenonT(40), <3>4 DEF k
    <2>2. Others(t) /\ Steps(t)' = Steps(t)
      BY ZenonT(40), <2>1 DEF Others, Steps
    <2>3. /\ AtStep(t, "assemble")' <=> AtStep(t, "assemble")
          /\ (InValidated(t)' <=> InValidated(t)) /\ (InLock(t)' <=> InLock(t))
      BY ZenonT(40), <2>1 DEF AtStep, Step, InValidated, InLock, Steps
    <2>4. CellsInv'
      <3>1. /\ ghost'.assemblies = (IF assembled'.set THEN 1 ELSE 0)
            /\ ghost'.validations = (IF validated'.set THEN 1 ELSE 0)
            /\ InValidated(t)' => validated'.by = t /\ ~validated'.set
            /\ AtStep(t, "assemble")' => assembled'.by = t /\ ~assembled'.set
        BY <1>6, <2>3 DEF CellsInv
      <3> QED
        BY <1>0, <1>6, <2>2, <3>1, CellsStep
    <2>5. LockInv'
      <3>1. InLock(t)' => migrate_lock' = t
        BY <1>6, <2>2, <2>3 DEF LockInv
      <3>2. ASSUME InLock(t)', ~Has(Steps(t)', "migrated?")
            PROVE  ~migrated' /\ \A f \in Flows : Complete(f)' \/ HasFlow(Steps(t)', "migrate", f)
        <4>1. InLock(t) /\ ~Has(Steps(t), "migrated?")
          BY <2>2, <2>3, <3>2
        <4>2. ~migrated /\ \A f \in Flows : Complete(f) \/ HasFlow(Steps(t), "migrate", f)
          BY <4>1 DEF LockInv
        <4> QED
          BY ZenonT(40), <1>0, <1>2, <2>2, <2>3, <4>2
      <3>3. migrated' => \A f \in Flows : Complete(f)'
        BY ZenonT(40), <1>0, <1>2 DEF LockInv
      <3>4. ghost'.migrations = (IF migrated' THEN 1 ELSE 0)
        BY <1>0, <1>6 DEF LockInv
      <3> QED
        BY <1>0, <1>2, <1>6, <2>2, <3>1, <3>2, <3>3, <3>4, LockStep
    <2>6. OrderInv'
      <3>1. OrderOf(tasks'[t], migrated', validated'.set)
        BY <1>0, <1>6, <2>1 DEF OrderOf
      <3> QED
        BY <1>0, <1>6, <2>2, <3>1, OrderStep
    <2>7. AttemptInv'
      <3>1. step # "migrate" /\ (step = "access" => tasks[t].attempts + 1 < ACCESS_PROBE_RETRY_ATTEMPTS)
            /\ (step \in {"sample", "load", "save"} => tasks[t].attempts + 1 < MAX_ATTEMPTS)
        BY <1>6 DEF Retried, retry_transient, with_serialization_retry
      <3>2. step \in {"access", "sample", "load", "save"}
        BY ZenonT(40), <1>0, <3>1 DEF StorageSteps
      <3>3. AttemptOf(tasks'[t])
        BY ZenonT(40), <1>0, <2>1, <3>1, <3>2 DEF AttemptOf, Steps
      <3> QED
        BY ZenonT(40), <1>0, <2>2, <3>3, AttemptStep
    <2>8. GuardInv'
      BY <1>0, <1>6, GuardStays
    <2>9. TaskTypes'
      BY ZenonT(40), <1>0, <2>1, <2>2, TaskChanges DEF Steps
    <2>10. PlainTypes'
      BY <1>0, <1>2, <1>6, SetupStays DEF PlainTypes
    <2> QED
      BY <2>4, <2>5, <2>6, <2>7, <2>8, <2>9, <2>10 DEF AppInv, AppTypes
  <1>7. CASE Fail(t) /\ \E x : ghost' = [ghost EXCEPT !.surfaced = x]
    <2>1. /\ ghost'.assemblies = ghost.assemblies /\ ghost'.validations = ghost.validations
          /\ ghost'.migrations = ghost.migrations /\ ghost'.spawned_first = ghost.spawned_first
          /\ DOMAIN ghost' = Ghosts /\ ghost'.acked = ghost.acked
      BY <1>7 DEF Ghosts
    <2>2. /\ TaskTypes' /\ CellsInv' /\ LockInv' /\ OrderInv' /\ AttemptInv' /\ GuardInv'
          /\ monitoring' \in [slot : Managers, guard : Managers]
          /\ assembled' \in Cell /\ validated' \in Cell /\ migrate_lock' \in Tasks \cup {NoTask}
      BY <1>0, <1>2, <1>7, <2>1, FailKeeps
    <2>3. PlainTypes'
      BY ZenonT(40), <1>0, <1>2, <2>1, <2>2, SetupStays DEF PlainTypes
    <2> QED
      BY <2>2, <2>3 DEF AppInv, AppTypes
  <1> QED
    BY <1>1, <1>4, <1>5, <1>6, <1>7, ZenonT(40) DEF AttemptEnds

\* What was told of the storages stays true when no attempt is made.
LEMMA HonestStays ==
    ASSUME HonestInv, UNCHANGED <<setup, storages>>, ghost'.acked = ghost.acked, ghost'.surfaced = ghost.surfaced,
           validated.set => validated'.set
    PROVE  HonestInv'
  BY DEF HonestInv, StorageOf

\* An attempt reports what the store did.
LEMMA AttemptHonest ==
    ASSUME AppInv, HonestInv, NEW t \in Tasks, Attempt(t)
    PROVE  HonestInv'
  <1> USE Now
  <1> DEFINE s == Steps(t)
             T == DOMAIN setup.storages
  <1>step. PICK step \in StorageSteps : step = Step(t)
    BY ZenonT(40), AttemptDoes
  <1>flow. PICK flow \in Flows : flow = StepFlow(t)
    BY ZenonT(40), AttemptDoes
  <1>st. PICK st \in StorageRecord : st = StorageOf(flow)
    BY ZenonT(40), <1>flow, AttemptDoes
  <1>0. /\ s # <<>> /\ step = s[1][1] /\ setup.flows[flow].storage \in T
        /\ UNCHANGED <<setup, migrated, recorders, server, signal>>
    BY ZenonT(40), <1>step, <1>flow, AttemptDoes
  <1>1. PICK result, outcome, done : AttemptEnds(t, step, flow, st, result, outcome, done)
    BY ZenonT(40), <1>step, <1>flow, <1>st, AttemptDoes
  <1>2. /\ \A n \in T : storages[n].rows \ {Probe} \subseteq storages'[n].rows
        /\ step # "save" => \A n \in T : storages'[n].rows \subseteq storages[n].rows \cup {Probe}
        /\ outcome = "ok" /\ step = "save" => flow \in StorageOf(flow)'.rows
    <2>1. setup' = setup
      BY ZenonT(40), <1>0
    <2>2. StoragesAfter(step, flow, st, outcome)
      BY ZenonT(40), <1>0, <1>1, <1>st, <2>1, AttemptStorages
    <2> QED
      BY ZenonT(40), <2>2 DEF StoragesAfter
  <1>3. step = "save" => validated.set
    <2>1. step = "save" => Has(s, "save") /\ ~Has(s, "validated!")
      <3>1. 1 \in 1..Len(s)
        BY ZenonT(40), <1>0, FirstAt
      <3>2. Before(s, "validated!", "save")
        BY ZenonT(40) DEF Shape, ShapeOf
      <3> QED
        BY ZenonT(40), <1>0, <3>1, <3>2, FirstFact DEF Has
    <2> QED
      BY ZenonT(40), <1>0, <2>1 DEF OrderOf, Steps
  <1>4. validated'.set = validated.set
    <2>1. CASE Fail(t)
      BY <2>1 DEF Fail, Cell
    <2>2. CASE UNCHANGED validated
      BY <2>2
    <2> QED
      BY <1>1, <2>1, <2>2, ZenonT(40) DEF AttemptEnds
  <1>5. ~validated'.set => \A n \in T : storages'[n].rows \subseteq {Probe}
    BY ZenonT(40), <1>2, <1>3, <1>4 DEF HonestInv
  <1>6. \A f \in ghost.acked : f \in StorageOf(f)'.rows
    <2> SUFFICES ASSUME NEW f \in ghost.acked PROVE f \in StorageOf(f)'.rows
      BY ZenonT(40)
    <2>1. f \in Flows /\ f \in StorageOf(f).rows
      BY ZenonT(40) DEF HonestInv, PlainTypes
    <2>2. setup.flows[f].storage \in T /\ f # Probe
      BY ZenonT(40), <2>1, SetupAssumption DEF Flows
    <2> QED
      BY ZenonT(40), <1>0, <1>2, <2>1, <2>2 DEF StorageOf
  <1>7. tasks[t].method = "run_once" /\ step \in {"sample", "load", "save"} => Reached("load", st, flow) = "ok"
    <2> SUFFICES ASSUME tasks[t].method = "run_once", step \in {"sample", "load", "save"}
                 PROVE  Reached("load", st, flow) = "ok"
      BY ZenonT(40)
    <2>1. ~Has(s, "migrated!")
      <3>1. Before(s, "migrated!", step)
        BY ZenonT(40) DEF Shape, ShapeOf
      <3> QED
        BY <1>0, <3>1, FirstFact
    <2>2. migrated
      BY ZenonT(40), <1>0, <2>1 DEF OrderOf, Steps
    <2>3. st.kind = "mongodb" \/ st.tables = Migrations
      BY ZenonT(40), <1>st, <2>2 DEF LockInv, Complete
    <2> QED
      BY ZenonT(40), <2>3, ReachedIs
  <1>8. tasks[t].attempts \in Nat /\ AttemptOf(tasks[t])
    BY ZenonT(40), AttemptIs DEF TaskRecord
  <1>9. ASSUME outcome # "ok", ~Retried(step, st, outcome, tasks[t].attempts)
        PROVE  /\ step = "access" /\ outcome # "other" => tasks[t].attempts + 1 = ACCESS_PROBE_RETRY_ATTEMPTS
               /\ outcome = "serialization" /\ step \in {"sample", "load", "save"} =>
                     tasks[t].attempts + 1 = MAX_ATTEMPTS
    <2>1. ASSUME step = "access", outcome # "other" PROVE tasks[t].attempts + 1 = ACCESS_PROBE_RETRY_ATTEMPTS
      <3>1. ~(tasks[t].attempts + 1 < ACCESS_PROBE_RETRY_ATTEMPTS)
        BY <1>9, <2>1 DEF Retried, retry_transient
      <3>2. tasks[t].attempts = 0 \/ tasks[t].attempts < ACCESS_PROBE_RETRY_ATTEMPTS
        BY ZenonT(40), <1>0, <1>8, <2>1 DEF AttemptOf, Steps
      <3> QED
        BY ZenonT(40), <1>8, <3>1, <3>2, AttemptsAssumption, LastAttempt
    <2>2. ASSUME outcome = "serialization", step \in {"sample", "load", "save"}
          PROVE  tasks[t].attempts + 1 = MAX_ATTEMPTS
      <3>0. st.kind = "cockroachdb"
        BY <1>1, <2>2 DEF AttemptEnds
      <3>1. ~(tasks[t].attempts + 1 < MAX_ATTEMPTS)
        BY <1>9, <2>2, <3>0 DEF Retried, with_serialization_retry
      <3>2. tasks[t].attempts = 0 \/ tasks[t].attempts < MAX_ATTEMPTS
        BY ZenonT(40), <1>0, <1>8, <2>2 DEF AttemptOf, Steps
      <3> QED
        BY ZenonT(40), <1>8, <3>1, <3>2, AttemptsAssumption, LastAttempt
    <2> QED
      BY ZenonT(40), <2>1, <2>2
  <1>10. CASE /\ outcome = "ok"
              /\ ghost' = IF step = "save" THEN [ghost EXCEPT !.acked = @ \union {flow}] ELSE ghost
    <2>1. ghost'.surfaced = ghost.surfaced /\ ghost'.acked = IF step = "save" THEN ghost.acked \cup {flow} ELSE ghost.acked
      BY <1>10 DEF Ghosts
    <2> QED
      BY <1>0, <1>2, <1>5, <1>6, <1>10, <2>1 DEF HonestInv
  <1>11. CASE ghost' = ghost
    BY ZenonT(40), <1>0, <1>5, <1>6, <1>11 DEF HonestInv
  <1> DEFINE e == [step |-> step, kind |-> st.kind, outcome |-> outcome,
                   attempts |-> tasks[t].attempts + 1, method |-> tasks[t].method,
                   missing |-> Reached("load", st, flow) # "ok"]
  <1>12. CASE /\ outcome # "ok" /\ ~Retried(step, st, outcome, tasks[t].attempts)
              /\ ghost' = [ghost EXCEPT !.surfaced = @ \union {e}]
    <2>1. /\ e.step = step /\ e.outcome = outcome /\ e.attempts = tasks[t].attempts + 1
          /\ e.method = tasks[t].method /\ e.missing = (Reached("load", st, flow) # "ok")
      BY ZenonT(40)
    <2>2. ghost' = [ghost EXCEPT !.surfaced = @ \union {e}]
      BY <1>12
    <2> HIDE DEF e
    <2>3. SurfacedRight(e)
      BY ZenonT(40), <1>7, <1>9, <1>12, <2>1 DEF SurfacedRight
    <2>4. ghost'.surfaced = ghost.surfaced \cup {e} /\ ghost'.acked = ghost.acked
      BY <2>2 DEF Ghosts
    <2> QED
      BY ZenonT(40), <1>0, <1>5, <1>6, <2>3, <2>4 DEF HonestInv
  <1> QED
    BY <1>1, <1>10, <1>11, <1>12, ZenonT(40) DEF AttemptEnds

-----------------------------------------------------------------------------
(* The theorems.                                                           *)

\* The invariant holds when main starts.
LEMMA AppStarts == AppInit => AppInv /\ HonestInv
  <1> SUFFICES ASSUME AppInit PROVE AppInv /\ HonestInv
    OBVIOUS
  <1> USE DEF AppInit
  <1>0. setup \in Setups /\ NoTask \notin Tasks
    BY TaskNames
  <1>1. /\ ghost.assemblies = 0 /\ ghost.validations = 0 /\ ghost.migrations = 0 /\ ghost.acked = {}
        /\ ghost.surfaced = {} /\ DOMAIN ghost = Ghosts
    BY ZenonT(40) DEF Ghosts
  <1>2. /\ assembled.set = FALSE /\ assembled.by = NoTask /\ validated.set = FALSE
        /\ assembled \in Cell /\ validated \in Cell
    BY ZenonT(40) DEF Unset, Cell
  <1>3. setup.metrics \in {"enabled", "disabled"}
    BY ZenonT(40), <1>0, SetupAssumption
  <1>4. storages \in [DOMAIN setup.storages -> StorageRecord] /\ \A n \in DOMAIN setup.storages : storages[n].rows = {}
    <2>1. storages \in [DOMAIN setup.storages -> [kind : STRING, tables : 0..Migrations, create : BOOLEAN,
                                                  insert : BOOLEAN, rows : {{}}]]
      BY ZenonT(40), <1>0, SetupAssumption
    <2> QED
      BY ZenonT(40), <2>1 DEF StorageRecord
  <1>5. PlainTypes
    BY ZenonT(40), <1>0, <1>1, <1>2, <1>3, <1>4 DEF PlainTypes, Managers
  <1>6. \A t \in Tasks : /\ tasks[t].steps = <<>> /\ tasks[t].attempts = 0 /\ tasks[t] \in TaskRecord
    <2> SUFFICES ASSUME NEW t \in Tasks
                 PROVE  tasks[t].steps = <<>> /\ tasks[t].attempts = 0 /\ tasks[t] \in TaskRecord
      BY ZenonT(40)
    <2>1. PICK calls \in Seq(Methods) : calls = setup.programs[t]
      BY ZenonT(40), <1>0, SetupAssumption DEF Tasks
    <2>2. tasks[t] = [calls |-> calls, method |-> "none", steps |-> <<>>, attempts |-> 0]
      BY ZenonT(40), <2>1
    <2>3. <<>> \in Seq(StepSet) /\ 0 \in Nat
      BY ZenonT(40), NoStepsType
    <2> QED
      BY ZenonT(40), <2>2, <2>3 DEF TaskRecord
  <1>7. TaskTypes
    <2>1. tasks \in [Tasks -> TaskRecord]
      BY <1>6
    <2> QED
      BY <1>6, <2>1, EmptySteps DEF TaskTypes
  <1>8. \A n : ~Has(<<>>, n)
    BY ZenonT(40), EmptySteps
  <1>9. CellsInv
    BY ZenonT(40), <1>1, <1>2, <1>6, <1>8 DEF CellsInv, AtStep, InValidated, Steps
  <1>10. LockInv
    BY ZenonT(40), <1>1, <1>6, <1>8 DEF LockInv, InLock, Steps
  <1>11. OrderInv /\ AttemptInv
    BY ZenonT(40), <1>6 DEF OrderInv, AttemptInv, Steps
  <1>12. GuardInv
    BY ZenonT(40), <1>2, <1>3 DEF GuardInv
  <1>13. HonestInv
    BY ZenonT(40), <1>1, <1>4 DEF HonestInv
  <1> QED
    BY <1>5, <1>7, <1>9, <1>10, <1>11, <1>12, <1>13 DEF AppInv, AppTypes

\* Every step keeps the invariant.
LEMMA AppKeeps == AppInv /\ HonestInv /\ [AppNext]_appVars => (AppInv /\ HonestInv)'
  <1> SUFFICES ASSUME AppInv, HonestInv, [AppNext]_appVars PROVE AppInv' /\ HonestInv'
    OBVIOUS
  <1>1. ASSUME NEW t \in Tasks, TaskStep(t) PROVE AppInv' /\ HonestInv'
    <2>0. DOMAIN ghost = Ghosts /\ validated \in Cell
      BY Now
    <2>1. CASE Call(t)
      <3>1. UNCHANGED <<setup, storages, validated, ghost>>
        BY <2>1 DEF Call
      <3> QED
        BY <2>1, <3>1, CallKeeps, HonestStays
    <2>2. CASE EnterAssembled(t)
      <3>1. UNCHANGED <<setup, storages, validated>> /\ ghost'.acked = ghost.acked /\ ghost'.surfaced = ghost.surfaced
        BY <2>0, <2>2 DEF EnterAssembled, Ghosts
      <3> QED
        BY <2>2, <3>1, EnterAssembledKeeps, HonestStays
    <2>3. CASE Assemble(t)
      <3>1. UNCHANGED <<setup, storages, validated>> /\ ghost'.acked = ghost.acked /\ ghost'.surfaced = ghost.surfaced
        BY <2>0, <2>3 DEF Assemble, Ghosts
      <3> QED
        BY <2>3, <3>1, AssembleKeeps, HonestStays
    <2>4. CASE AssembleFails(t)
      <3>1. UNCHANGED <<setup, storages, ghost>> /\ validated'.set = validated.set
        BY <2>0, <2>4 DEF AssembleFails, Fail, Cell
      <3> QED
        BY <2>4, <3>1, AssembleFailsKeeps, HonestStays
    <2>5. CASE EnterValidated(t)
      <3>1. UNCHANGED <<setup, storages, ghost>> /\ validated'.set = validated.set
        BY <2>0, <2>5 DEF EnterValidated, Cell
      <3> QED
        BY <2>5, <3>1, EnterValidatedKeeps, HonestStays
    <2>6. CASE Validated(t)
      <3>1. UNCHANGED <<setup, storages>> /\ validated'.set /\ ghost'.acked = ghost.acked /\ ghost'.surfaced = ghost.surfaced
        BY <2>0, <2>6 DEF Validated, Ghosts
      <3> QED
        BY <2>6, <3>1, ValidatedKeeps, HonestStays
    <2>7. CASE CheckMigrated(t)
      <3>1. UNCHANGED <<setup, storages, validated, ghost>>
        BY <2>7 DEF CheckMigrated
      <3> QED
        BY <2>7, <3>1, CheckMigratedKeeps, HonestStays
    <2>8. CASE MigrateLock(t)
      <3>1. UNCHANGED <<setup, storages, validated, ghost>>
        BY <2>8 DEF MigrateLock
      <3> QED
        BY <2>8, <3>1, MigrateLockKeeps, HonestStays
    <2>9. CASE Migrated(t)
      <3>1. UNCHANGED <<setup, storages, validated>> /\ ghost'.acked = ghost.acked /\ ghost'.surfaced = ghost.surfaced
        BY <2>0, <2>9 DEF Migrated, Ghosts
      <3> QED
        BY <2>9, <3>1, MigratedKeeps, HonestStays
    <2>10. CASE Attempt(t)
      BY <2>10, AttemptKeeps, AttemptHonest
    <2>11. CASE spawn_metrics(t) \/ Daemon(t) \/ Abort(t) \/ Join(t)
      <3>1. UNCHANGED <<setup, storages, validated, ghost>>
        BY <2>11 DEF spawn_metrics, Daemon, Abort, Join
      <3> QED
        BY <2>11, <3>1, SmallStepsKeep, HonestStays
    <2> QED
      BY <1>1, <2>1, <2>2, <2>3, <2>4, <2>5, <2>6, <2>7, <2>8, <2>9, <2>10, <2>11 DEF TaskStep
  <1>2. CASE serve \/ Request \/ Respond \/ serve_on_listener \/ wait_for_shutdown \/ UNCHANGED appVars
    <2>1. UNCHANGED <<setup, storages, validated, ghost>>
      BY <1>2 DEF serve, Request, Respond, serve_on_listener, wait_for_shutdown, appVars
    <2> QED
      BY <1>2, <2>1, ServerKeeps, HonestStays
  <1> QED
    BY <1>1, <1>2 DEF AppNext

\* There is one metrics manager for the recorders of the flows.
LEMMA OneManager ==
    ASSUME GuardInv
    PROVE  MetricsKept
  <1> SUFFICES ASSUME setup.metrics = "enabled"
               PROVE  /\ \E h \in {"slot", "guard", "server"} :
                            \A g \in {"slot", "guard", "server"} : HoldsManager(g) <=> g = h
                      /\ assembled.set => recorders \/ ghost.spawned_first
    BY DEF MetricsKept
  <1>1. /\ HoldsManager("slot") <=> monitoring.slot = "enabled"
        /\ HoldsManager("guard") <=> monitoring.guard = "enabled"
        /\ HoldsManager("server") <=> server.state # "off"
    BY DEF HoldsManager
  <1>2. /\ \/ HoldsManager("slot") /\ ~HoldsManager("guard") /\ ~HoldsManager("server")
           \/ ~HoldsManager("slot") /\ HoldsManager("guard") /\ ~HoldsManager("server")
           \/ ~HoldsManager("slot") /\ ~HoldsManager("guard") /\ HoldsManager("server")
        /\ assembled.set => recorders \/ ghost.spawned_first
    BY <1>1 DEF GuardInv
  <1> QED
    BY <1>2

\* For any flows, storages, attempts and programs of the tasks: whatever the
\* interleaving and whatever fails, the flows are assembled, validated and
\* migrated once, the migrated flag is true of every storage, run_once never
\* meets a missing table, and the metrics manager is never lost.
\* (App::flows_assembled, flows_validated, migrate; MonitoringGuard.)
THEOREM StartSharedHolds == AppSpec => []StartShared
  <1>1. AppInv /\ HonestInv => StartShared
    <2> SUFFICES ASSUME AppInv, HonestInv PROVE StartShared
      OBVIOUS
    <2>1. StartedOnce
      <3>1. /\ ghost.assemblies = (IF assembled.set THEN 1 ELSE 0)
            /\ ghost.validations = (IF validated.set THEN 1 ELSE 0)
            /\ ghost.migrations = (IF migrated THEN 1 ELSE 0)
        BY ZenonT(40) DEF AppInv, CellsInv, LockInv
      <3>2. ghost.assemblies <= 1 /\ ghost.validations <= 1 /\ ghost.migrations <= 1
        BY <3>1
      <3>3. migrated => \A f \in Flows : Complete(f)
        BY ZenonT(40) DEF AppInv, LockInv
      <3> QED
        BY ZenonT(40), <3>2, <3>3 DEF HonestInv, Complete, StartedOnce, SurfacedRight
    <2>2. MetricsKept
      BY OneManager DEF AppInv
    <2> QED
      BY <2>1, <2>2 DEF StartShared
  <1> QED
    BY <1>1, AppStarts, AppKeeps, PTL DEF AppSpec

\* For any storages and failures of the backends: a save that was acknowledged
\* is in the storage, sampling saves nothing, and a transient error reaches
\* the caller only after the last attempt. (Storage::save_cursor, retry_transient,
\* with_serialization_retry.)
THEOREM StorageHonestHolds == AppSpec => []StorageHonest
  <1>1. AppInv /\ HonestInv => StorageHonest
    <2> SUFFICES ASSUME AppInv, HonestInv PROVE StorageHonest
      OBVIOUS
    <2>1. \A f \in Flows : setup.flows[f].storage \in DOMAIN setup.storages
      BY ZenonT(40), SetupAssumption DEF Flows, AppInv, AppTypes, PlainTypes
    <2>2. ~validated.set => \A f \in Flows : StorageOf(f).rows \subseteq {Probe}
      BY ZenonT(40), <2>1 DEF HonestInv, StorageOf
    <2> QED
      BY ZenonT(40), <2>2 DEF StorageHonest, HonestInv, SurfacedRight
  <1> QED
    BY <1>1, AppStarts, AppKeeps, PTL DEF AppSpec
=============================================================================
