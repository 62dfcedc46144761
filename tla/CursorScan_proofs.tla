------------------------- MODULE CursorScan_proofs --------------------------
(***************************************************************************)
(* For any number of cursor columns, any values, any table and any batch   *)
(* limit: the predicate of a cursor selects what the sort puts after it,   *)
(* no row is skipped, and the cursor of an exact flow moves forward.       *)
(***************************************************************************)
EXTENDS CursorScan, DataLemmas

\* What a step that names no prover is tried with: the translation of a large
\* obligation for the SMT solver may be cut short, and is then repeated.
USE SMTT(15), ZenonT(20), Z3T(15), SMTT(20)

-----------------------------------------------------------------------------
(* The order of the sort.                                                  *)

\* What the proofs use of a key.
LEMMA KeyTypes ==
    ASSUME flow \in Flows, NEW a \in Keys(flow)
    PROVE  /\ flow.width \in Nat
           /\ \A i \in Pos : a[i] \in Nat /\ (a[i] = 0 => i \in flow.nullable)
           /\ a = [i \in Pos |-> a[i]]
  BY ScanAssumption DEF Keys, Pos, NULL

\* Two keys that differ are ordered.
LEMMA BeforeTotal ==
    ASSUME flow \in Flows, NEW a \in Keys(flow), NEW b \in Keys(flow), a # b
    PROVE  Before(a, b) \/ Before(b, a)
  <1> DEFINE D == {i \in Pos : a[i] # b[i]}
  <1>a. \E i \in Pos : a[i] # b[i]
    <2> SUFFICES ASSUME \A i \in Pos : a[i] = b[i] PROVE FALSE
      OBVIOUS
    <2>1. a = [i \in Pos |-> a[i]] /\ b = [i \in Pos |-> b[i]]
      BY KeyTypes
    <2>2. [i \in Pos |-> a[i]] = [i \in Pos |-> b[i]]
      OBVIOUS
    <2> QED
      BY <2>1, <2>2, ZenonT(40)
  <1>1. D \in SUBSET Nat /\ D # {}
    BY <1>a, KeyTypes DEF Pos
  <1>2. PICK k \in D : \A i \in D : k <= i
    BY ZenonT(40), <1>1, NatMin
  <1>3. \A i \in 1..(k - 1) : i \in Pos /\ ~(k <= i)
    BY <1>2, KeyTypes DEF Pos
  <1>4. \A i \in 1..(k - 1) : a[i] = b[i]
    BY <1>2, <1>3
  <1>5. a[k] < b[k] \/ a[k] > b[k]
    BY <1>2, KeyTypes
  <1> QED
    BY <1>2, <1>4, <1>5 DEF Before

\* No key comes before itself, and the order is transitive.
LEMMA BeforeOrder ==
    ASSUME flow \in Flows
    PROVE  /\ \A a \in Keys(flow) : ~Before(a, a)
           /\ \A a, b, c \in Keys(flow) : Before(a, b) /\ Before(b, c) => Before(a, c)
  <1>1. ASSUME NEW a \in Keys(flow) PROVE ~Before(a, a)
    BY KeyTypes DEF Before
  <1>2. ASSUME NEW a \in Keys(flow), NEW b \in Keys(flow), NEW c \in Keys(flow),
               Before(a, b), Before(b, c)
        PROVE  Before(a, c)
    <2>1. PICK k \in Pos : /\ \A i \in 1..(k - 1) : a[i] = b[i]
                           /\ IF flow.order = "asc" THEN a[k] < b[k] ELSE a[k] > b[k]
      BY <1>2 DEF Before
    <2>2. PICK m \in Pos : /\ \A i \in 1..(m - 1) : b[i] = c[i]
                           /\ IF flow.order = "asc" THEN b[m] < c[m] ELSE b[m] > c[m]
      BY <1>2 DEF Before
    <2>3. /\ k \in Nat /\ m \in Nat
          /\ a[k] \in Nat /\ b[k] \in Nat /\ c[k] \in Nat
          /\ a[m] \in Nat /\ b[m] \in Nat /\ c[m] \in Nat
      BY KeyTypes DEF Pos
    <2>4. CASE k < m
      <3>1. k \in 1..(m - 1) /\ \A i \in 1..(k - 1) : i \in 1..(m - 1)
        BY <2>3, <2>4 DEF Pos
      <3> QED
        BY <2>1, <2>2, <2>3, <3>1 DEF Before
    <2>5. CASE m < k
      <3>1. m \in 1..(k - 1) /\ \A i \in 1..(m - 1) : i \in 1..(k - 1)
        BY <2>3, <2>5 DEF Pos
      <3> QED
        BY <2>1, <2>2, <2>3, <3>1 DEF Before
    <2>6. CASE k = m
      BY <2>1, <2>2, <2>3, <2>6 DEF Before
    <2> QED
      BY <2>3, <2>4, <2>5, <2>6
  <1> QED
    BY <1>1, <1>2

\* The rows of a table are finitely many.
LEMMA KeysFinite ==
    ASSUME flow \in Flows
    PROVE  IsFiniteSet(Keys(flow))
  <1>1. flow.width \in Nat /\ MaxVal \in Nat
    BY ScanAssumption
  <1>2. IsFiniteSet(NULL..MaxVal)
    BY <1>1, FS_Interval DEF NULL
  <1>3. IsFiniteSet([1..flow.width -> NULL..MaxVal])
    BY ZenonT(40), <1>1, <1>2, FiniteFunctions
  <1> QED
    BY <1>3, FS_Subset, Keys(flow) \in SUBSET [1..flow.width -> NULL..MaxVal] DEF Keys

\* Rows of the table have a first and a last one among them.
LEMMA FirstAndLast ==
    ASSUME flow \in Flows, NEW S \in SUBSET Keys(flow), S # {}
    PROVE  /\ \E r \in S : \A s \in S : ~Before(s, r)
           /\ LastOf(S) \in S
           /\ \A s \in S : s = LastOf(S) \/ Before(s, LastOf(S))
  <1> DEFINE R == {p \in S \X S : Before(p[1], p[2])}
             Q == {p \in S \X S : Before(p[2], p[1])}
  <1>1. IsFiniteSet(S)
    BY KeysFinite, FS_Subset
  <1>2. \A a \in S : ~Before(a, a)
    BY BeforeOrder
  <1>3. \A a, b, c \in S : Before(a, b) /\ Before(b, c) => Before(a, c)
    BY BeforeOrder
  <1>4. /\ \A a, b : <<a, b>> \in R <=> a \in S /\ b \in S /\ Before(a, b)
        /\ \A a, b : <<a, b>> \in Q <=> a \in S /\ b \in S /\ Before(b, a)
    OBVIOUS
  <1> HIDE DEF R, Q
  <1>5. \E r \in S : \A s \in S : <<s, r>> \notin R
    BY <1>1, <1>2, <1>3, <1>4, FiniteMinimal
  <1>6. PICK l \in S : \A s \in S : <<s, l>> \notin Q
    BY <1>1, <1>2, <1>3, <1>4, FiniteMinimal
  <1>7. \A s \in S : s = l \/ Before(s, l)
    BY ZenonT(40), <1>4, <1>6, BeforeTotal
  <1>8. LastOf(S) \in S /\ \A s \in S : s = LastOf(S) \/ Before(s, LastOf(S))
    BY <1>7 DEF LastOf
  <1> QED
    BY ZenonT(40), <1>4, <1>5, <1>8
-----------------------------------------------------------------------------
(* The predicates.                                                         *)

Values3 == {"true", "false", "unknown"}

\* When a disjunction or a conjunction of SQL truth values is true.
LEMMA Logic3 ==
    /\ \A S : Or3(S) = "true" <=> "true" \in S
    /\ \A S \in SUBSET Values3 : And3(S) = "true" <=> \A x \in S : x = "true"
  BY DEF And3, Or3, Values3

\* When a comparison is true.
LEMMA Compare3True ==
    ASSUME NEW x, NEW y
    PROVE  /\ Cmp3(x, y) \in Values3 /\ Eq3(x, y) \in Values3
           /\ Cmp3(x, y) = "true" <=> /\ x # NULL /\ y # NULL
                                      /\ IF flow.order = "asc" THEN x > y ELSE x < y
           /\ Eq3(x, y) = "true" <=> x # NULL /\ y # NULL /\ x = y
           /\ \A b \in BOOLEAN : Truth(b) \in Values3 /\ (Truth(b) = "true" <=> b)
  BY DEF Cmp3, Eq3, Compare3, Truth, Values3

\* The row comparison (c1, c2) > ($1, $2) holds at the first column that
\* differs, if no column up to it is NULL.
LEMMA PlainTrue ==
    ASSUME NEW r, NEW c
    PROVE  PlainTupleCompare(r, c) = "true" <=>
               \E k \in Pos : /\ \A i \in 1..(k - 1) : Eq3(r[i], c[i]) = "true"
                              /\ Cmp3(r[k], c[k]) = "true"
  <1> DEFINE S(k) == {Eq3(r[i], c[i]) : i \in 1..(k - 1)} \cup {Cmp3(r[k], c[k])}
  <1>1. \A k : S(k) \in SUBSET Values3
    BY Compare3True
  <1>2. \A k : And3(S(k)) = "true" <=> /\ \A i \in 1..(k - 1) : Eq3(r[i], c[i]) = "true"
                                       /\ Cmp3(r[k], c[k]) = "true"
    BY <1>1, Logic3
  <1>3. PlainTupleCompare(r, c) = Or3({And3(S(k)) : k \in Pos})
    BY DEF PlainTupleCompare
  <1> HIDE DEF S
  <1>4. PlainTupleCompare(r, c) = "true" <=> \E k \in Pos : And3(S(k)) = "true"
    BY <1>3, Logic3
  <1> QED
    BY <1>2, <1>4

\* A clause of the NULL-aware predicate is true when the columns before it are
\* equal, NULL to NULL, and its own is after the cursor's; a descending one
\* also when its own is less, whatever the columns before it.
LEMMA ClauseTrue ==
    ASSUME NEW r, NEW c, NEW k
    PROVE  Clause(r, c, k) = "true" <=>
               LET eq == \A i \in 1..(k - 1) : r[i] = c[i]
               IN  IF c[k] = NULL THEN eq /\ r[k] # NULL
                   ELSE IF flow.order = "asc" THEN eq /\ Cmp3(r[k], c[k]) = "true"
                   ELSE (eq /\ r[k] = NULL) \/ Cmp3(r[k], c[k]) = "true"
  <1> DEFINE E == NullableEq(r, c, k)
             eq == \A i \in 1..(k - 1) : r[i] = c[i]
  <1>1. E \in SUBSET Values3 /\ ((\A x \in E : x = "true") <=> eq)
    BY DEF NullableEq, Truth, Values3
  <1>2. ASSUME NEW x \in Values3
        PROVE  And3(E \cup {x}) = "true" <=> eq /\ x = "true"
    <2>1. E \cup {x} \in SUBSET Values3
      BY <1>1
    <2> HIDE DEF E, eq
    <2> QED
      BY <1>1, <2>1, Logic3
  <1>3. /\ Truth(r[k] # NULL) \in Values3 /\ (Truth(r[k] # NULL) = "true" <=> r[k] # NULL)
        /\ Truth(r[k] = NULL) \in Values3 /\ (Truth(r[k] = NULL) = "true" <=> r[k] = NULL)
        /\ Cmp3(r[k], c[k]) \in Values3
    BY ZenonT(40), Compare3True
  <1>4. \A x, y : Or3({x, y}) = "true" <=> x = "true" \/ y = "true"
    BY DEF Or3
  <1>5. Clause(r, c, k) =
          IF c[k] = NULL THEN And3(E \cup {Truth(r[k] # NULL)})
          ELSE IF flow.order = "asc" THEN And3(E \cup {Cmp3(r[k], c[k])})
          ELSE Or3({And3(E \cup {Truth(r[k] = NULL)}), Cmp3(r[k], c[k])})
    BY DEF Clause
  <1> HIDE DEF E, eq
  <1>6. Clause(r, c, k) = "true" <=>
          IF c[k] = NULL THEN eq /\ r[k] # NULL
          ELSE IF flow.order = "asc" THEN eq /\ Cmp3(r[k], c[k]) = "true"
          ELSE (eq /\ r[k] = NULL) \/ Cmp3(r[k], c[k]) = "true"
    <2>1. /\ And3(E \cup {Truth(r[k] # NULL)}) = "true" <=> eq /\ r[k] # NULL
          /\ And3(E \cup {Truth(r[k] = NULL)}) = "true" <=> eq /\ r[k] = NULL
          /\ And3(E \cup {Cmp3(r[k], c[k])}) = "true" <=> eq /\ Cmp3(r[k], c[k]) = "true"
      BY <1>2, <1>3, ZenonT(40)
    <2>2. CASE c[k] = NULL
      BY <1>5, <2>1, <2>2, ZenonT(40)
    <2>3. CASE c[k] # NULL /\ flow.order = "asc"
      BY <1>5, <2>1, <2>3, ZenonT(40)
    <2>4. CASE c[k] # NULL /\ flow.order # "asc"
      BY <1>4, <1>5, <2>1, <2>4, ZenonT(40)
    <2> QED
      BY <2>2, <2>3, <2>4, ZenonT(40)
  <1> QED
    BY <1>6 DEF eq

\* The NULL-aware predicate is true when a clause is.
LEMMA NullAwareTrue ==
    ASSUME NEW r, NEW c
    PROVE  NullAwareGt(r, c) = "true" <=> \E k \in Kept(c) : Clause(r, c, k) = "true"
  BY Logic3 DEF NullAwareGt
\* Every row that the sort puts after the cursor matches the filter.
LEMMA FilterCovers ==
    ASSUME flow \in Flows, Covers,
           NEW c \in Keys(flow), NEW r \in Keys(flow), cursor = {c}, Before(c, r)
    PROVE  Matches(r)
  <1>0. flow.order \in {"asc", "desc"}
    BY ScanAssumption
  <1>1. PICK k \in Pos : /\ \A i \in 1..(k - 1) : c[i] = r[i]
                         /\ IF flow.order = "asc" THEN c[k] < r[k] ELSE c[k] > r[k]
    BY DEF Before
  <1>2. /\ k \in Nat /\ c[k] \in Nat /\ r[k] \in Nat
        /\ \A i \in 1..(k - 1) : i \in Pos
    BY KeyTypes DEF Pos
  <1>3. k \in Kept(c)
    BY <1>1, <1>2 DEF Kept, NULL
  <1>4. c[k] # NULL /\ r[k] # NULL => Cmp3(r[k], c[k]) = "true"
    BY <1>1, <1>2, Compare3True
  <1>5. CASE flow.dialect = "mongodb"
    <2>1. r[k] # NULL
      BY <1>0, <1>1, <1>2, <1>5, KeyTypes DEF Covers, NULL
    <2>2. MongoBranch(r, c, k)
      BY <1>1, <1>4, <2>1 DEF MongoBranch
    <2> QED
      BY <1>3, <1>5, <2>2 DEF Matches
  <1>6. CASE flow.dialect # "mongodb" /\ NeedsNullAware(c)
    <2>1. Clause(r, c, k) = "true"
      BY <1>1, <1>2, <1>4, ClauseTrue DEF NULL
    <2>2. NullAwareGt(r, c) = "true"
      BY <1>3, <2>1, NullAwareTrue
    <2> QED
      BY <1>6, <2>2 DEF Matches
  <1>7. CASE flow.dialect # "mongodb" /\ ~NeedsNullAware(c)
    <2>1. \A i \in Pos : c[i] # NULL
      BY <1>7 DEF NeedsNullAware
    <2>2. r[k] # NULL
      BY <1>0, <1>1, <1>2, <1>7, KeyTypes DEF NeedsNullAware, NULL
    <2>3. \A i \in 1..(k - 1) : Eq3(r[i], c[i]) = "true"
      BY <1>1, <1>2, <2>1, Compare3True
    <2>4. PlainTupleCompare(r, c) = "true"
      BY <1>4, <2>1, <2>2, <2>3, PlainTrue
    <2> QED
      BY <1>7, <2>4 DEF Matches
  <1> QED
    BY <1>5, <1>6, <1>7

\* The filter of an exact flow matches no other row.
LEMMA FilterNarrow ==
    ASSUME flow \in Flows, Exact,
           NEW c \in Keys(flow), NEW r \in Keys(flow), cursor = {c}, Matches(r)
    PROVE  Before(c, r)
  <1>1. ASSUME NEW k \in Pos, \A i \in 1..(k - 1) : r[i] = c[i],
               \/ c[k] = NULL /\ r[k] # NULL /\ flow.order = "asc"
               \/ Cmp3(r[k], c[k]) = "true"
        PROVE  Before(c, r)
    <2>1. c[k] \in Nat /\ r[k] \in Nat
      BY KeyTypes
    <2>2. IF flow.order = "asc" THEN c[k] < r[k] ELSE c[k] > r[k]
      BY <1>1, <2>1, Compare3True DEF NULL
    <2> QED
      BY <1>1, <2>2 DEF Before
  <1>2. CASE flow.dialect = "mongodb"
    <2>1. PICK k \in Kept(c) : MongoBranch(r, c, k)
      BY <1>2 DEF Matches
    <2>2. k \in Pos /\ (c[k] = NULL => flow.order = "asc")
      BY DEF Kept
    <2> QED
      BY <1>1, <2>1, <2>2 DEF MongoBranch
  <1>3. CASE flow.dialect # "mongodb" /\ NeedsNullAware(c)
    <2>1. NullAwareGt(r, c) = "true"
      BY <1>3 DEF Matches
    <2>2. PICK k \in Kept(c) : Clause(r, c, k) = "true"
      BY <2>1, NullAwareTrue
    <2>3. k \in Pos /\ (c[k] = NULL => flow.order = "asc")
      BY DEF Kept
    <2>4. CASE flow.order = "asc"
      BY <1>1, <2>2, <2>3, <2>4, ClauseTrue
    <2>5. CASE flow.order # "asc"
      <3>1. flow.nullable # {}
        BY <1>3, <2>5, KeyTypes DEF NeedsNullAware, NULL
      <3>2. flow.width = 1
        BY <2>5, <3>1 DEF Exact
      <3>3. k = 1 /\ \A i \in 1..(k - 1) : r[i] = c[i]
        BY <2>3, <3>2 DEF Pos
      <3>4. r[k] = NULL \/ Cmp3(r[k], c[k]) = "true"
        BY <2>2, <2>3, <2>5, ClauseTrue
      <3>5. CASE r[k] = NULL
        <4>1. c[k] \in Nat /\ c[k] # NULL
          BY <2>3, <2>5, KeyTypes
        <4> QED
          BY <2>3, <2>5, <3>3, <3>5, <4>1 DEF Before, NULL
      <3> QED
        BY <1>1, <2>3, <3>3, <3>4, <3>5
    <2> QED
      BY <2>4, <2>5
  <1>4. CASE flow.dialect # "mongodb" /\ ~NeedsNullAware(c)
    <2>1. PlainTupleCompare(r, c) = "true"
      BY <1>4 DEF Matches
    <2>2. PICK k \in Pos : /\ \A i \in 1..(k - 1) : Eq3(r[i], c[i]) = "true"
                           /\ Cmp3(r[k], c[k]) = "true"
      BY <2>1, PlainTrue
    <2>3. \A i \in 1..(k - 1) : r[i] = c[i]
      BY <2>2, Compare3True
    <2> QED
      BY <1>1, <2>2, <2>3
  <1> QED
    BY <1>2, <1>3, <1>4

\* The statement of an exact flow binds a value for each of its places.
LEMMA BindsAgree ==
    ASSUME flow \in Flows, cursor \subseteq Keys(flow), Exact
    PROVE  Accepted
  <1> SUFFICES ASSUME NEW c \in cursor, NeedsNullAware(c)
               PROVE  Placeholders(c) = Pushed(c)
    BY DEF Accepted
  <1>1. CASE flow.order = "asc"
    BY <1>1 DEF Placeholders, Pushed, Kept
  <1>2. CASE flow.order # "asc"
    <2>1. flow.nullable # {}
      BY <1>2, KeyTypes DEF NeedsNullAware, NULL
    <2>2. flow.width = 1
      BY <1>2, <2>1 DEF Exact
    <2>3. Pos = {1}
      BY <2>2 DEF Pos
    <2> QED
      BY <2>3 DEF Placeholders, Pushed, Kept
  <1> QED
    BY <1>1, <1>2

-----------------------------------------------------------------------------
(* The scan.                                                               *)

\* The inductive invariant: the cursor is a row, the last of a batch, and what
\* it has passed was read.
ScanInv ==
    /\ flow \in Flows /\ table \subseteq Keys(flow) /\ read \subseteq table
    /\ cursor = {} \/ \E c \in table : cursor = {c}
    /\ drained \in BOOLEAN
    /\ NothingSkipped

\* The filter, at any cursor of the scan.
LEMMA SelectedRows ==
    ASSUME ScanInv
    PROVE  /\ Selected \subseteq table
           /\ cursor = {} => Selected = table
           /\ \A c \in cursor : /\ c \in Keys(flow) /\ cursor = {c}
                                /\ Covers => After(c) \subseteq Selected
                                /\ Exact => Selected \subseteq After(c)
           /\ BindsMatch
  <1>1. Selected \subseteq table /\ (cursor = {} => Selected = table)
    BY DEF Selected, Matches
  <1>2. ASSUME NEW c \in cursor
        PROVE  /\ c \in Keys(flow) /\ cursor = {c}
               /\ Covers => After(c) \subseteq Selected
               /\ Exact => Selected \subseteq After(c)
    <2>1. c \in Keys(flow) /\ cursor = {c}
      BY <1>2 DEF ScanInv
    <2> QED
      BY <2>1, FilterCovers, FilterNarrow DEF ScanInv, After, Selected
  <1>3. BindsMatch
    BY BindsAgree DEF ScanInv, BindsMatch
  <1> QED
    BY <1>1, <1>2, <1>3

\* A batch is a piece of the selected rows that begins at the first of them.
LEMMA BatchRows ==
    ASSUME ScanInv
    PROVE  /\ Batch \subseteq Selected
           /\ Batch = {} => Selected = {}
           /\ \A r \in Batch, s \in Selected : Before(s, r) => s \in Batch
  <1> DEFINE Pre(r) == {s \in Selected : Before(s, r)}
  <1>0. /\ flow \in Flows /\ Selected \in SUBSET Keys(flow) /\ Limit \in Nat \ {0}
        /\ Batch = {r \in Selected : Cardinality(Pre(r)) < Limit}
    BY SelectedRows, ScanAssumption DEF ScanInv, Batch
  <1>1. \A r : IsFiniteSet(Pre(r)) /\ Cardinality(Pre(r)) \in Nat
    <2>1. IsFiniteSet(Selected)
      BY <1>0, KeysFinite, FS_Subset
    <2>2. \A r : Pre(r) \in SUBSET Selected
      OBVIOUS
    <2> QED
      BY <2>1, <2>2, FS_Subset, FS_CardinalityType
  <1>2. ASSUME NEW r \in Batch, NEW s \in Selected, Before(s, r)
        PROVE  s \in Batch
    <2>1. Pre(s) \in SUBSET Pre(r)
      BY <1>0, <1>2, BeforeOrder
    <2>2. Cardinality(Pre(s)) <= Cardinality(Pre(r))
      BY <1>1, <2>1, FS_Subset
    <2>3. Cardinality(Pre(r)) < Limit
      BY <1>0
    <2> HIDE DEF Pre
    <2>4. Cardinality(Pre(s)) < Limit
      BY <1>0, <1>1, <2>2, <2>3
    <2> QED
      BY <1>0, <2>4
  <1>3. ASSUME Selected # {} PROVE Batch # {}
    <2>1. PICK r \in Selected : \A s \in Selected : ~Before(s, r)
      BY ZenonT(40), <1>0, <1>3, FirstAndLast
    <2>2. Pre(r) = {}
      BY <2>1
    <2>3. Cardinality(Pre(r)) = 0
      BY <2>2, FS_EmptySet
    <2> QED
      BY <1>0, <2>3
  <1> QED
    BY ZenonT(40), <1>0, <1>2, <1>3

\* The first read starts from nothing.
LEMMA ScanInit == Init => ScanInv
  BY ZenonT(40) DEF Init, ScanInv, NothingSkipped

\* No read skips a row.
LEMMA ScanStep == ScanInv /\ [Next]_vars => ScanInv'
  <1> SUFFICES ASSUME ScanInv, [Next]_vars PROVE ScanInv'
    OBVIOUS
  <1>1. CASE ReadBatch
    <2> DEFINE d == LastOf(Batch)
    <2>1. /\ flow' = flow /\ table' = table /\ drained' = FALSE
          /\ read' = read \cup Batch /\ cursor' = {d}
      BY <1>1 DEF ReadBatch
    <2>2. /\ flow \in Flows /\ table \subseteq Keys(flow) /\ read \subseteq table
          /\ Batch \in SUBSET table /\ Batch \in SUBSET Keys(flow)
      BY BatchRows, SelectedRows DEF ScanInv
    <2>3. d \in Batch /\ d \in table
      BY <1>1, <2>2, FirstAndLast DEF ReadBatch
    <2>4. ASSUME Covers, NEW r \in table, ~Before(d, r), r \notin Batch
          PROVE  r \in read
      <3>1. Before(r, d)
        BY <2>2, <2>3, <2>4, BeforeTotal
      <3>2. r \notin Selected
        BY <2>3, <2>4, <3>1, BatchRows
      <3>3. PICK c \in cursor : cursor = {c} /\ After(c) \subseteq Selected
        BY <2>4, <3>2, SelectedRows
      <3>4. r \in table \ After(c)
        BY <3>2, <3>3
      <3> QED
        BY <2>4, <3>4 DEF ScanInv, NothingSkipped
    <2>5. Covers' <=> Covers
      BY <2>1 DEF Covers
    <2>6. NothingSkipped'
      <3> SUFFICES ASSUME Covers
                   PROVE  table \ {r \in table : Before(d, r)} \subseteq read \cup Batch
        BY <2>1, <2>5 DEF NothingSkipped, After, Before, Pos
      <3> QED
        BY <2>4
    <2> QED
      BY ZenonT(40), <2>1, <2>2, <2>3, <2>6 DEF ScanInv
  <1>2. CASE ReadEmpty
    <2>1. /\ flow' = flow /\ table' = table /\ drained' = TRUE
          /\ read' = read /\ cursor' = cursor /\ Batch = {}
      BY <1>2 DEF ReadEmpty
    <2>2. Selected = {}
      BY <2>1, BatchRows
    <2>3. ASSUME Covers PROVE read = table
      <3>1. CASE cursor = {}
        BY <2>2, <3>1, SelectedRows DEF ScanInv
      <3>2. CASE cursor # {}
        <4>1. PICK c \in cursor : After(c) \subseteq Selected
          BY <2>3, <3>2, SelectedRows
        <4> QED
          BY <2>2, <2>3, <4>1 DEF ScanInv, NothingSkipped
      <3> QED
        BY <3>1, <3>2
    <2>4. NothingSkipped'
      BY <2>1, <2>3 DEF ScanInv, NothingSkipped, Covers, After, Before, Pos
    <2> QED
      BY <2>1, <2>4 DEF ScanInv
  <1>3. CASE ReadRefused \/ UNCHANGED vars
    <2>1. UNCHANGED vars
      BY <1>3 DEF ReadRefused
    <2> QED
      BY <2>1 DEF vars, ScanInv, NothingSkipped, Covers, After, Before, Pos
  <1> QED
    BY <1>1, <1>2, <1>3 DEF Next

\* The invariant holds throughout.
LEMMA ScanSafe == Spec => []ScanInv
  BY ScanInit, ScanStep, PTL DEF Spec

\* For any number of columns: null_aware_gt, the row comparison and the $or
\* cascade select every row that the sort puts after the cursor of a covered
\* flow; of an exact flow they select no other and bind as many values as they
\* have places.  A descending SQL cursor over several columns, one nullable, is
\* covered but not exact: it does select rows before the cursor.
THEOREM FilterSoundHolds == Spec => []FilterSound
  <1>1. ScanInv => FilterSound
    BY SelectedRows DEF FilterSound
  <1> QED
    BY <1>1, ScanSafe, PTL

\* Sort, limit and next cursor together skip no row, and a scan that ends has
\* read the table.
THEOREM NothingSkippedHolds == Spec => []NothingSkipped
  <1>1. ScanInv => NothingSkipped
    BY DEF ScanInv
  <1> QED
    BY <1>1, ScanSafe, PTL

\* The cursor of an exact flow never moves back.
THEOREM CursorAdvancesHolds == Spec => CursorAdvances
  <1>1. ScanInv /\ [Next]_vars =>
          [Exact => \A c \in cursor, d \in cursor' : c = d \/ Before(c, d)]_vars
    <2> SUFFICES ASSUME ScanInv, [Next]_vars, Exact, NEW c \in cursor, NEW d \in cursor'
                 PROVE  c = d \/ Before(c, d)
      OBVIOUS
    <2>1. CASE ReadBatch
      <3>1. d = LastOf(Batch) /\ Batch # {} /\ Batch \in SUBSET Keys(flow)
        BY <2>1, BatchRows, SelectedRows DEF ReadBatch, ScanInv
      <3>2. d \in Selected
        BY <3>1, BatchRows, FirstAndLast DEF ScanInv
      <3> QED
        BY <3>2, SelectedRows DEF After
    <2>2. CASE ReadEmpty \/ ReadRefused \/ UNCHANGED vars
      BY <2>2 DEF ReadEmpty, ReadRefused, vars, ScanInv
    <2> QED
      BY <2>1, <2>2 DEF Next
  <1> QED
    BY <1>1, ScanSafe, PTL DEF Spec, CursorAdvances
=============================================================================
