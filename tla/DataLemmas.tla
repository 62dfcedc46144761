----------------------------- MODULE DataLemmas -----------------------------
(***************************************************************************)
(* Facts about the data of several models.  Queues without duplicates: the *)
(* waiters of FlowEngine's semaphores and the keys of FifoCache.  Least    *)
(* numbers and finite sets of functions, from which follow the orders and  *)
(* limits of CursorScan and the last rows of SinkWrite.                    *)
(***************************************************************************)
EXTENDS Naturals, Sequences, Functions, FiniteSetsExt, FiniteSetTheorems, TLAPS

\* What a step that names no prover is tried with: the translation of a large
\* obligation for the SMT solver may be cut short, and is then repeated.
USE SMTT(15), ZenonT(20), Z3T(15), SMTT(20)

\* Joining a queue adds one member, at its end.
LEMMA AppendQueue ==
    ASSUME NEW S, NEW s \in Seq(S), NEW e \in S, e \notin Range(s), IsInjective(s)
    PROVE  /\ Append(s, e) \in Seq(S)
           /\ Range(Append(s, e)) = Range(s) \cup {e}
           /\ IsInjective(Append(s, e))
  <1>1. Append(s, e) \in Seq(S)
    OBVIOUS
  <1>2. /\ DOMAIN Append(s, e) = 1..(Len(s) + 1)
        /\ DOMAIN s = 1..Len(s)
        /\ \A i \in 1..Len(s) : Append(s, e)[i] = s[i]
        /\ Append(s, e)[Len(s) + 1] = e
        /\ Len(s) \in Nat
    OBVIOUS
  <1>3. \A i \in 1..(Len(s) + 1) : i \in 1..Len(s) \/ i = Len(s) + 1
    BY <1>2
  <1>4. Len(s) + 1 \in 1..(Len(s) + 1) /\ 1..Len(s) \subseteq 1..(Len(s) + 1)
    BY <1>2
  <1>5. Range(Append(s, e)) = Range(s) \cup {e}
    BY <1>2, <1>3, <1>4, ZenonT(40) DEF Range
  <1>6. IsInjective(Append(s, e))
    <2> SUFFICES ASSUME NEW i \in 1..(Len(s) + 1), NEW j \in 1..(Len(s) + 1),
                        Append(s, e)[i] = Append(s, e)[j]
                 PROVE  i = j
      BY <1>2, ZenonT(40) DEF IsInjective
    <2> QED
      BY <1>2, <1>3 DEF IsInjective, Range
  <1> QED
    BY <1>1, <1>5, <1>6

\* Leaving it removes the first member and no other.
LEMMA TailQueue ==
    ASSUME NEW S, NEW s \in Seq(S), s # <<>>, IsInjective(s)
    PROVE  /\ Tail(s) \in Seq(S)
           /\ Head(s) \in S /\ Head(s) \in Range(s)
           /\ Range(Tail(s)) = Range(s) \ {Head(s)}
           /\ IsInjective(Tail(s))
  <1>1. /\ Tail(s) \in Seq(S) /\ Head(s) \in S
        /\ Len(s) \in Nat /\ Len(s) >= 1
        /\ DOMAIN s = 1..Len(s) /\ DOMAIN Tail(s) = 1..(Len(s) - 1)
        /\ Head(s) = s[1]
        /\ \A i \in 1..(Len(s) - 1) : Tail(s)[i] = s[i + 1]
    OBVIOUS
  <1>2. Head(s) \in Range(s)
    BY <1>1 DEF Range
  <1>3. ASSUME NEW x \in Range(Tail(s))
        PROVE  x \in Range(s) \ {Head(s)}
    <2>1. PICK i \in 1..(Len(s) - 1) : x = Tail(s)[i]
      BY <1>1 DEF Range
    <2>2. i + 1 \in DOMAIN s /\ 1 \in DOMAIN s /\ i + 1 # 1 /\ x = s[i + 1]
      BY <1>1, <2>1
    <2> QED
      BY <1>1, <2>2, ZenonT(40) DEF Range, IsInjective
  <1>4. ASSUME NEW x \in Range(s) \ {Head(s)}
        PROVE  x \in Range(Tail(s))
    <2>1. PICK i \in 1..Len(s) : x = s[i]
      BY <1>1 DEF Range
    <2>2. i # 1
      BY <1>1, <2>1
    <2>3. i - 1 \in 1..(Len(s) - 1) /\ (i - 1) + 1 = i
      BY <1>1, <2>2
    <2>4. Tail(s)[i - 1] = x
      BY <1>1, <2>1, <2>3
    <2> QED
      BY <1>1, <2>3, <2>4, ZenonT(40) DEF Range
  <1>5. IsInjective(Tail(s))
    <2> SUFFICES ASSUME NEW i \in 1..(Len(s) - 1), NEW j \in 1..(Len(s) - 1),
                        Tail(s)[i] = Tail(s)[j]
                 PROVE  i = j
      BY <1>1, ZenonT(40) DEF IsInjective
    <2>1. s[i + 1] = s[j + 1] /\ i + 1 \in DOMAIN s /\ j + 1 \in DOMAIN s
      BY <1>1
    <2>2. i + 1 = j + 1
      BY <2>1, ZenonT(40) DEF IsInjective
    <2> QED
      BY <2>2
  <1> QED
    BY <1>1, <1>2, <1>3, <1>4, <1>5

-----------------------------------------------------------------------------
(* Numbers.                                                                *)

NatLess == {p \in Nat \X Nat : p[1] < p[2]}

\* A set of numbers that is not empty has a least one.
LEMMA NatMin ==
    ASSUME NEW T \in SUBSET Nat, T # {}
    PROVE  \E x \in T : \A y \in T : x <= y
  <1>1. IsWellFoundedOn(NatLess, Nat)
    BY NatLessThanWellFounded DEF OpToRel, NatLess
  <1>2. PICK x \in T : \A y \in T : ~(<<y, x>> \in NatLess)
    BY ZenonT(40), <1>1, WFMin
  <1>3. \A y \in T : (y < x) => <<y, x>> \in NatLess
    BY DEF NatLess
  <1>4. \A y \in T : ~(y < x)
    BY <1>2, <1>3, ZenonT(40)
  <1>5. \A m, n \in Nat : ~(m < n) => n <= m
    OBVIOUS
  <1> QED
    BY <1>4, <1>5

\* Induction: a set of numbers with 0 and the successors of its members.
LEMMA NatAll ==
    ASSUME NEW S \in SUBSET Nat, 0 \in S, \A n \in S : n + 1 \in S
    PROVE  S = Nat
  <1> SUFFICES ASSUME Nat \ S # {} PROVE FALSE
    BY ZenonT(40)
  <1>1. PICK x \in Nat \ S : \A y \in Nat \ S : x <= y
    BY NatMin, Nat \ S \in SUBSET Nat, ZenonT(40)
  <1>2. x # 0 /\ x - 1 \in Nat /\ ~(x <= x - 1) /\ (x - 1) + 1 = x
    BY <1>1
  <1>3. x - 1 \in S
    BY <1>1, <1>2, ZenonT(40)
  <1> QED
    BY <1>1, <1>2, <1>3

\* The greatest and the least of some numbers up to n.
LEMMA MaxOf ==
    ASSUME NEW n \in Nat, NEW T \in SUBSET (0..n), T # {}
    PROVE  Max(T) \in T /\ \A y \in T : y <= Max(T)
  <1> DEFINE B == {b \in Nat : \A y \in T : y <= b}
  <1>1. B \in SUBSET Nat /\ n \in B
    OBVIOUS
  <1>2. PICK b \in B : \A c \in B : b <= c
    <2> HIDE DEF B
    <2> QED
      BY <1>1, NatMin
  <1>3. b \in T
    <2> SUFFICES ASSUME b \notin T PROVE FALSE
      OBVIOUS
    <2>1. b \in Nat /\ \A y \in T : y \in Nat /\ y < b
      BY <1>2
    <2>2. PICK y \in T : y < b
      BY ZenonT(40), <2>1
    <2>3. b - 1 \in Nat
      BY <2>1, <2>2
    <2>4. \A z \in T : z <= b - 1
      BY <2>1
    <2>5. b <= b - 1
      BY <1>2, <2>3, <2>4
    <2> QED
      BY <2>1, <2>5
  <1>4. \E x \in T : \A y \in T : x >= y
    BY <1>2, <1>3
  <1>5. Max(T) \in T /\ \A y \in T : Max(T) >= y
    BY <1>4, ZenonT(40) DEF Max
  <1> QED
    BY <1>5

\* The minimum of a nonempty set of naturals is in it and below the others.
LEMMA MinOf ==
    ASSUME NEW T \in SUBSET Nat, T # {}
    PROVE  Min(T) \in T /\ \A y \in T : Min(T) <= y
  <1>1. \E x \in T : \A y \in T : x <= y
    BY NatMin
  <1> QED
    BY ZenonT(40), <1>1 DEF Min

\* The maximum of one number.
LEMMA MaxOfOne ==
    ASSUME NEW n \in Nat
    PROVE  Max({n}) = n
  BY DEF Max

-----------------------------------------------------------------------------
(* Finite sets.                                                            *)

\* A finite set that is not empty has an element that no other precedes in an
\* order R of its elements.
LEMMA FiniteMinimal ==
    ASSUME NEW S, IsFiniteSet(S), S # {}, NEW R,
           \A x \in S : <<x, x>> \notin R,
           \A x, y, z \in S : <<x, y>> \in R /\ <<y, z>> \in R => <<x, z>> \in R
    PROVE  \E x \in S : \A y \in S : <<y, x>> \notin R
  <1> DEFINE Pre(x) == {y \in S : <<y, x>> \in R}
             N == {Cardinality(Pre(x)) : x \in S}
  <1>1. \A x \in S : IsFiniteSet(Pre(x)) /\ Cardinality(Pre(x)) \in Nat
    BY ZenonT(40), FS_Subset, FS_CardinalityType, \A x \in S : Pre(x) \in SUBSET S
  <1>2. N \in SUBSET Nat /\ N # {} /\ \A y \in S : Cardinality(Pre(y)) \in N
    <2> HIDE DEF Pre
    <2> QED
      BY <1>1
  <1>3. PICK m \in N : \A n \in N : m <= n
    BY ZenonT(40), <1>2, NatMin
  <1>4. PICK x \in S : m = Cardinality(Pre(x))
    BY <1>3
  <1>5. ASSUME NEW y \in S, <<y, x>> \in R
        PROVE  FALSE
    <2>1. Pre(y) \in SUBSET Pre(x) /\ y \in Pre(x) /\ y \notin Pre(y)
      BY <1>5
    <2>2. /\ Cardinality(Pre(y)) <= Cardinality(Pre(x))
          /\ Cardinality(Pre(x)) = Cardinality(Pre(y)) => Pre(x) = Pre(y)
      BY ZenonT(40), <1>1, <2>1, FS_Subset
    <2>3. Cardinality(Pre(y)) # Cardinality(Pre(x))
      BY <2>1, <2>2
    <2>4. m <= Cardinality(Pre(y)) /\ Cardinality(Pre(y)) \in Nat /\ Cardinality(Pre(x)) \in Nat
      <3> HIDE DEF Pre, N
      <3> QED
        BY <1>1, <1>2, <1>3
    <2> HIDE DEF Pre
    <2> QED
      BY <1>4, <2>2, <2>3, <2>4
  <1> QED
    BY <1>5

\* There are finitely many functions from 1..n to a finite set.
LEMMA FiniteFunctions ==
    ASSUME NEW V, IsFiniteSet(V), NEW n \in Nat
    PROVE  IsFiniteSet([1..n -> V])
  <1> DEFINE F(m) == [1..m -> V]
             S == {m \in Nat : IsFiniteSet(F(m))}
  <1>1. 0 \in S
    <2>1. 1..0 = {}
      OBVIOUS
    <2>2. \A f, g \in [{} -> V] : f = g
      OBVIOUS
    <2>3. [i \in {} |-> 0] \in [{} -> V]
      OBVIOUS
    <2>4. F(0) = {[i \in {} |-> 0]}
      BY ZenonT(40), <2>1, <2>2, <2>3
    <2> QED
      BY ZenonT(40), <2>4, FS_Singleton
  <1>2. ASSUME NEW m \in S PROVE m + 1 \in S
    <2> DEFINE ext == [p \in F(m) \X V |-> [i \in 1..(m + 1) |-> IF i = m + 1 THEN p[2] ELSE p[1][i]]]
    <2>1. IsFiniteSet(F(m) \X V)
      BY FS_Product
    <2>2. ext \in [F(m) \X V -> F(m + 1)]
      OBVIOUS
    <2>3. ASSUME NEW g \in F(m + 1)
          PROVE  \E p \in F(m) \X V : ext[p] = g
      <3> DEFINE h == [i \in 1..m |-> g[i]]
      <3>1. h \in F(m) /\ g[m + 1] \in V
        OBVIOUS
      <3>2. <<h, g[m + 1]>> \in F(m) \X V
        BY <3>1
      <3>3. ext[<<h, g[m + 1]>>] = g
        BY <3>1, <3>2
      <3> QED
        BY ZenonT(40), <3>2, <3>3
    <2>4. ext \in Surjection(F(m) \X V, F(m + 1))
      BY ZenonT(40), <2>2, <2>3 DEF Surjection
    <2> QED
      BY <2>1, <2>4, FS_Surjection
  <1>3. S = Nat
    <2>1. S \in SUBSET Nat
      OBVIOUS
    <2> HIDE DEF S
    <2> QED
      BY <1>1, <1>2, <2>1, NatAll
  <1> QED
    BY <1>3
=============================================================================
