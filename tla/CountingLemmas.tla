--------------------------- MODULE CountingLemmas ---------------------------
(***************************************************************************)
(* Facts about finite sets that the proofs of several modules rest on: a   *)
(* greatest element, and sums that are counted cell by cell.               *)
(***************************************************************************)
EXTENDS Integers, FiniteSets, FiniteSetTheorems, TLAPS

(* A finite set of numbers has a greatest one: the set of those above it   *)
(* is minimal.                                                             *)
LEMMA Greatest ==
  ASSUME NEW ns \in SUBSET Nat, IsFiniteSet(ns), ns # {}
  PROVE  \E m \in ns : \A n \in ns : n <= m
<1>. DEFINE Above(n) == {k \in ns : k > n}
            aboves == {Above(n) : n \in ns}
<1>1. aboves \subseteq FiniteSubsetsOf(ns) /\ aboves # {}
  <2>1. \A n \in ns : Above(n) \in SUBSET ns
    OBVIOUS
  <2>2. FiniteSubsetsOf(ns) = SUBSET ns
    BY FS_FiniteSubsetsOfFinite
  <2>3. PICK n \in ns : TRUE
    OBVIOUS
  <2>. HIDE DEF Above
  <2>4. Above(n) \in aboves
    BY <2>3
  <2>. QED  BY <2>1, <2>2, <2>4
<1>2. PICK a \in aboves : \A b \in aboves : <<b, a>> \notin StrictSubsetOrdering(ns)
  <2>. HIDE DEF aboves
  <2>. QED  BY <1>1, FS_StrictSubsetOrderingWellFounded, WFMin
<1>3. PICK m \in ns : a = Above(m)
  BY <1>2
<1>4. ASSUME NEW n \in ns, ~(n <= m) PROVE FALSE
  <2>1. n \in Nat /\ m \in Nat
    OBVIOUS
  <2>2. Above(n) \subseteq Above(m) /\ n \in Above(m) /\ n \notin Above(n)
    <3>1. \A k \in ns : k \in Nat /\ (k > n => k > m) /\ ~(n > n) /\ n > m
      BY <1>4, <2>1
    <3>. QED  BY <3>1
  <2>3. <<Above(n), a>> \in StrictSubsetOrdering(ns)
    BY <1>3, <2>2 DEF StrictSubsetOrdering
  <2>. QED  BY <1>2, <2>3
<1>. QED  BY <1>4

(* What a function on a finite set sums up to, counted: one cell for each  *)
(* unit of each value.                                                     *)
Row(u, n) == {u} \X (1 .. n)
Cells(S, f) == UNION {Row(u, f[u]) : u \in S}

(* A row has as many cells as its value.                                   *)
LEMMA RowCounted ==
  ASSUME NEW u, NEW n \in Nat
  PROVE  IsFiniteSet(Row(u, n)) /\ Cardinality(Row(u, n)) = n
<1>1. IsFiniteSet({u}) /\ Cardinality({u}) = 1
  BY FS_Singleton
<1>2. 1 \in Int /\ n \in Int
  OBVIOUS
<1>3. IsFiniteSet(1 .. n) /\ Cardinality(1 .. n) = IF 1 > n THEN 0 ELSE n - 1 + 1
  BY <1>2, FS_Interval
<1>4. Cardinality(1 .. n) = n
  BY <1>3
<1>5. IsFiniteSet({u} \X (1 .. n)) /\ Cardinality({u} \X (1 .. n)) = 1 * Cardinality(1 .. n)
  BY <1>1, <1>3, FS_Product
<1>. QED BY <1>4, <1>5 DEF Row

(* The cells of a function on a finite set can be counted.                 *)
LEMMA CellsFinite ==
  ASSUME NEW S, IsFiniteSet(S), NEW f \in [S -> Nat]
  PROVE  IsFiniteSet(Cells(S, f)) /\ Cardinality(Cells(S, f)) \in Nat
<1> DEFINE rows == {Row(u, f[u]) : u \in S}
           rowOf == [u \in S |-> Row(u, f[u])]
<1>1. rowOf \in Surjection(S, rows)
  BY DEF Surjection
<1>2. \A T \in rows : IsFiniteSet(T)
  BY RowCounted
<1>3. Cells(S, f) = UNION rows
  BY DEF Cells
<1>. HIDE DEF rows, rowOf
<1>4. IsFiniteSet(rows)
  BY <1>1, FS_Surjection
<1>5. IsFiniteSet(UNION rows)
  BY <1>2, <1>4, FS_UNION
<1>. QED BY <1>3, <1>5, FS_CardinalityType

(* Nothing sums up to nothing.                                             *)
LEMMA CellsOfNothing ==
  ASSUME NEW S, NEW f, \A u \in S : f[u] = 0
  PROVE  Cardinality(Cells(S, f)) = 0
<1>1. Cells(S, f) = {}
  BY DEF Cells, Row
<1>. QED BY <1>1, FS_EmptySet

(* A change of one value changes the sum by as much.                       *)
LEMMA CellsExcept ==
  ASSUME NEW S, IsFiniteSet(S), NEW f \in [S -> Nat], NEW g \in [S -> Nat], NEW u \in S,
         \A v \in S : v # u => g[v] = f[v]
  PROVE  Cardinality(Cells(S, g)) = (Cardinality(Cells(S, f)) - f[u]) + g[u]
<1> DEFINE others == Cells(S \ {u}, f)
<1>1. Cells(S, f) = others \cup Row(u, f[u]) /\ Cells(S, g) = others \cup Row(u, g[u])
  BY DEF Cells
<1>2. others \cap Row(u, f[u]) = {} /\ others \cap Row(u, g[u]) = {}
  BY DEF Cells, Row
<1>3. others \subseteq Cells(S, f)
  BY <1>1
<1>4. f[u] \in Nat /\ g[u] \in Nat
  OBVIOUS
<1>. HIDE DEF others
<1>5. IsFiniteSet(Cells(S, f))
  BY CellsFinite
<1>6. others \in SUBSET Cells(S, f)
  BY <1>3
<1>7. IsFiniteSet(others)
  BY <1>5, <1>6, FS_Subset
<1>8. Cardinality(others) \in Nat
  BY <1>7, FS_CardinalityType
<1>9. Cardinality({}) = 0
  BY FS_EmptySet
<1>10. ASSUME NEW m \in Nat, others \cap Row(u, m) = {}
       PROVE  Cardinality(others \cup Row(u, m)) = Cardinality(others) + m
  <2>1. IsFiniteSet(Row(u, m)) /\ Cardinality(Row(u, m)) = m
    BY RowCounted
  <2>2. Cardinality(others \cup Row(u, m)) =
            Cardinality(others) + Cardinality(Row(u, m)) - Cardinality(others \cap Row(u, m))
    BY <1>7, <2>1, FS_Union
  <2>3. Cardinality(others \cap Row(u, m)) = 0
    BY <1>9, <1>10
  <2>. QED BY <1>8, <2>1, <2>2, <2>3
<1>11. Cardinality(Cells(S, f)) = Cardinality(others) + f[u]
  BY <1>1, <1>2, <1>4, <1>10
<1>12. Cardinality(Cells(S, g)) = Cardinality(others) + g[u]
  BY <1>1, <1>2, <1>4, <1>10
<1>. QED BY <1>4, <1>8, <1>11, <1>12

(* Where no value grows by more than one, the sum does not grow by more    *)
(* than there are values.                                                  *)
LEMMA CellsGrow ==
  ASSUME NEW S, IsFiniteSet(S), NEW f \in [S -> Nat], NEW g \in [S -> Nat],
         \A u \in S : g[u] <= f[u] + 1
  PROVE  Cardinality(Cells(S, g)) <= Cardinality(Cells(S, f)) + Cardinality(S)
<1> DEFINE tops == {<<u, g[u]>> : u \in S}
           topOf == [u \in S |-> <<u, g[u]>>]
<1>1. topOf \in Surjection(S, tops)
  BY DEF Surjection
<1>2. Cells(S, g) \subseteq Cells(S, f) \cup tops
  <2>1. SUFFICES ASSUME NEW u \in S, NEW i \in 1 .. g[u]
                 PROVE  <<u, i>> \in Cells(S, f) \cup tops
    BY DEF Cells, Row
  <2>2. f[u] \in Nat /\ g[u] \in Nat /\ g[u] <= f[u] + 1
    OBVIOUS
  <2>3. CASE i <= f[u]
    <3>1. i \in 1 .. f[u]
      BY <2>2, <2>3
    <3>. QED BY <3>1 DEF Cells, Row
  <2>4. CASE ~(i <= f[u])
    <3>1. i = g[u]
      BY <2>2, <2>4
    <3>. QED BY <3>1
  <2>. QED BY <2>3, <2>4
<1>. HIDE DEF tops, topOf
<1>3. IsFiniteSet(tops) /\ Cardinality(tops) <= Cardinality(S)
  BY <1>1, FS_Surjection
<1>4. IsFiniteSet(Cells(S, f)) /\ Cardinality(Cells(S, f)) \in Nat
  BY CellsFinite
<1>5. IsFiniteSet(Cells(S, f) \cup tops)
      /\ Cardinality(Cells(S, f) \cup tops) =
             Cardinality(Cells(S, f)) + Cardinality(tops) - Cardinality(Cells(S, f) \cap tops)
  BY <1>3, <1>4, FS_Union
<1>6. IsFiniteSet(Cells(S, f) \cap tops)
  BY <1>4, FS_Intersection
<1>7. Cardinality(Cells(S, f) \cap tops) \in Nat
  BY <1>6, FS_CardinalityType
<1>8. Cells(S, g) \in SUBSET (Cells(S, f) \cup tops)
  BY <1>2
<1>9. Cardinality(Cells(S, g)) <= Cardinality(Cells(S, f) \cup tops)
  BY <1>5, <1>8, FS_Subset
<1>10. Cardinality(Cells(S, g)) \in Nat /\ Cardinality(tops) \in Nat /\ Cardinality(S) \in Nat
  BY <1>3, CellsFinite, FS_CardinalityType
<1>. QED BY <1>3, <1>4, <1>5, <1>7, <1>9, <1>10
=============================================================================
