----------------------------- MODULE FoldLemmas -----------------------------
(* The folds of the community modules are recursive functions on the subsets   *)
(* of a finite set. What is needed of them is proved here by induction, which  *)
(* is stated with sets: the provers cannot instantiate a predicate.            *)
EXTENDS FiniteSetsExt, FiniteSetTheorems, WellFoundedInduction, SequenceTheorems, Functions, TLAPS

(* ---- induction ---- *)
\* A set that holds 0 and with every number the next holds all of them.
LEMMA NumbersByInduction ==
  ASSUME NEW G, 0 \in G, \A n \in Nat : n \in G => n + 1 \in G
  PROVE  Nat \subseteq G
<1> SUFFICES ASSUME Nat \ G # {} PROVE FALSE
  OBVIOUS
<1>1. PICK m \in Nat \ G : \A n \in Nat \ G : <<n, m>> \notin OpToRel(<, Nat)
  <2>1. Nat \ G \subseteq Nat
    OBVIOUS
  <2> HIDE DEF OpToRel
  <2> QED
    BY <2>1, NatLessThanWellFounded, WFMin
<1>2. \A n \in Nat \ G : ~(n < m)
  BY <1>1 DEF OpToRel
<1>3. m - 1 \in Nat /\ m - 1 < m /\ (m - 1) + 1 = m
  OBVIOUS
<1> QED
  BY <1>2, <1>3

\* A collection of subsets of D that holds every set whose proper subsets it
\* holds, holds them all.
LEMMA SubsetsByInduction ==
  ASSUME NEW D, IsFiniteSet(D), NEW G,
         \A s \in SUBSET D : (\A t \in SUBSET s : t # s => t \in G) => s \in G
  PROVE  SUBSET D \subseteq G
<1> SUFFICES ASSUME (SUBSET D) \ G # {} PROVE FALSE
  OBVIOUS
<1>1. FiniteSubsetsOf(D) = SUBSET D
  BY FS_FiniteSubsetsOfFinite
<1>2. PICK s \in (SUBSET D) \ G : \A t \in (SUBSET D) \ G : <<t, s>> \notin StrictSubsetOrdering(D)
  <2>1. (SUBSET D) \ G \subseteq SUBSET D
    OBVIOUS
  <2>2. IsWellFoundedOn(StrictSubsetOrdering(D), FiniteSubsetsOf(D))
    BY FS_StrictSubsetOrderingWellFounded
  <2>3. IsWellFoundedOn(StrictSubsetOrdering(D), SUBSET D)
    BY <1>1, <2>2
  <2>4. PICK S, W, R : S = SUBSET D /\ W = S \ G /\ R = StrictSubsetOrdering(D)
    OBVIOUS
  <2>5. \E s \in W : \A t \in W : ~(<<t, s>> \in R)
    <3>1. W \subseteq S /\ W # {} /\ IsWellFoundedOn(R, S)
      BY <2>3, <2>4
    <3> QED
      BY <3>1, WFMin
  <2> QED
    BY <2>4, <2>5
<1>3. \A t \in SUBSET s : t # s => t \in G
  BY <1>2 DEF StrictSubsetOrdering
<1> QED
  BY <1>2, <1>3

(* ---- recursion ---- *)
\* A function on the subsets of a finite set may be defined by the value at
\* the set without one element that "pick" names.
PicksFrom(D, pick) == \A s \in SUBSET D : s # {} => pick[s] \in s
StepsIn(D, V, step) == \A s \in SUBSET D, v \in V : s # {} => step[s][v] \in V
Iterates(D, V, base, pick, step, it) ==
  /\ it \in [SUBSET D -> V]
  /\ \A s \in SUBSET D : it[s] = IF s = {} THEN base ELSE step[s][it[s \ {pick[s]}]]

LEMMA RecursionOnSubsets ==
  ASSUME NEW D, IsFiniteSet(D), NEW V, NEW base \in V,
         NEW pick, PicksFrom(D, pick), NEW step, StepsIn(D, V, step)
  PROVE  \E it : Iterates(D, V, base, pick, step, it)
<1> DEFINE Next(g) == [s \in SUBSET D |-> IF s = {} THEN base ELSE step[s][g[s \ {pick[s]}]]]
           Solves(g, n) == \A s \in SUBSET D : Cardinality(s) <= n =>
                             g[s] = IF s = {} THEN base ELSE step[s][g[s \ {pick[s]}]]
           G == {n \in Nat : \E g \in [SUBSET D -> V] : Solves(g, n)}
<1>1. \A s \in SUBSET D : /\ IsFiniteSet(s) /\ Cardinality(s) \in Nat
                          /\ Cardinality(s) <= Cardinality(D)
                          /\ Cardinality(s) = 0 <=> s = {}
  BY FS_Subset, FS_CardinalityType, FS_EmptySet
<1>2. \A s \in SUBSET D : s # {} => /\ s \ {pick[s]} \in SUBSET D
                                    /\ Cardinality(s \ {pick[s]}) = Cardinality(s) - 1
  BY <1>1, FS_RemoveElement DEF PicksFrom
<1>3. \A g \in [SUBSET D -> V] : Next(g) \in [SUBSET D -> V]
  BY <1>2 DEF StepsIn
<1>4. 0 \in G
  <2> DEFINE g0 == [s \in SUBSET D |-> base]
  <2>1. g0 \in [SUBSET D -> V]
    OBVIOUS
  <2>2. Solves(g0, 0)
    <3> SUFFICES ASSUME NEW s \in SUBSET D, Cardinality(s) <= 0 PROVE s = {}
      OBVIOUS
    <3>1. Cardinality(s) \in Nat /\ (Cardinality(s) = 0 <=> s = {})
      BY <1>1
    <3> QED
      BY <3>1
  <2> QED
    BY <2>1, <2>2
<1>5. ASSUME NEW n \in Nat, n \in G PROVE n + 1 \in G
  <2>1. PICK g \in [SUBSET D -> V] : Solves(g, n)
    BY <1>5
  <2>2. \A s \in SUBSET D : Cardinality(s) <= n => Next(g)[s] = g[s]
    BY <2>1
  <2>3. Solves(Next(g), n + 1)
    <3> SUFFICES ASSUME NEW s \in SUBSET D, Cardinality(s) <= n + 1, s # {}
                 PROVE  Next(g)[s] = step[s][Next(g)[s \ {pick[s]}]]
      OBVIOUS
    <3>1. Cardinality(s \ {pick[s]}) <= n
      <4>1. Cardinality(s) \in Nat /\ Cardinality(s \ {pick[s]}) = Cardinality(s) - 1
        BY <1>1, <1>2
      <4> QED
        BY <4>1
    <3>2. Next(g)[s \ {pick[s]}] = g[s \ {pick[s]}]
      BY <1>2, <2>2, <3>1
    <3> QED
      BY <3>2
  <2>4. Next(g) \in [SUBSET D -> V]
    BY <1>3, <2>1
  <2>5. PICK h \in [SUBSET D -> V] : h = Next(g)
    BY <2>4
  <2>6. Solves(h, n + 1)
    BY <2>3, <2>5
  <2> HIDE DEF Next, Solves
  <2> QED
    BY <2>6
<1>6. Cardinality(D) \in G
  <2> HIDE DEF G
  <2> QED
    BY <1>1, <1>4, <1>5, NumbersByInduction
<1>7. PICK g \in [SUBSET D -> V] : Solves(g, Cardinality(D))
  BY <1>6
<1> QED
  BY <1>1, <1>7 DEF Iterates

(* ---- sums ---- *)
AnyOf(s) == CHOOSE x \in s : TRUE

\* The recursion by which the library sums b over the subsets of D.
SumsUp(b, D, it) ==
  it = [s \in SUBSET D |-> IF s = {} THEN 0
          ELSE LET x == CHOOSE x \in s : TRUE IN b[x] + it[s \ {x}]]

LEMMA SumIsIterated ==
  ASSUME NEW b, NEW D
  PROVE  SumFunctionOnSet(b, D) = (CHOOSE it : SumsUp(b, D, it))[D]
  BY DEF SumFunctionOnSet, FoldFunctionOnSet, MapThenFoldSet, SumsUp

\* A table of the sums of b over the subsets of D.
SumTable(b, D, it) ==
  /\ it \in [SUBSET D -> Int]
  /\ it[{}] = 0
  /\ \A s \in SUBSET D : s # {} => it[s] = b[AnyOf(s)] + it[s \ {AnyOf(s)}]

LEMMA SumExists ==
  ASSUME NEW D, IsFiniteSet(D), NEW b, \A x \in D : b[x] \in Int
  PROVE  \E it : SumTable(b, D, it) /\ SumFunctionOnSet(b, D) = it[D]
<1> DEFINE pick == [s \in SUBSET D |-> AnyOf(s)]
           step == [s \in SUBSET D |-> [v \in Int |-> b[AnyOf(s)] + v]]
<1>1. \A s \in SUBSET D : s # {} => AnyOf(s) \in s
  BY DEF AnyOf
<1>2. PICK p : p = pick
  OBVIOUS
<1>3. PICK st : st = step
  OBVIOUS
<1>4. \A s \in SUBSET D : s # {} => p[s] = AnyOf(s) /\ p[s] \in s
  BY <1>1, <1>2
<1>5. \A s \in SUBSET D, v \in Int : st[s][v] = b[AnyOf(s)] + v
  BY <1>3
<1>6. \A s \in SUBSET D, v \in Int : s # {} => st[s][v] \in Int
  BY <1>1, <1>5
<1>7. 0 \in Int
  OBVIOUS
<1> HIDE DEF pick, step
<1>8. PICK g \in [SUBSET D -> Int] :
        \A s \in SUBSET D : g[s] = IF s = {} THEN 0 ELSE st[s][g[s \ {p[s]}]]
  <2>1. PicksFrom(D, p)
    BY <1>4 DEF PicksFrom
  <2>2. StepsIn(D, Int, st)
    BY <1>6 DEF StepsIn
  <2>3. PICK g : Iterates(D, Int, 0, p, st, g)
    BY <1>7, <2>1, <2>2, RecursionOnSubsets
  <2> QED
    BY <2>3 DEF Iterates
<1>9. \A s \in SUBSET D : g[s] = IF s = {} THEN 0 ELSE b[AnyOf(s)] + g[s \ {AnyOf(s)}]
  BY <1>4, <1>5, <1>8
<1>10. SumsUp(b, D, g)
  BY <1>9 DEF SumsUp, AnyOf
<1>11. PICK it : it = CHOOSE h : SumsUp(b, D, h)
  OBVIOUS
<1>12. SumsUp(b, D, it)
  BY <1>10, <1>11
<1>13. \A s \in SUBSET D : it[s] = IF s = {} THEN 0 ELSE b[AnyOf(s)] + it[s \ {AnyOf(s)}]
  BY <1>12 DEF SumsUp, AnyOf
<1>14. SUBSET D \subseteq {s \in SUBSET D : it[s] \in Int}
  <2> DEFINE G == {s \in SUBSET D : it[s] \in Int}
  <2>1. ASSUME NEW s \in SUBSET D, \A t \in SUBSET s : t # s => t \in G PROVE s \in G
    <3>1. ASSUME s # {} PROVE it[s \ {AnyOf(s)}] \in Int /\ b[AnyOf(s)] \in Int
      BY <1>1, <2>1, <3>1
    <3>2. ASSUME s # {} PROVE it[s] \in Int
      <4>1. it[s] = b[AnyOf(s)] + it[s \ {AnyOf(s)}]
        BY <1>13, <3>2
      <4> QED
        BY <3>1, <3>2, <4>1
    <3>3. ASSUME s = {} PROVE it[s] \in Int
      <4>1. it[s] = 0
        BY <1>13, <3>3
      <4> QED
        BY <4>1
    <3>4. it[s] \in Int
      BY <3>2, <3>3
    <3> QED
      BY <3>4
  <2> HIDE DEF G
  <2>2. SUBSET D \subseteq G
    BY <2>1, SubsetsByInduction
  <2> QED
    BY <2>2 DEF G
<1>15. it \in [SUBSET D -> Int]
  BY <1>12, <1>14 DEF SumsUp
<1>16. SumFunctionOnSet(b, D) = it[D]
  BY <1>11, SumIsIterated
<1> QED
  <2>1. it[{}] = 0
    BY <1>13
  <2> QED
    BY <1>13, <1>15, <1>16, <2>1 DEF SumTable

\* Two functions that agree on E have the same sums over the subsets of E.
LEMMA TablesAgree ==
  ASSUME NEW D, NEW E \in SUBSET D, IsFiniteSet(E), NEW b, NEW c,
         \A x \in E : b[x] = c[x],
         NEW it, SumTable(b, D, it), NEW iu, SumTable(c, E, iu)
  PROVE  \A s \in SUBSET E : it[s] = iu[s]
<1> DEFINE G == {s \in SUBSET E : it[s] = iu[s]}
<1>1. ASSUME NEW s \in SUBSET E, \A t \in SUBSET s : t # s => t \in G PROVE s \in G
  <2>1. s = {} => it[s] = iu[s]
    BY DEF SumTable
  <2>2. ASSUME s # {} PROVE it[s] = iu[s]
    <3>1. PICK x \in s : x = AnyOf(s)
      BY <2>2 DEF AnyOf
    <3>2. it[s] = b[x] + it[s \ {x}] /\ iu[s] = c[x] + iu[s \ {x}]
      BY <2>2, <3>1 DEF SumTable
    <3>3. it[s \ {x}] = iu[s \ {x}]
      BY <1>1
    <3> QED
      BY <3>2, <3>3
  <2> QED
    BY <2>1, <2>2
<1> HIDE DEF G
<1>2. SUBSET E \subseteq G
  BY <1>1, SubsetsByInduction
<1> QED
  BY <1>2 DEF G

\* One table holds the sums over all the subsets of D.
LEMMA SumsTabled ==
  ASSUME NEW D, IsFiniteSet(D), NEW b, \A x \in D : b[x] \in Int
  PROVE  \E it : /\ SumTable(b, D, it)
                 /\ \A s \in SUBSET D : SumFunctionOnSet(b, s) = it[s]
<1>1. PICK it : SumTable(b, D, it)
  BY SumExists
<1>2. ASSUME NEW s \in SUBSET D PROVE SumFunctionOnSet(b, s) = it[s]
  <2>1. IsFiniteSet(s)
    BY FS_Subset
  <2>2. PICK iu : SumTable(b, s, iu) /\ SumFunctionOnSet(b, s) = iu[s]
    BY <2>1, SumExists
  <2>3. \A t \in SUBSET s : it[t] = iu[t]
    BY <1>1, <2>1, <2>2, TablesAgree
  <2> QED
    BY <2>2, <2>3
<1> QED
  BY <1>1, <1>2

\* A sum does not depend on the order: any element may be taken out first.
LEMMA TableRemoves ==
  ASSUME NEW D, IsFiniteSet(D), NEW b, \A x \in D : b[x] \in Int,
         NEW it, SumTable(b, D, it)
  PROVE  \A s \in SUBSET D : \A x \in s : it[s] = b[x] + it[s \ {x}]
<1> DEFINE G == {s \in SUBSET D : \A x \in s : it[s] = b[x] + it[s \ {x}]}
<1>1. ASSUME NEW s \in SUBSET D, \A t \in SUBSET s : t # s => t \in G PROVE s \in G
  <2> SUFFICES ASSUME NEW x \in s PROVE it[s] = b[x] + it[s \ {x}]
    OBVIOUS
  <2>1. PICK y \in s : y = AnyOf(s)
    BY DEF AnyOf
  <2>2. it[s] = b[y] + it[s \ {y}]
    BY <2>1 DEF SumTable
  <2>3. ASSUME x # y PROVE it[s] = b[x] + it[s \ {x}]
    <3>1. it[s \ {y}] = b[x] + it[(s \ {y}) \ {x}]
      <4>1. s \ {y} \in G
        BY <1>1
      <4> QED
        BY <2>3, <4>1
    <3>2. it[s \ {x}] = b[y] + it[(s \ {x}) \ {y}]
      <4>1. s \ {x} \in G
        BY <1>1
      <4> QED
        BY <2>3, <4>1
    <3>3. (s \ {x}) \ {y} = (s \ {y}) \ {x}
      OBVIOUS
    <3>4. PICK i \in Int : i = it[(s \ {y}) \ {x}]
      BY DEF SumTable
    <3>5. PICK j \in Int, k \in Int : j = b[x] /\ k = b[y]
      OBVIOUS
    <3>6. it[s] = k + (j + i) /\ it[s \ {x}] = k + i
      BY <2>2, <3>1, <3>2, <3>3, <3>4, <3>5
    <3>7. k + (j + i) = j + (k + i)
      OBVIOUS
    <3> QED
      BY <3>5, <3>6, <3>7
  <2> QED
    BY <2>2, <2>3
<1> HIDE DEF G
<1>2. SUBSET D \subseteq G
  BY <1>1, SubsetsByInduction
<1> QED
  BY <1>2 DEF G

LEMMA SumOfNothing == \A b : SumFunctionOnSet(b, {}) = 0
<1> SUFFICES ASSUME NEW b PROVE SumFunctionOnSet(b, {}) = 0
  OBVIOUS
<1>1. IsFiniteSet({}) /\ \A x \in {} : b[x] \in Int
  BY FS_EmptySet
<1>2. PICK D : D = {}
  OBVIOUS
<1>3. PICK it : SumTable(b, D, it) /\ SumFunctionOnSet(b, D) = it[D]
  BY <1>1, <1>2, SumExists
<1> QED
  BY <1>2, <1>3 DEF SumTable

LEMMA SumIsInt ==
  ASSUME NEW D, IsFiniteSet(D), NEW b, \A x \in D : b[x] \in Int
  PROVE  SumFunctionOnSet(b, D) \in Int
<1>1. PICK it : SumTable(b, D, it) /\ SumFunctionOnSet(b, D) = it[D]
  BY SumExists
<1>2. D \in SUBSET D
  OBVIOUS
<1> QED
  BY <1>1, <1>2 DEF SumTable

LEMMA SumRemoves ==
  ASSUME NEW D, IsFiniteSet(D), NEW b, \A x \in D : b[x] \in Int, NEW x \in D
  PROVE  SumFunctionOnSet(b, D) = b[x] + SumFunctionOnSet(b, D \ {x})
<1>1. PICK it : /\ SumTable(b, D, it)
                /\ \A s \in SUBSET D : SumFunctionOnSet(b, s) = it[s]
  BY SumsTabled
<1>2. it[D] = b[x] + it[D \ {x}]
  BY <1>1, TableRemoves
<1> QED
  BY <1>1, <1>2

LEMMA SumAgrees ==
  ASSUME NEW D, IsFiniteSet(D), NEW b, \A x \in D : b[x] \in Int,
         NEW c, \A x \in D : b[x] = c[x]
  PROVE  SumFunctionOnSet(b, D) = SumFunctionOnSet(c, D)
<1>1. \A x \in D : c[x] \in Int
  OBVIOUS
<1>2. PICK it : SumTable(b, D, it) /\ SumFunctionOnSet(b, D) = it[D]
  BY SumExists
<1>3. PICK iu : SumTable(c, D, iu) /\ SumFunctionOnSet(c, D) = iu[D]
  BY <1>1, SumExists
<1>4. D \in SUBSET D
  OBVIOUS
<1>5. \A s \in SUBSET D : it[s] = iu[s]
  BY <1>2, <1>3, <1>4, TablesAgree
<1> QED
  BY <1>2, <1>3, <1>5

\* A change of one summand changes the sum by as much.
LEMMA SumChanges ==
  ASSUME NEW D, IsFiniteSet(D), NEW b, \A x \in D : b[x] \in Int, NEW a \in D,
         NEW c, c[a] \in Int, \A x \in D : x # a => c[x] = b[x]
  PROVE  SumFunctionOnSet(c, D) = SumFunctionOnSet(b, D) + (c[a] - b[a])
<1>1. PICK R : R = D \ {a} /\ IsFiniteSet(R)
  BY FS_RemoveElement
<1>2. SumFunctionOnSet(b, D) = b[a] + SumFunctionOnSet(b, R)
  BY <1>1, SumRemoves
<1>3. \A x \in D : c[x] \in Int
  OBVIOUS
<1>4. SumFunctionOnSet(c, D) = c[a] + SumFunctionOnSet(c, R)
  BY <1>1, <1>3, SumRemoves
<1>5. \A x \in R : b[x] \in Int /\ b[x] = c[x]
  BY <1>1
<1>6. SumFunctionOnSet(b, R) = SumFunctionOnSet(c, R)
  BY <1>1, <1>5, SumAgrees
<1>7. SumFunctionOnSet(b, R) \in Int
  BY <1>1, <1>5, SumIsInt
<1> QED
  BY <1>2, <1>4, <1>6, <1>7

LEMMA SumOfZeros ==
  ASSUME NEW D, IsFiniteSet(D), NEW b, \A x \in D : b[x] = 0
  PROVE  SumFunctionOnSet(b, D) = 0
<1>1. \A x \in D : b[x] \in Int
  OBVIOUS
<1>2. PICK it : SumTable(b, D, it) /\ SumFunctionOnSet(b, D) = it[D]
  BY <1>1, SumExists
<1> DEFINE G == {s \in SUBSET D : it[s] = 0}
<1>3. ASSUME NEW s \in SUBSET D, \A t \in SUBSET s : t # s => t \in G PROVE s \in G
  <2>1. s = {} => it[s] = 0
    BY <1>2 DEF SumTable
  <2>2. ASSUME s # {} PROVE it[s] = 0
    <3>1. PICK x \in s : x = AnyOf(s)
      BY <2>2 DEF AnyOf
    <3>2. it[s] = b[x] + it[s \ {x}]
      BY <1>2, <2>2, <3>1 DEF SumTable
    <3>3. it[s \ {x}] = 0 /\ b[x] = 0
      BY <1>3
    <3> QED
      BY <3>2, <3>3
  <2> QED
    BY <2>1, <2>2
<1> HIDE DEF G
<1>4. SUBSET D \subseteq G
  BY <1>3, SubsetsByInduction
<1> QED
  BY <1>2, <1>4 DEF G

\* Sums add up point by point.
LEMMA SumAdds ==
  ASSUME NEW D, IsFiniteSet(D), NEW b, NEW c, NEW d,
         \A x \in D : b[x] \in Int /\ c[x] \in Int /\ d[x] = b[x] + c[x]
  PROVE  SumFunctionOnSet(d, D) = SumFunctionOnSet(b, D) + SumFunctionOnSet(c, D)
<1> DEFINE G == {s \in SUBSET D : SumFunctionOnSet(d, s) = SumFunctionOnSet(b, s) + SumFunctionOnSet(c, s)}
<1>1. ASSUME NEW s \in SUBSET D, \A t \in SUBSET s : t # s => t \in G PROVE s \in G
  <2>1. CASE s = {}
    <3>1. SumFunctionOnSet(d, {}) = 0 /\ SumFunctionOnSet(b, {}) = 0 /\ SumFunctionOnSet(c, {}) = 0
      BY SumOfNothing
    <3> QED
      BY <2>1, <3>1
  <2>2. CASE s # {}
    <3>1. PICK x : x \in s
      BY <2>2
    <3>2a. IsFiniteSet(s) /\ IsFiniteSet(s \ {x})
      BY FS_Subset
    <3>2. PICK r : r = s \ {x} /\ r \in SUBSET D /\ IsFiniteSet(s) /\ IsFiniteSet(r)
      BY <3>2a
    <3>3. SumFunctionOnSet(d, r) = SumFunctionOnSet(b, r) + SumFunctionOnSet(c, r)
      BY <1>1, <3>1, <3>2
    <3>4. \A y \in s : b[y] \in Int /\ c[y] \in Int /\ d[y] \in Int
      OBVIOUS
    <3>5. SumFunctionOnSet(b, s) = b[x] + SumFunctionOnSet(b, r)
      BY <3>1, <3>2, <3>4, SumRemoves
    <3>6. SumFunctionOnSet(c, s) = c[x] + SumFunctionOnSet(c, r)
      BY <3>1, <3>2, <3>4, SumRemoves
    <3>7. SumFunctionOnSet(d, s) = d[x] + SumFunctionOnSet(d, r)
      BY <3>1, <3>2, <3>4, SumRemoves
    <3>8. SumFunctionOnSet(b, r) \in Int /\ SumFunctionOnSet(c, r) \in Int
      BY <3>2, SumIsInt
    <3>9. d[x] = b[x] + c[x] /\ b[x] \in Int /\ c[x] \in Int
      BY <3>1
    <3> QED
      BY <3>3, <3>5, <3>6, <3>7, <3>8, <3>9
  <2> QED
    BY <2>1, <2>2
<1>2. SUBSET D \subseteq G
  <2> HIDE DEF G
  <2> QED
    BY <1>1, SubsetsByInduction
<1> QED
  BY <1>2

\* What counts for nothing outside E.
LEMMA SumRestricts ==
  ASSUME NEW D, IsFiniteSet(D), NEW E \in SUBSET D, NEW b, NEW c,
         \A x \in E : b[x] \in Int, \A x \in D : c[x] = IF x \in E THEN b[x] ELSE 0
  PROVE  SumFunctionOnSet(c, D) = SumFunctionOnSet(b, E)
<1> DEFINE G == {s \in SUBSET D : SumFunctionOnSet(c, s) = SumFunctionOnSet(b, s \cap E)}
<1>1. ASSUME NEW s \in SUBSET D, \A t \in SUBSET s : t # s => t \in G PROVE s \in G
  <2>1. CASE s = {}
    <3>1. SumFunctionOnSet(c, {}) = 0 /\ SumFunctionOnSet(b, {}) = 0 /\ s \cap E = {}
      BY <2>1, SumOfNothing
    <3> QED
      BY <2>1, <3>1
  <2>2. CASE s # {}
    <3>1. PICK x : x \in s
      BY <2>2
    <3>2a. IsFiniteSet(s) /\ IsFiniteSet(s \cap E)
      BY FS_Subset
    <3>2. PICK r : r = s \ {x} /\ r \in SUBSET D /\ IsFiniteSet(s) /\ IsFiniteSet(s \cap E)
      BY <3>2a
    <3>3. SumFunctionOnSet(c, r) = SumFunctionOnSet(b, r \cap E)
      BY <1>1, <3>1, <3>2
    <3>4. \A y \in s : c[y] \in Int
      OBVIOUS
    <3>5. SumFunctionOnSet(c, s) = c[x] + SumFunctionOnSet(c, r)
      BY <3>1, <3>2, <3>4, SumRemoves
    <3>6. CASE x \in E
      <4>1. PICK u : u = s \cap E /\ x \in u /\ u \ {x} = r \cap E /\ IsFiniteSet(u)
        BY <3>1, <3>2, <3>6
      <4>2. \A y \in u : b[y] \in Int
        BY <4>1
      <4>3. SumFunctionOnSet(b, u) = b[x] + SumFunctionOnSet(b, u \ {x})
        BY <4>1, <4>2, SumRemoves
      <4>4. c[x] = b[x]
        BY <3>1, <3>6
      <4> QED
        BY <3>3, <3>5, <4>1, <4>3, <4>4
    <3>7. CASE x \notin E
      <4>1. s \cap E = r \cap E /\ c[x] = 0
        BY <3>1, <3>2, <3>7
      <4>2. SumFunctionOnSet(c, r) \in Int
        <5>1. IsFiniteSet(r) /\ \A y \in r : c[y] \in Int
          BY <3>2, <3>4, FS_Subset
        <5> QED
          BY <5>1, SumIsInt
      <4>3. SumFunctionOnSet(c, s) = SumFunctionOnSet(c, r)
        BY <3>5, <4>1, <4>2
      <4> QED
        BY <3>3, <4>1, <4>3
    <3> QED
      BY <3>6, <3>7
  <2> QED
    BY <2>1, <2>2
<1>2. SUBSET D \subseteq G
  <2> HIDE DEF G
  <2> QED
    BY <1>1, SubsetsByInduction
<1>3. D \cap E = E /\ D \in SUBSET D
  OBVIOUS
<1> QED
  BY <1>2, <1>3

\* A larger function over more has the larger sum, when nothing is negative.
LEMMA SumGrows ==
  ASSUME NEW D, IsFiniteSet(D), NEW E \in SUBSET D, NEW b, NEW c,
         \A x \in E : b[x] \in Int /\ b[x] <= c[x], \A x \in D : c[x] \in Int /\ 0 <= c[x]
  PROVE  SumFunctionOnSet(b, E) <= SumFunctionOnSet(c, D)
<1>1. PICK d : d = [x \in D |-> IF x \in E THEN b[x] ELSE 0]
  OBVIOUS
<1>2. PICK e : e = [x \in D |-> c[x] - d[x]]
  OBVIOUS
<1>3. \A x \in D : d[x] \in Int /\ e[x] \in Int /\ 0 <= e[x] /\ c[x] = d[x] + e[x]
  BY <1>1, <1>2
<1>4. SumFunctionOnSet(d, D) = SumFunctionOnSet(b, E)
  <2>1. \A x \in D : d[x] = IF x \in E THEN b[x] ELSE 0
    BY <1>1
  <2>2. \A x \in E : b[x] \in Int
    OBVIOUS
  <2> QED
    BY <2>1, <2>2, SumRestricts
<1>5. SumFunctionOnSet(c, D) = SumFunctionOnSet(d, D) + SumFunctionOnSet(e, D)
  BY <1>3, SumAdds
<1>6. SumFunctionOnSet(d, D) \in Int /\ SumFunctionOnSet(e, D) \in Int
  BY <1>3, SumIsInt
<1>7. SumFunctionOnSet(e, D) >= 0
  <2> DEFINE G == {s \in SUBSET D : SumFunctionOnSet(e, s) >= 0}
  <2>1. ASSUME NEW s \in SUBSET D, \A t \in SUBSET s : t # s => t \in G PROVE s \in G
    <3>1. CASE s = {}
      BY <3>1, SumOfNothing
    <3>2. CASE s # {}
      <4>1. PICK x : x \in s
        BY <3>2
      <4>2a. IsFiniteSet(s) /\ IsFiniteSet(s \ {x})
        BY FS_Subset
      <4>2. PICK r : r = s \ {x} /\ r \in SUBSET D /\ IsFiniteSet(s) /\ IsFiniteSet(r)
        BY <4>2a
      <4>3. SumFunctionOnSet(e, r) >= 0
        BY <2>1, <4>1, <4>2
      <4>4. \A y \in s : e[y] \in Int
        BY <1>3
      <4>5. SumFunctionOnSet(e, s) = e[x] + SumFunctionOnSet(e, r)
        BY <4>1, <4>2, <4>4, SumRemoves
      <4>6. SumFunctionOnSet(e, r) \in Int
        BY <1>3, <4>2, SumIsInt
      <4>7. e[x] \in Int /\ 0 <= e[x]
        BY <1>3, <4>1
      <4> QED
        BY <4>3, <4>5, <4>6, <4>7
    <3> QED
      BY <3>1, <3>2
  <2>2. SUBSET D \subseteq G
    <3> HIDE DEF G
    <3> QED
      BY <2>1, SubsetsByInduction
  <2> QED
    BY <2>2
<1> QED
  BY <1>4, <1>5, <1>6, <1>7

\* The fold of a function is the sum over its domain.
LEMMA TotalIsSum == \A b : FoldFunction(+, 0, b) = SumFunctionOnSet(b, DOMAIN b)
BY DEF FoldFunction, SumFunctionOnSet

(* ---- what folds over positions need ---- *)
LEMMA LargestExists ==
  ASSUME NEW D, IsFiniteSet(D), D \subseteq Int
  PROVE  \A s \in SUBSET D : s # {} => \E x \in s : \A y \in s : x >= y
<1> DEFINE G == {s \in SUBSET D : s # {} => \E x \in s : \A y \in s : x >= y}
<1>1. ASSUME NEW s \in SUBSET D, \A t \in SUBSET s : t # s => t \in G PROVE s \in G
  <2> SUFFICES ASSUME s # {} PROVE \E x \in s : \A y \in s : x >= y
    OBVIOUS
  <2>1. PICK a \in s : TRUE
    OBVIOUS
  <2>2. s \ {a} \in G
    BY <1>1
  <2>3. ASSUME s \ {a} = {} PROVE \A y \in s : a >= y
    BY <2>3
  <2>4. ASSUME s \ {a} # {} PROVE \E x \in s : \A y \in s : x >= y
    <3>1. PICK m \in s \ {a} : \A y \in s \ {a} : m >= y
      BY <2>2, <2>4
    <3>2. m \in Int /\ a \in Int /\ s \subseteq Int
      OBVIOUS
    <3>3. a >= m => \A y \in s : a >= y
      <4> SUFFICES ASSUME a >= m, NEW y \in s, y # a PROVE a >= y
        BY <3>2
      <4>1. m >= y /\ y \in Int
        BY <3>1
      <4> QED
        BY <3>2, <4>1
    <3>4. ~(a >= m) => \A y \in s : m >= y
      BY <3>1, <3>2
    <3> QED
      BY <3>3, <3>4
  <2> QED
    BY <2>3, <2>4
<1> HIDE DEF G
<1>2. SUBSET D \subseteq G
  BY <1>1, SubsetsByInduction
<1> QED
  BY <1>2 DEF G

LEMMA LeastExists ==
  ASSUME NEW S \in SUBSET Nat, S # {} PROVE \E m \in S : \A k \in S : m <= k
<1> SUFFICES ASSUME \A m \in S : \E k \in S : ~(m <= k) PROVE FALSE
  OBVIOUS
<1> DEFINE G == {n \in Nat : \A k \in 0..n : k \notin S}
<1>1. 0 \in G
  <2> SUFFICES ASSUME 0 \in S PROVE FALSE
    OBVIOUS
  <2> QED
    OBVIOUS
<1>2. ASSUME NEW n \in Nat, n \in G PROVE n + 1 \in G
  <2> SUFFICES ASSUME n + 1 \in S PROVE FALSE
    BY <1>2
  <2>1. PICK k \in S : ~(n + 1 <= k)
    OBVIOUS
  <2>2. k \in 0..n
    BY <2>1
  <2> QED
    BY <1>2, <2>2
<1>3. Nat \subseteq G
  <2> HIDE DEF G
  <2> QED
    BY <1>1, <1>2, NumbersByInduction
<1>4. PICK m \in S : TRUE
  OBVIOUS
<1> QED
  BY <1>3, <1>4

LEMMA LeastIndex ==
  ASSUME NEW T \in SUBSET Nat, T # {}
  PROVE  Min(T) \in T /\ \A k \in T : Min(T) <= k
<1>1. \E m \in T : \A k \in T : m <= k
  BY LeastExists
<1> QED
  BY <1>1, Zenon DEF Min

LEMMA RangeIsFinite ==
  ASSUME NEW S, NEW T, NEW f \in [S -> T], IsFiniteSet(S)
  PROVE  IsFiniteSet(Range(f))
<1>1. f \in Surjection(S, Range(f))
  BY DEF Surjection, Range
<1> QED
  BY <1>1, FS_Surjection

(* ---- sequences cut and joined ---- *)
LEMMA CutIs ==
  ASSUME NEW S, NEW s \in Seq(S), NEW m \in 1..(Len(s) + 1), NEW n \in (m - 1)..Len(s),
         NEW u, u = SubSeq(s, m, n)
  PROVE  u \in Seq(S) /\ Len(u) = n - m + 1 /\ \A i \in 1..(n - m + 1) : u[i] = s[m + i - 1]
<1>1. Len(s) \in Nat /\ m \in Int /\ n \in Int
  OBVIOUS
<1>2. ASSUME NEW i \in m..n PROVE s[i] \in S
  <2>1. i \in 1..Len(s)
    BY <1>1
  <2> QED
    BY <2>1, ElementOfSeq
<1>3. /\ u \in Seq(S)
      /\ Len(u) = IF m <= n THEN n - m + 1 ELSE 0
      /\ \A i \in 1..(n - m + 1) : u[i] = s[m + i - 1]
  BY <1>1, <1>2, SubSeqProperties
<1>4. ~(m <= n) => n - m + 1 = 0
  BY <1>1
<1> QED
  BY <1>3, <1>4

LEMMA JoinIs ==
  ASSUME NEW S, NEW s \in Seq(S), NEW t \in Seq(S), NEW u, u = s \o t
  PROVE  /\ u \in Seq(S) /\ Len(u) = Len(s) + Len(t)
         /\ \A i \in 1..Len(s) : u[i] = s[i]
         /\ \A i \in 1..Len(t) : u[Len(s) + i] = t[i]
<1>1. Len(s) \in Nat /\ Len(t) \in Nat
  OBVIOUS
<1>2. /\ u \in Seq(S) /\ Len(u) = Len(s) + Len(t)
      /\ \A i \in 1..(Len(s) + Len(t)) : u[i] = IF i <= Len(s) THEN s[i] ELSE t[i - Len(s)]
  BY ConcatProperties
<1>3. ASSUME NEW i \in 1..Len(t) PROVE u[Len(s) + i] = t[i]
  <2>1. Len(s) + i \in 1..(Len(s) + Len(t)) /\ ~(Len(s) + i <= Len(s)) /\ (Len(s) + i) - Len(s) = i
    BY <1>1
  <2> QED
    BY <1>2, <2>1
<1> QED
  BY <1>1, <1>2, <1>3

Associates(x, y, z) == (x \o y) \o z = x \o (y \o z)
LEMMA JoinedThrice ==
  ASSUME NEW S, NEW x \in Seq(S), NEW y \in Seq(S), NEW z \in Seq(S)
  PROVE  Associates(x, y, z)
  BY ConcatAssociative DEF Associates

(* ---- loops over a list: what a fold has after each of the positions ---- *)
\* A fold over a sequence runs through the positions, the largest one last.
LEMMA MaxIsMember ==
  ASSUME NEW D, IsFiniteSet(D), D \subseteq Int
  PROVE  \A s \in SUBSET D : s # {} => Max(s) \in s
<1>1. \A s \in SUBSET D : s # {} => \E x \in s : \A y \in s : x >= y
  BY LargestExists
<1> QED
  BY <1>1 DEF Max

LEMMA MaxOfInterval == \A k \in Nat : k # 0 => Max(1..k) = k
<1> SUFFICES ASSUME NEW k \in Nat, k # 0 PROVE Max(1..k) = k
  OBVIOUS
<1>1. k \in 1..k /\ \A y \in 1..k : k >= y
  OBVIOUS
<1>2. \A x \in 1..k : (\A y \in 1..k : x >= y) => x = k
  BY <1>1
<1> QED
  BY <1>1, <1>2 DEF Max

LEMMA TopOfInterval ==
  ASSUME NEW n \in Nat, NEW s \in SUBSET (1..(n + 1))
  PROVE  /\ n + 1 \in s => /\ s # {} /\ Max(s) = n + 1
                           /\ s \ {n + 1} \in SUBSET (1..n) /\ n + 1 \notin s \ {n + 1}
         /\ n + 1 \notin s => /\ s \in SUBSET (1..n)
                              /\ s # {} => Max(s) \in s /\ s \ {Max(s)} \in SUBSET (1..n)
                                           /\ n + 1 \notin s \ {Max(s)}
<1>1. ASSUME n + 1 \in s PROVE Max(s) = n + 1
  <2>1. \A y \in s : n + 1 >= y
    OBVIOUS
  <2>2. \A x \in s : (\A y \in s : x >= y) => x = n + 1
    BY <1>1
  <2> QED
    BY <1>1, <2>1, <2>2 DEF Max
<1>2. ASSUME n + 1 \notin s PROVE s \in SUBSET (1..n)
  BY <1>2
<1>3. IsFiniteSet(1..n) /\ 1..n \subseteq Int
  BY FS_Interval
<1>4. ASSUME n + 1 \notin s, s # {} PROVE Max(s) \in s
  BY <1>2, <1>3, <1>4, MaxIsMember
<1>5. n + 1 \in s => s # {} /\ s \ {n + 1} \in SUBSET (1..n) /\ n + 1 \notin s \ {n + 1}
  OBVIOUS
<1>6. n + 1 \notin s /\ s # {} => s \ {Max(s)} \in SUBSET (1..n) /\ n + 1 \notin s \ {Max(s)}
  BY <1>2
<1> QED
  BY <1>1, <1>2, <1>4, <1>5, <1>6, Zenon

\* The subsets an interval of positions is consumed through, and its prefixes.
LEMMA PrefixIs ==
  ASSUME NEW n \in Nat, NEW k \in 1..n
  PROVE  /\ Max(1..k) = k /\ (1..k) \ {k} = 1..(k - 1) /\ 1..k # {}
         /\ 1..k \in SUBSET (1..n)
<1>1. k \in Nat /\ k # 0
  OBVIOUS
<1> QED
  BY <1>1, MaxOfInterval

(* ---- ranks ---- *)
\* In a strict order of a finite set every element has a rank of its own, and
\* every number below the cardinality is the rank of one.
Ordered(S, R) == /\ \A i \in S : <<i, i>> \notin R
                 /\ \A i, j \in S : i # j => <<i, j>> \in R \/ <<j, i>> \in R
                 /\ \A i, j, k \in S : <<i, j>> \in R /\ <<j, k>> \in R => <<i, k>> \in R
RankIn(S, R, i) == Cardinality({j \in S : <<j, i>> \in R})

LEMMA RankGrows ==
  ASSUME NEW S, IsFiniteSet(S), NEW R, Ordered(S, R), NEW i \in S, NEW j \in S, <<i, j>> \in R
  PROVE  RankIn(S, R, i) < RankIn(S, R, j)
<1>1. PICK A, B : A = {k \in S : <<k, i>> \in R} /\ B = {k \in S : <<k, j>> \in R}
  OBVIOUS
<1>2. A \in SUBSET B /\ i \in B /\ i \notin A /\ B \in SUBSET S
  BY <1>1 DEF Ordered
<1>3. IsFiniteSet(B)
  BY <1>2, FS_Subset
<1>4. IsFiniteSet(A) /\ Cardinality(A) <= Cardinality(B) /\ Cardinality(A) # Cardinality(B)
  BY <1>2, <1>3, FS_Subset
<1>5. Cardinality(A) \in Nat /\ Cardinality(B) \in Nat
  BY <1>3, <1>4, FS_CardinalityType
<1> QED
  BY <1>1, <1>4, <1>5 DEF RankIn

LEMMA RankTyped ==
  ASSUME NEW S, IsFiniteSet(S), NEW R, Ordered(S, R), NEW i \in S
  PROVE  RankIn(S, R, i) \in 0..(Cardinality(S) - 1)
<1>1. PICK A : A = {k \in S : <<k, i>> \in R}
  OBVIOUS
<1>2. A \in SUBSET S /\ i \notin A
  BY <1>1 DEF Ordered
<1>3. IsFiniteSet(A) /\ Cardinality(A) <= Cardinality(S) /\ Cardinality(A) # Cardinality(S)
  BY <1>2, FS_Subset
<1>4. Cardinality(A) \in Nat /\ Cardinality(S) \in Nat
  BY <1>3, FS_CardinalityType
<1> QED
  BY <1>1, <1>3, <1>4 DEF RankIn

LEMMA RankReached ==
  ASSUME NEW S, IsFiniteSet(S), NEW R, Ordered(S, R), NEW n \in 0..(Cardinality(S) - 1)
  PROVE  \E i \in S : RankIn(S, R, i) = n
<1>1. PICK N : N = Cardinality(S) /\ N \in Nat
  BY FS_CardinalityType
<1>2. PICK f : f = [i \in S |-> RankIn(S, R, i)]
  OBVIOUS
<1>3. f \in [S -> 0..(N - 1)]
  BY <1>1, <1>2, RankTyped
<1>4. ASSUME NEW i \in S, NEW j \in S, f[i] = f[j] PROVE i = j
  <2>1. RankIn(S, R, i) = RankIn(S, R, j)
    BY <1>2, <1>4
  <2>2. <<i, j>> \notin R
    <3>1. <<i, j>> \in R => RankIn(S, R, i) < RankIn(S, R, j)
      BY RankGrows
    <3>2. RankIn(S, R, i) \in 0..(Cardinality(S) - 1)
      BY RankTyped
    <3> QED
      BY <1>1, <2>1, <3>1, <3>2
  <2>3. <<j, i>> \notin R
    <3>1. <<j, i>> \in R => RankIn(S, R, j) < RankIn(S, R, i)
      BY RankGrows
    <3>2. RankIn(S, R, i) \in 0..(Cardinality(S) - 1)
      BY RankTyped
    <3> QED
      BY <1>1, <2>1, <3>1, <3>2
  <2> QED
    BY <2>2, <2>3 DEF Ordered
<1>5. f \in Injection(S, 0..(N - 1))
  BY <1>3, <1>4 DEF Injection, IsInjective
<1>6. IsFiniteSet(0..(N - 1)) /\ Cardinality(0..(N - 1)) = N
  <2>1. 0 \in Int /\ N - 1 \in Int
    BY <1>1
  <2>2. IsFiniteSet(0..(N - 1)) /\ Cardinality(0..(N - 1)) = IF 0 > N - 1 THEN 0 ELSE (N - 1) - 0 + 1
    BY <2>1, FS_Interval
  <2> QED
    BY <1>1, <2>2
<1>7. f \in Surjection(S, 0..(N - 1))
  BY <1>1, <1>5, <1>6, FS_Injection
<1> QED
  BY <1>1, <1>2, <1>7 DEF Surjection

Below(S) == {p \in S \X S : p[1] < p[2]}

LEMMA NumbersOrdered ==
  ASSUME NEW S \in SUBSET Int
  PROVE  Ordered(S, Below(S)) /\ \A i \in S : RankIn(S, Below(S), i) = Cardinality({j \in S : j < i})
<1>1. \A i, j \in S : <<i, j>> \in Below(S) <=> i < j
  BY DEF Below
<1>2. Ordered(S, Below(S))
  BY <1>1 DEF Ordered
<1>3. ASSUME NEW i \in S PROVE {j \in S : <<j, i>> \in Below(S)} = {j \in S : j < i}
  BY <1>1
<1> QED
  BY <1>2, <1>3 DEF RankIn
=============================================================================
