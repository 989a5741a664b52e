----------------------------- MODULE DataLemmas -----------------------------
(***************************************************************************)
(* Facts about data that the proofs of several components rest on: numbers *)
(* have least elements, an iteration of finitely many rounds is a function *)
(* that exists, and what sums over finite sets do.  Each is stated of a    *)
(* set or a function, so that it can be cited for any claim, any step of   *)
(* an iteration and any column of a table.                                 *)
(***************************************************************************)
EXTENDS Integers, FiniteSets, FiniteSetsExt, FiniteSetTheorems,
        WellFoundedInduction, TLAPS

\* Numbers that are not none have a least one.  Every induction below is by
\* the least number of which the claim fails.
LEMMA LeastNumber ==
  ASSUME NEW T, T \subseteq Nat, T # {}
  PROVE  \E x \in T : \A y \in T : x <= y
<1> DEFINE Less == {p \in Nat \X Nat : p[1] < p[2]}
<1>1. IsWellFoundedOn(Less, Nat)
  BY NatLessThanWellFounded, Zenon DEF OpToRel
<1>2. PICK x \in T : \A y \in T : <<y, x>> \notin Less
  <2> HIDE DEF Less
  <2> QED
    BY <1>1, WFMin, Zenon
<1>3. ASSUME NEW y \in T PROVE x <= y
  <2>1. x \in Nat /\ y \in Nat /\ <<y, x>> \notin Less
    BY <1>2
  <2>2. <<y, x>> \in Nat \X Nat /\ <<y, x>>[1] = y /\ <<y, x>>[2] = x
    BY <2>1
  <2> QED
    BY <2>1, <2>2
<1> QED
  BY <1>3

\* Induction over the numbers up to m, for a claim given as the set of numbers
\* of which it is true.
LEMMA UpTo ==
  ASSUME NEW m \in Nat, NEW T, 0 \in T,
         \A n \in 1..m : n - 1 \in T => n \in T
  PROVE  \A n \in 0..m : n \in T
<1> DEFINE Fails == {n \in 0..m : n \notin T}
<1> SUFFICES ASSUME Fails # {} PROVE FALSE
  OBVIOUS
<1>1. PICK k \in Fails : \A j \in Fails : k <= j
  <2>1. Fails \subseteq Nat
    OBVIOUS
  <2> HIDE DEF Fails
  <2> QED
    BY <2>1, LeastNumber
<1>2. k \in 1..m /\ k - 1 \in 0..m
  BY <1>1
<1>3. k - 1 \in T
  BY <1>1, <1>2
<1> QED
  BY <1>1, <1>2, <1>3

\* f is the iteration of m rounds of F from first.
Iterates(f, m, first, F) ==
  f = [n \in 0..m |-> IF n = 0 THEN first ELSE F[f[n - 1]]]

\* An iteration of any number of rounds exists.
LEMMA IterationExists ==
  ASSUME NEW D, NEW first \in D, NEW F \in [D -> D], NEW m \in Nat
  PROVE  \E f \in [0..m -> D] : Iterates(f, m, first, F)
<1> DEFINE Fails == {k \in Nat : ~ \E f \in [0..k -> D] : Iterates(f, k, first, F)}
<1> SUFFICES Fails = {}
  OBVIOUS
<1> SUFFICES ASSUME Fails # {} PROVE FALSE
  OBVIOUS
<1>1. PICK k \in Fails : \A j \in Fails : k <= j
  <2>1. Fails \subseteq Nat
    OBVIOUS
  <2> HIDE DEF Fails
  <2> QED
    BY <2>1, LeastNumber
<1>2. CASE k = 0
  <2> DEFINE f == [n \in 0..0 |-> first]
  <2>1. f \in [0..0 -> D] /\ Iterates(f, 0, first, F)
    BY DEF Iterates
  <2> QED
    BY <1>2, <2>1
<1>3. CASE k # 0
  <2>1. k \in Nat /\ k - 1 \in Nat /\ k - 1 \notin Fails
    BY <1>1, <1>3
  <2>2. PICK g \in [0..(k - 1) -> D] : Iterates(g, k - 1, first, F)
    BY <2>1
  <2> DEFINE f == [n \in 0..k |-> IF n = k THEN F[g[k - 1]] ELSE g[n]]
  <2>3. f \in [0..k -> D]
    BY <2>1
  <2>4. ASSUME NEW n \in 0..k
        PROVE  f[n] = IF n = 0 THEN first ELSE F[f[n - 1]]
    <3>1. \A i \in 0..(k - 1) : g[i] = IF i = 0 THEN first ELSE F[g[i - 1]]
      BY <2>2 DEF Iterates
    <3> QED
      BY <2>1, <3>1, <1>3
  <2>5. Iterates(f, k, first, F)
    BY <2>4 DEF Iterates
  <2> QED
    BY <1>1, <2>3, <2>5
<1> QED
  BY <1>2, <1>3

-----------------------------------------------------------------------------
(***************************************************************************)
(* Sums over finite sets.                                                  *)
(***************************************************************************)

\* One round of MapThenSumSet: some element of s is taken out and its g added.
SumRule(total, g, s) ==
  IF s = {} THEN 0 ELSE LET x == CHOOSE y \in s : TRUE IN g[x] + total[s \ {x}]

\* total is the function by which MapThenSumSet adds up g over subsets of S.
Totals(total, g, S) == total = [s \in SUBSET S |-> SumRule(total, g, s)]

\* The subsets of at most k elements.
Small(S, k) == {s \in SUBSET S : Cardinality(s) <= k}

SmallTotals(total, g, S, k) == total = [s \in Small(S, k) |-> SumRule(total, g, s)]

\* What is taken out of a set leaves a smaller one.
LEMMA OneLess ==
  ASSUME NEW s, IsFiniteSet(s), s # {}
  PROVE  LET x == CHOOSE y \in s : TRUE
         IN  /\ x \in s /\ IsFiniteSet(s \ {x})
             /\ Cardinality(s) \in Nat /\ Cardinality(s \ {x}) = Cardinality(s) - 1
<1> DEFINE x == CHOOSE y \in s : TRUE
<1>1. x \in s
  OBVIOUS
<1> HIDE DEF x
<1>2. /\ IsFiniteSet(s \ {x}) /\ Cardinality(s) \in Nat
      /\ Cardinality(s \ {x}) = Cardinality(s) - 1
  BY <1>1, FS_RemoveElement, FS_CardinalityType
<1> QED
  BY <1>1, <1>2 DEF x

\* The totals of larger subsets follow from those of smaller ones.
LEMMA TotalsGrow ==
  ASSUME NEW S, IsFiniteSet(S), NEW g, NEW k \in Nat, k # 0,
         NEW u, SmallTotals(u, g, S, k - 1)
  PROVE  \E t : SmallTotals(t, g, S, k)
<1> DEFINE t == [s \in Small(S, k) |-> SumRule(u, g, s)]
<1>1. \A s \in SUBSET S : IsFiniteSet(s) /\ Cardinality(s) \in Nat
  BY FS_Subset, FS_CardinalityType
<1>2. Small(S, k - 1) \subseteq Small(S, k)
  BY <1>1 DEF Small
<1>3. \A s \in Small(S, k - 1) : t[s] = u[s]
  <2>1. \A s \in Small(S, k - 1) : u[s] = SumRule(u, g, s)
    BY DEF SmallTotals
  <2> QED
    BY <1>2, <2>1
<1> HIDE DEF t
<1>4. ASSUME NEW s \in Small(S, k) PROVE SumRule(t, g, s) = SumRule(u, g, s)
  <2>1. CASE s = {}
    BY <2>1 DEF SumRule
  <2>2. CASE s # {}
    <3> DEFINE x == CHOOSE y \in s : TRUE
    <3>1. s \in SUBSET S /\ Cardinality(s) <= k /\ IsFiniteSet(s)
      BY <1>1 DEF Small
    <3>2. Cardinality(s) \in Nat /\ Cardinality(s \ {x}) = Cardinality(s) - 1
      BY <3>1, <2>2, OneLess
    <3>3. s \ {x} \in Small(S, k - 1)
      <4> HIDE DEF x
      <4> QED
        BY <3>1, <3>2 DEF Small
    <3>4. t[s \ {x}] = u[s \ {x}]
      BY <1>3, <3>3
    <3> QED
      BY <2>2, <3>4 DEF SumRule
  <2> QED
    BY <2>1, <2>2
<1>5. t = [s \in Small(S, k) |-> SumRule(u, g, s)]
  BY DEF t
<1>6. t = [s \in Small(S, k) |-> SumRule(t, g, s)]
  BY <1>4, <1>5
<1> QED
  BY <1>6 DEF SmallTotals

\* There is a function that adds up.
LEMMA TotalsExist ==
  ASSUME NEW S, IsFiniteSet(S), NEW g
  PROVE  \E t : Totals(t, g, S)
<1> DEFINE Fails == {k \in Nat : ~ \E t : SmallTotals(t, g, S, k)}
<1>1. Fails = {}
  <2> SUFFICES ASSUME Fails # {} PROVE FALSE
    OBVIOUS
  <2>1. PICK k \in Fails : \A j \in Fails : k <= j
    <3>1. Fails \subseteq Nat
      OBVIOUS
    <3> HIDE DEF Fails
    <3> QED
      BY <3>1, LeastNumber
  <2>2. CASE k = 0
    <3>1. Small(S, 0) \subseteq {{}}
      <4> SUFFICES ASSUME NEW s \in SUBSET S, Cardinality(s) <= 0 PROVE s = {}
        BY DEF Small
      <4>1. IsFiniteSet(s) /\ Cardinality(s) \in Nat
        BY FS_Subset, FS_CardinalityType
      <4> QED
        BY <4>1, FS_EmptySet
    <3> DEFINE t == [s \in Small(S, 0) |-> 0]
    <3>2. \A s \in Small(S, 0) : SumRule(t, g, s) = 0
      BY <3>1 DEF SumRule
    <3>3. SmallTotals(t, g, S, 0)
      BY <3>2 DEF SmallTotals
    <3> QED
      BY <2>1, <2>2, <3>3
  <2>3. CASE k # 0
    <3>1. k \in Nat /\ k - 1 \in Nat
      BY <2>1, <2>3
    <3>2. k - 1 \notin Fails
      <4> HIDE DEF Fails
      <4> QED
        BY <2>1, <3>1
    <3>3. PICK u : SmallTotals(u, g, S, k - 1)
      BY <3>1, <3>2
    <3> QED
      BY <2>1, <2>3, <3>1, <3>3, TotalsGrow
  <2> QED
    BY <2>2, <2>3
<1>2. Cardinality(S) \in Nat
  BY FS_CardinalityType
<1>3. Small(S, Cardinality(S)) = SUBSET S
  BY FS_Subset DEF Small
<1>4. PICK t : SmallTotals(t, g, S, Cardinality(S))
  BY <1>1, <1>2
<1> QED
  BY <1>3, <1>4 DEF Totals, SmallTotals

\* The total of a set of naturals is a natural.
LEMMA TotalType ==
  ASSUME NEW S, IsFiniteSet(S), NEW g, \A x \in S : g[x] \in Nat,
         NEW t, Totals(t, g, S)
  PROVE  \A s \in SUBSET S : t[s] \in Nat
<1> DEFINE Fails == {k \in Nat : \E s \in SUBSET S : Cardinality(s) = k /\ t[s] \notin Nat}
<1>1. \A s \in SUBSET S : IsFiniteSet(s) /\ Cardinality(s) \in Nat
  BY FS_Subset, FS_CardinalityType
<1>2. Fails = {}
  <2> SUFFICES ASSUME Fails # {} PROVE FALSE
    OBVIOUS
  <2>1. PICK k \in Fails : \A j \in Fails : k <= j
    <3>1. Fails \subseteq Nat
      OBVIOUS
    <3> HIDE DEF Fails
    <3> QED
      BY <3>1, LeastNumber
  <2>2. PICK s \in SUBSET S : Cardinality(s) = k /\ t[s] \notin Nat
    BY <2>1
  <2>3. t[s] = SumRule(t, g, s)
    BY DEF Totals
  <2>4. s # {}
    BY <2>2, <2>3 DEF SumRule
  <2> DEFINE x == CHOOSE y \in s : TRUE
  <2>5. t[s] = g[x] + t[s \ {x}]
    BY <2>3, <2>4 DEF SumRule
  <2>6. x \in s /\ Cardinality(s \ {x}) = k - 1 /\ k \in Nat
    BY <1>1, <2>2, <2>4, OneLess
  <2> HIDE DEF x
  <2>7. s \ {x} \in SUBSET S /\ Cardinality(s \ {x}) \in Nat
    BY <1>1
  <2>8. k - 1 \notin Fails /\ k - 1 \in Nat
    <3>1. k - 1 \in Nat
      BY <2>6, <2>7
    <3> HIDE DEF Fails
    <3> QED
      BY <2>1, <2>6, <3>1
  <2>9. t[s \ {x}] \in Nat
    BY <2>6, <2>7, <2>8
  <2>10. g[x] \in Nat
    BY <2>6
  <2> QED
    BY <2>2, <2>5, <2>9, <2>10
<1> QED
  BY <1>1, <1>2

\* Whatever element is taken out first, the total is the same.
TakesAny(t, g, S) ==
  \A s \in SUBSET S : \A x \in s : t[s] = g[x] + t[s \ {x}]

\* The order in which elements are taken out does not matter.
LEMMA TotalTakesAny ==
  ASSUME NEW S, IsFiniteSet(S), NEW g, \A x \in S : g[x] \in Nat,
         NEW t, Totals(t, g, S)
  PROVE  TakesAny(t, g, S)
<1> SUFFICES \A s \in SUBSET S : \A x \in s : t[s] = g[x] + t[s \ {x}]
  BY DEF TakesAny
<1> DEFINE Holds(s) == \A x \in s : t[s] = g[x] + t[s \ {x}]
           Fails == {k \in Nat : \E s \in SUBSET S : Cardinality(s) = k /\ ~Holds(s)}
<1>1. \A s \in SUBSET S : IsFiniteSet(s) /\ Cardinality(s) \in Nat
  BY FS_Subset, FS_CardinalityType
<1>2. Fails = {}
  <2> SUFFICES ASSUME Fails # {} PROVE FALSE
    OBVIOUS
  <2>1. PICK k \in Fails : \A j \in Fails : k <= j
    <3>1. Fails \subseteq Nat
      OBVIOUS
    <3> HIDE DEF Fails
    <3> QED
      BY <3>1, LeastNumber
  <2>2. PICK s \in SUBSET S : Cardinality(s) = k /\ ~Holds(s)
    BY <2>1
  <2>3. PICK z \in s : t[s] # g[z] + t[s \ {z}]
    BY <2>2
  <2> DEFINE x == CHOOSE y \in s : TRUE
  <2>4. t[s] = g[x] + t[s \ {x}]
    BY <2>3 DEF Totals, SumRule
  <2>5. x \in s /\ Cardinality(s \ {x}) = k - 1 /\ k \in Nat
    BY <1>1, <2>2, <2>3, OneLess
  <2> HIDE DEF x
  <2>6. x # z
    BY <2>3, <2>4
  <2>7. Cardinality(s \ {z}) = k - 1
    BY <1>1, <2>2, <2>3, FS_RemoveElement
  <2>8. /\ s \ {x} \in SUBSET S /\ s \ {z} \in SUBSET S
        /\ k - 1 \in Nat /\ k - 1 \notin Fails
    <3>1. s \ {x} \in SUBSET S /\ s \ {z} \in SUBSET S
      OBVIOUS
    <3>2. k - 1 \in Nat
      BY <1>1, <2>5, <3>1
    <3> HIDE DEF Fails
    <3> QED
      BY <2>1, <2>5, <3>1, <3>2
  <2>9. Holds(s \ {x}) /\ Holds(s \ {z})
    <3> HIDE DEF Holds
    <3> QED
      BY <2>5, <2>7, <2>8
  <2> DEFINE rest == (s \ {x}) \ {z}
  <2>10. rest = (s \ {z}) \ {x} /\ rest \in SUBSET S
    OBVIOUS
  <2>11. t[s \ {x}] = g[z] + t[rest]
    BY <2>3, <2>6, <2>9
  <2>12. t[s \ {z}] = g[x] + t[rest]
    BY <2>5, <2>6, <2>9, <2>10
  <2> HIDE DEF rest
  <2>13. t[rest] \in Nat /\ g[x] \in Nat /\ g[z] \in Nat
    BY <2>3, <2>5, <2>10, TotalType
  <2> QED
    BY <2>3, <2>4, <2>11, <2>12, <2>13
<1> QED
  BY <1>1, <1>2

\* More elements, and larger ones, add up to no less.
LEMMA TotalMonotone ==
  ASSUME NEW S, IsFiniteSet(S), NEW g, \A x \in S : g[x] \in Nat,
         NEW t, Totals(t, g, S),
         NEW R, IsFiniteSet(R), NEW h, \A x \in R : h[x] \in Nat,
         NEW u, Totals(u, h, R),
         S \subseteq R, \A x \in S : g[x] <= h[x]
  PROVE  t[S] <= u[R]
<1>a. TakesAny(t, g, S) /\ TakesAny(u, h, R)
  BY TotalTakesAny
<1> DEFINE Holds(s) == \A r \in SUBSET R : s \subseteq r => t[s] <= u[r]
           Fails == {k \in Nat : \E s \in SUBSET S : Cardinality(s) = k /\ ~Holds(s)}
<1>1. \A s \in SUBSET S : IsFiniteSet(s) /\ Cardinality(s) \in Nat
  BY FS_Subset, FS_CardinalityType
<1>2. /\ \A s \in SUBSET S : t[s] \in Nat
      /\ \A r \in SUBSET R : u[r] \in Nat
  BY TotalType
<1>3. Fails = {}
  <2> SUFFICES ASSUME Fails # {} PROVE FALSE
    OBVIOUS
  <2>1. PICK k \in Fails : \A j \in Fails : k <= j
    <3>1. Fails \subseteq Nat
      OBVIOUS
    <3> HIDE DEF Fails
    <3> QED
      BY <3>1, LeastNumber
  <2>2. PICK s \in SUBSET S : Cardinality(s) = k /\ ~Holds(s)
    BY <2>1
  <2>3. PICK r \in SUBSET R : s \subseteq r /\ ~(t[s] <= u[r])
    BY <2>2
  <2>4. s # {}
    <3>1. t[{}] = 0
      BY DEF Totals, SumRule
    <3>2. u[r] \in Nat
      BY <1>2
    <3> QED
      BY <2>3, <3>1, <3>2
  <2>5. PICK x \in s : TRUE
    BY <2>4
  <2>6. /\ Cardinality(s \ {x}) = k - 1 /\ k \in Nat
        /\ s \ {x} \in SUBSET S /\ r \ {x} \in SUBSET R /\ x \in r /\ x \in S
    BY <1>1, <2>2, <2>3, <2>5, FS_RemoveElement
  <2>7. k - 1 \in Nat /\ k - 1 \notin Fails
    <3>1. k - 1 \in Nat
      BY <1>1, <2>6
    <3> HIDE DEF Fails
    <3> QED
      BY <2>1, <2>6, <3>1
  <2>8. Holds(s \ {x})
    <3> HIDE DEF Holds
    <3> QED
      BY <2>6, <2>7
  <2>9. t[s \ {x}] <= u[r \ {x}]
    BY <2>3, <2>6, <2>8
  <2>10. t[s] = g[x] + t[s \ {x}] /\ u[r] = h[x] + u[r \ {x}]
    BY <1>a, <2>2, <2>3, <2>5, <2>6 DEF TakesAny
  <2>11. g[x] <= h[x] /\ g[x] \in Nat /\ h[x] \in Nat
    BY <2>6
  <2>12. t[s \ {x}] \in Nat /\ u[r \ {x}] \in Nat
    BY <1>2, <2>6
  <2> QED
    BY <2>3, <2>9, <2>10, <2>11, <2>12
<1> QED
  BY <1>1, <1>3

\* The sum of a column over a set of its places is one of these totals.
ColumnSum(g, S) == (CHOOSE t : Totals(t, g, S))[S]

\* A sum of naturals is one.
LEMMA SumType ==
  ASSUME NEW S, IsFiniteSet(S), NEW g, \A x \in S : g[x] \in Nat
  PROVE  ColumnSum(g, S) \in Nat
BY TotalsExist, TotalType DEF ColumnSum

\* More places, and larger entries, add up to no less.
LEMMA SumMonotone ==
  ASSUME NEW S, NEW g, NEW R, IsFiniteSet(R), NEW h, \A x \in R : h[x] \in Nat,
         S \subseteq R, \A x \in S : g[x] \in Nat /\ g[x] <= h[x]
  PROVE  ColumnSum(g, S) <= ColumnSum(h, R)
<1>1. IsFiniteSet(S)
  BY FS_Subset
<1>2. PICK t : Totals(t, g, S) /\ ColumnSum(g, S) = t[S]
  BY <1>1, TotalsExist DEF ColumnSum
<1>3. PICK u : Totals(u, h, R) /\ ColumnSum(h, R) = u[R]
  BY TotalsExist DEF ColumnSum
<1> QED
  BY <1>1, <1>2, <1>3, TotalMonotone

\* Sums of the same entries over the same places are the same.
LEMMA SumSame ==
  ASSUME NEW S, IsFiniteSet(S), NEW g, NEW h,
         \A x \in S : g[x] \in Nat /\ g[x] = h[x]
  PROVE  ColumnSum(g, S) = ColumnSum(h, S)
<1>1. ColumnSum(g, S) <= ColumnSum(h, S) /\ ColumnSum(h, S) <= ColumnSum(g, S)
  BY SumMonotone
<1>2. ColumnSum(g, S) \in Nat /\ ColumnSum(h, S) \in Nat
  BY SumType
<1> QED
  BY <1>1, <1>2
=============================================================================
