--------------------------- MODULE RecipeRunProofs ---------------------------
(***************************************************************************)
(* What a run keeps for every number of steps and every recipe, however    *)
(* exits, pauses, answers, timers and a cancel interleave: recipes with a  *)
(* circle are refused and no others, steps start wave by wave, when their  *)
(* inputs are there and within the width, pauses and audit row agree, the  *)
(* verdict is earned, and the promise of RecipePromise is kept.            *)
(***************************************************************************)
EXTENDS RecipeRun, DataLemmas

-----------------------------------------------------------------------------
(***************************************************************************)
(* Facts about recipes.                                                    *)
(***************************************************************************)

\* Dependencies are steps, also those a step inherits by leaving them out.
LEMMA DepsType ==
  ASSUME NEW r \in Recipe, NEW s \in Steps
  PROVE  DepsOf(r, s) \subseteq Steps
<1>1. r.declared[s] \subseteq Steps
  BY DEF Recipe
<1>2. {s - 1} \ {0} \subseteq Steps
  BY NAssumption DEF Steps
<1> QED
  BY <1>1, <1>2 DEF DepsOf

\* Sets of steps are finite.
LEMMA StepSets ==
  ASSUME NEW S, S \subseteq Steps
  PROVE  IsFiniteSet(S) /\ Cardinality(S) \in Nat
<1>1. IsFiniteSet(Steps)
  BY NAssumption, FS_Interval DEF Steps
<1> QED
  BY <1>1, FS_Subset, FS_CardinalityType

\* A set of steps that is not empty has a last step.
LEMMA LastStep ==
  ASSUME NEW S, S \subseteq Steps, S # {}
  PROVE  \E m \in S : \A s \in S : s <= m
<1> DEFINE Left == {N - s : s \in S}
<1>1. Left \subseteq Nat /\ Left # {}
  <2>1. \A s \in S : N - s \in Nat
    BY NAssumption DEF Steps
  <2> QED
    BY <2>1
<1>2. PICK x \in Left : \A y \in Left : x <= y
  <2> HIDE DEF Left
  <2> QED
    BY <1>1, LeastNumber
<1>3. PICK m \in S : x = N - m
  BY DEF Left
<1>4. ASSUME NEW s \in S PROVE s <= m
  <2>1. N - m <= N - s
    BY <1>2, <1>3
  <2> QED
    BY <2>1, NAssumption DEF Steps
<1> QED
  BY <1>4

\* A chunk has no more steps than the recipe's width.
LEMMA ChunkWithinWidth ==
  ASSUME NEW r \in Recipe, NEW wave, wave \subseteq Steps
  PROVE  Cardinality(Chunk(r, wave)) <= r.width
<1> DEFINE C == Chunk(r, wave)
<1>0. r.width \in 1..16
  BY DEF Recipe
<1>1. \A S : S \subseteq wave => IsFiniteSet(S) /\ Cardinality(S) \in Nat
  BY StepSets
<1>2. CASE C = {}
  <2>1. Cardinality(C) = 0
    BY <1>2, FS_EmptySet
  <2> QED
    BY ONLY <1>0, <2>1
<1>3. CASE C # {}
  <2>1. C \subseteq Steps
    BY DEF Chunk
  <2>2. PICK m \in C : \A s \in C : s <= m
    BY <1>3, <2>1, LastStep
  <2> DEFINE before == {s \in wave : s < m}
  <2>3. Cardinality(before) < r.width
    BY <2>2 DEF Chunk
  <2>4. C \subseteq before \cup {m}
    BY <2>1, <2>2 DEF Chunk, Steps
  <2>5. before \cup {m} \subseteq wave
    BY <2>2 DEF Chunk
  <2>6. IsFiniteSet(before) /\ Cardinality(before) \in Nat
    BY <1>1
  <2> HIDE DEF C, before
  <2>7. Cardinality(before \cup {m}) <= Cardinality(before) + 1
    BY <2>6, FS_AddElement
  <2>8. Cardinality(C) <= Cardinality(before \cup {m})
    BY <1>1, <2>4, <2>5, FS_Subset
  <2>9. Cardinality(before \cup {m}) \in Nat /\ Cardinality(C) \in Nat
    BY <1>1, <2>4, <2>5
  <2> QED
    BY <1>0, <2>3, <2>6, <2>7, <2>8, <2>9 DEF C
<1> QED
  BY <1>2, <1>3

\* A chunk of a wave that is not empty has a step: its first.
LEMMA ChunkHasStep ==
  ASSUME NEW r \in Recipe, NEW wave, wave \subseteq Steps, wave # {}
  PROVE  Chunk(r, wave) # {}
<1>1. wave \subseteq Nat
  BY DEF Steps
<1>2. PICK m \in wave : \A s \in wave : m <= s
  BY <1>1, LeastNumber
<1>3. {s \in wave : s < m} = {}
  <2>1. \A s \in wave : s \in Nat /\ m \in Nat /\ ~(s < m)
    BY <1>1, <1>2
  <2> QED
    BY <2>1
<1>4. Cardinality({s \in wave : s < m}) = 0 /\ r.width \in 1..16
  BY <1>3, FS_EmptySet DEF Recipe
<1>5. m \in Chunk(r, wave)
  BY <1>4 DEF Chunk
<1> QED
  BY <1>5

-----------------------------------------------------------------------------
(***************************************************************************)
(* Waves and circles.  A circle is a set of steps each of which needs      *)
(* another of the set: no wave ever takes one of them, and where there is  *)
(* none every round takes a step, so that N rounds take them all.          *)
(***************************************************************************)

Circle(r, S) == S \in (SUBSET Steps) \ {{}} /\ \A s \in S : DepsOf(r, s) \cap S # {}

\* The waves are what their recursive definition says.
Waves(r, in) ==
  /\ in \in [0..N -> SUBSET Steps]
  /\ in[0] = {}
  /\ \A n \in 1..N : in[n] = in[n - 1] \cup Ready(r, in[n - 1])

\* A recursive function over finitely many rounds exists, and keeps its type.
LEMMA InWavesIs ==
  ASSUME NEW r
  PROVE  Waves(r, InWaves(r))
<1> DEFINE Rule(e) == e \cup Ready(r, e)
           Def(g) == g = [n \in 0..N |-> IF n = 0 THEN {} ELSE Rule(g[n - 1])]
           in == InWaves(r)
<1>1. \A e \in SUBSET Steps : Rule(e) \in SUBSET Steps
  BY DEF Ready
<1>2. in = CHOOSE g : Def(g)
  BY DEF InWaves
<1> HIDE DEF in
<1>3. \E g : Def(g)
  <2> DEFINE D == SUBSET Steps
             F == [e \in D |-> Rule(e)]
  <2>1. F \in [D -> D] /\ {} \in D /\ N \in Nat
    BY <1>1, NAssumption
  <2>2. \A e \in D : F[e] = Rule(e)
    OBVIOUS
  <2> HIDE DEF D, F, Rule
  <2>3. PICK f \in [0..N -> D] : Iterates(f, N, {}, F)
    BY <2>1, IterationExists
  <2>4. \A n \in 0..N : n # 0 => f[n - 1] \in D
    BY <2>3, NAssumption
  <2>5. Def(f)
    BY <2>2, <2>3, <2>4 DEF Iterates
  <2> QED
    BY <2>5
<1>4. Def(in)
  <2> HIDE DEF Def
  <2> QED
    BY <1>2, <1>3
<1>5. in[0] = {} /\ \A n \in 1..N : in[n] = Rule(in[n - 1])
  <2> HIDE DEF Rule
  <2>1. DOMAIN in = 0..N /\ \A n \in 0..N : in[n] = IF n = 0 THEN {} ELSE Rule(in[n - 1])
    BY <1>4
  <2>2. 0 \in 0..N /\ \A n \in 1..N : n \in 0..N /\ n # 0
    BY NAssumption
  <2> QED
    BY <2>1, <2>2
<1>6. \A n \in 0..N : in[n] \in SUBSET Steps
  <2> DEFINE T == {n \in 0..N : in[n] \in SUBSET Steps}
  <2>1. 0 \in T /\ N \in Nat
    BY <1>5, NAssumption
  <2>2. ASSUME NEW n \in 1..N, n - 1 \in T PROVE n \in T
    <3> HIDE DEF Rule
    <3> QED
      BY <1>1, <1>5, <2>2
  <2> HIDE DEF T
  <2>3. \A n \in 0..N : n \in T
    BY <2>1, <2>2, UpTo
  <2> QED
    BY <2>3 DEF T
<1>7. in = [n \in 0..N |-> in[n]]
  BY <1>4
<1> QED
  BY <1>5, <1>6, <1>7 DEF Waves, in

\* No wave takes a step of a circle.
LEMMA CircleStaysOut ==
  ASSUME NEW r, NEW S, Circle(r, S), NEW in, Waves(r, in)
  PROVE  \A n \in 0..N : in[n] \cap S = {}
<1> DEFINE T == {n \in 0..N : in[n] \cap S = {}}
<1>1. 0 \in T /\ N \in Nat
  BY NAssumption DEF Waves
<1>2. ASSUME NEW n \in 1..N, n - 1 \in T PROVE n \in T
  <2>1. in[n] = in[n - 1] \cup Ready(r, in[n - 1]) /\ in[n - 1] \cap S = {}
    BY <1>2 DEF Waves
  <2>2. Ready(r, in[n - 1]) \cap S = {}
    BY <2>1 DEF Ready, Circle
  <2> QED
    BY <2>1, <2>2
<1> HIDE DEF T
<1>3. \A n \in 0..N : n \in T
  BY <1>1, <1>2, UpTo
<1> QED
  BY <1>3 DEF T

\* Where there is no circle some remaining step is ready.
LEMMA SomeReady ==
  ASSUME NEW r \in Recipe, ~\E S : Circle(r, S),
         NEW earlier, earlier \subseteq Steps, earlier # Steps
  PROVE  Ready(r, earlier) # {}
<1>1. ~Circle(r, Steps \ earlier)
  OBVIOUS
<1>2. PICK s \in Steps \ earlier : DepsOf(r, s) \cap (Steps \ earlier) = {}
  BY <1>1 DEF Circle
<1>3. s \in Ready(r, earlier)
  BY <1>2, DepsType DEF Ready
<1> QED
  BY <1>3

\* So every round takes a step until all are taken.
LEMMA WavesGrow ==
  ASSUME NEW r \in Recipe, ~\E S : Circle(r, S), NEW in, Waves(r, in)
  PROVE  in[N] = Steps
<1> DEFINE T == {n \in 0..N : in[n] = Steps \/ Cardinality(in[n]) >= n}
<1>0. \A n \in 0..N : in[n] \in SUBSET Steps
  BY DEF Waves
<1>1. 0 \in T /\ N \in Nat
  <2>1. in[0] = {} /\ Cardinality({}) = 0 /\ N \in Nat
    BY NAssumption, FS_EmptySet DEF Waves
  <2>2. Cardinality(in[0]) = 0 /\ 0 \in 0..N
    BY <2>1
  <2> QED
    BY <2>1, <2>2
<1>2. ASSUME NEW n \in 1..N, n - 1 \in T PROVE n \in T
  <2>1. /\ n \in 0..N /\ n - 1 \in 0..N /\ n \in Nat
        /\ in[n] = in[n - 1] \cup Ready(r, in[n - 1])
        /\ in[n - 1] \subseteq Steps /\ in[n] \subseteq Steps
    BY NAssumption, <1>0 DEF Waves
  <2>2. CASE in[n - 1] = Steps
    BY <2>1, <2>2
  <2>3. CASE in[n - 1] # Steps
    <3>1. PICK s \in Ready(r, in[n - 1]) : TRUE
      BY <2>1, <2>3, SomeReady
    <3>2. s \in Steps /\ s \notin in[n - 1] /\ in[n - 1] \cup {s} \subseteq in[n]
      BY <2>1, <3>1 DEF Ready
    <3>3. /\ Cardinality(in[n - 1] \cup {s}) = Cardinality(in[n - 1]) + 1
          /\ Cardinality(in[n - 1]) \in Nat
      BY <2>1, <3>2, StepSets, FS_AddElement
    <3>4. Cardinality(in[n - 1] \cup {s}) <= Cardinality(in[n]) /\ Cardinality(in[n]) \in Nat
      BY <2>1, <3>2, StepSets, FS_Subset
    <3>5. Cardinality(in[n - 1]) >= n - 1
      BY <1>2, <2>3
    <3> DEFINE c == Cardinality(in[n])
               b == Cardinality(in[n - 1])
    <3>6. c \in Nat /\ b \in Nat /\ n \in Nat /\ b + 1 <= c /\ b >= n - 1
      BY <2>1, <3>3, <3>4, <3>5
    <3>7. c >= n
      <4> HIDE DEF b, c
      <4> QED
        BY ONLY <3>6
    <3> QED
      BY <2>1, <3>7
  <2> QED
    BY <2>2, <2>3
<1> HIDE DEF T
<1>3. N \in T
  <2>1. \A n \in 0..N : n \in T
    BY <1>1, <1>2, UpTo
  <2> QED
    BY <2>1, NAssumption
<1>4. CASE Cardinality(in[N]) >= N
  <2>1. IsFiniteSet(Steps) /\ Cardinality(Steps) = N
    BY NAssumption, FS_Interval DEF Steps
  <2>2. in[N] \subseteq Steps /\ Cardinality(in[N]) \in Nat
    BY <1>0, NAssumption, StepSets
  <2> QED
    BY <1>4, <2>1, <2>2, NAssumption, FS_Subset
<1> QED
  BY <1>3, <1>4 DEF T

\* toWaves, which never looks for a circle, refuses just the recipes that have
\* one: a round in which no step is ready comes when all that is left is needed
\* by what is left.
THEOREM WavesRefuseCircles ==
  ASSUME NEW r \in Recipe
  PROVE  HasWaves(r) <=> ~\E S : Circle(r, S)
<1>1. Waves(r, InWaves(r)) /\ N \in 0..N
  BY InWavesIs, NAssumption
<1>2. ASSUME NEW S, Circle(r, S) PROVE ~HasWaves(r)
  <2>1. InWaves(r)[N] \cap S = {}
    BY <1>1, <1>2, CircleStaysOut
  <2> QED
    BY <1>2, <2>1 DEF HasWaves, Circle
<1>3. ASSUME ~\E S : Circle(r, S) PROVE HasWaves(r)
  BY <1>1, <1>3, WavesGrow DEF HasWaves
<1> QED
  BY <1>2, <1>3

\* Each step is in the first wave its dependencies allow: one of them is in the
\* wave before.
LEMMA WavesAreTight ==
  ASSUME NEW r, NEW in, Waves(r, in), NEW n \in 2..N, NEW s \in in[n] \ in[n - 1]
  PROVE  DepsOf(r, s) \ in[n - 2] # {}
<1>1. n \in 1..N /\ n - 1 \in 1..N /\ (n - 1) - 1 = n - 2
  BY NAssumption
<1>2. /\ in[n] = in[n - 1] \cup Ready(r, in[n - 1])
      /\ in[n - 1] = in[n - 2] \cup Ready(r, in[n - 2])
  BY <1>1 DEF Waves
<1>3. s \in Ready(r, in[n - 1]) /\ s \notin in[n - 2] /\ s \notin Ready(r, in[n - 2])
  BY <1>2
<1> QED
  BY <1>3 DEF Ready

-----------------------------------------------------------------------------
(***************************************************************************)
(* topoSort.                                                               *)
(***************************************************************************)

\* What a step declares.
Declared(r, s) == IF s \in r.implicit THEN {} ELSE r.declared[s]

\* One dependency more.
Further(r, nearer) ==
  [s \in Steps |-> Declared(r, s) \cup UNION {nearer[d] : d \in Declared(r, s)}]

\* What paths of dependencies lead to.
Reach(r, reach) ==
  /\ reach \in [0..N -> [Steps -> SUBSET Steps]]
  /\ reach[0] = [s \in Steps |-> Declared(r, s)]
  /\ \A n \in 1..N : reach[n] = Further(r, reach[n - 1])

\* topoSort passes what no path leads back to.
LEMMA TopoSortsIs ==
  ASSUME NEW r \in Recipe
  PROVE  \E reach : /\ Reach(r, reach)
                    /\ TopoSorts(r) <=> \A s \in Steps : s \notin reach[N][s]
<1> DEFINE D == [Steps -> SUBSET Steps]
           first == [s \in Steps |-> Declared(r, s)]
           Def(g) == g = [n \in 0..N |-> IF n = 0 THEN first ELSE Further(r, g[n - 1])]
           reach == CHOOSE g : Def(g)
<1>0. \A s \in Steps : Declared(r, s) \in SUBSET Steps
  BY DEF Declared, Recipe
<1>1. first \in D
  BY <1>0
<1>2. \A h \in D : Further(r, h) \in D
  BY <1>0 DEF Further
<1>3. TopoSorts(r) <=> \A s \in Steps : s \notin reach[N][s]
  BY DEF TopoSorts, Further, Declared
<1> HIDE DEF D, first, reach
<1>4. \E g : Def(g)
  <2> DEFINE F == [h \in D |-> Further(r, h)]
  <2>1. F \in [D -> D] /\ N \in Nat
    BY <1>2, NAssumption
  <2>2. \A h \in D : F[h] = Further(r, h)
    OBVIOUS
  <2> HIDE DEF F
  <2>3. PICK f \in [0..N -> D] : Iterates(f, N, first, F)
    BY <1>1, <2>1, IterationExists
  <2>4. \A n \in 0..N : n # 0 => f[n - 1] \in D
    BY <2>3, NAssumption
  <2>5. Def(f)
    BY <2>2, <2>3, <2>4 DEF Iterates
  <2> QED
    BY <2>5
<1>5. Def(reach)
  <2> HIDE DEF Def
  <2> QED
    BY <1>4 DEF reach
<1>6. reach[0] = first /\ \A n \in 1..N : reach[n] = Further(r, reach[n - 1])
  <2>1. /\ DOMAIN reach = 0..N
        /\ \A n \in 0..N : reach[n] = IF n = 0 THEN first ELSE Further(r, reach[n - 1])
    BY <1>5
  <2>2. 0 \in 0..N /\ \A n \in 1..N : n \in 0..N /\ n # 0
    BY NAssumption
  <2> QED
    BY <2>1, <2>2
<1>7. \A n \in 0..N : reach[n] \in D
  <2> DEFINE T == {n \in 0..N : reach[n] \in D}
  <2>1. 0 \in T /\ N \in Nat
    BY <1>1, <1>6, NAssumption
  <2>2. ASSUME NEW n \in 1..N, n - 1 \in T PROVE n \in T
    BY <1>2, <1>6, <2>2
  <2> HIDE DEF T
  <2>3. \A n \in 0..N : n \in T
    BY <2>1, <2>2, UpTo
  <2> QED
    BY <2>3 DEF T
<1>8. reach = [n \in 0..N |-> reach[n]]
  BY <1>5
<1>9. reach \in [0..N -> D]
  BY <1>7, <1>8
<1>10. Reach(r, reach)
  BY <1>6, <1>9 DEF Reach, D, first
<1> QED
  BY <1>3, <1>10

\* A step that a path leads back to is on a circle: so are all steps from which
\* a path leads to it.
LEMMA BackIsCircle ==
  ASSUME NEW r \in Recipe, NEW reach, Reach(r, reach), NEW s \in Steps, s \in reach[N][s]
  PROVE  \E S \in (SUBSET Steps) \ {{}} : \A x \in S : Declared(r, x) \cap S # {}
<1> DEFINE S == {x \in Steps : \E n \in 0..N : s \in reach[n][x]}
<1>0. N \in Nat /\ \A x \in Steps : Declared(r, x) \subseteq Steps
  BY NAssumption DEF Declared, Recipe
<1>1. s \in S
  BY <1>0
<1>2. ASSUME NEW x \in S PROVE Declared(r, x) \cap S # {}
  <2>1. PICK n \in 0..N : s \in reach[n][x]
    OBVIOUS
  <2>2. CASE n = 0
    <3>1. s \in Declared(r, x)
      BY <2>1, <2>2 DEF Reach
    <3> QED
      BY <1>0, <1>1, <3>1
  <2>3. CASE n # 0
    <3>1. n \in 1..N /\ n - 1 \in 0..N
      BY <2>3, <1>0
    <3> DEFINE nearer == reach[n - 1]
    <3>2. reach[n] = Further(r, nearer) /\ x \in Steps
      BY <3>1 DEF Reach
    <3>3. reach[n][x] = Declared(r, x) \cup UNION {nearer[d] : d \in Declared(r, x)}
      <4> HIDE DEF nearer
      <4> QED
        BY <3>2 DEF Further
    <3>4. s \in Declared(r, x) \/ \E d \in Declared(r, x) : s \in nearer[d]
      <4> HIDE DEF nearer
      <4> QED
        BY <2>1, <3>3
    <3> QED
      BY <1>0, <1>1, <3>1, <3>4
  <2> QED
    BY <2>2, <2>3
<1> HIDE DEF S
<1>3. S \subseteq Steps
  BY DEF S
<1> QED
  BY <1>1, <1>2, <1>3

\* One step of a path more at its far end, instead of its near one.
LEMMA ReachFurther ==
  ASSUME NEW r \in Recipe, NEW reach, Reach(r, reach)
  PROVE  \A n \in 1..N : \A x \in Steps : \A z :
           z \in reach[n][x] <=>
             \/ z \in Declared(r, x)
             \/ \E y \in reach[n - 1][x] : z \in Declared(r, y)
<1> DEFINE Near(n, x, z) == z \in Declared(r, x) \/ \E d \in Declared(r, x) : z \in reach[n - 1][d]
           Far(n, x, z) == z \in Declared(r, x) \/ \E y \in reach[n - 1][x] : z \in Declared(r, y)
           T == {n \in 0..N : n = 0 \/ \A x \in Steps : \A z : Near(n, x, z) <=> Far(n, x, z)}
<1>0. N \in Nat /\ \A x \in Steps : Declared(r, x) \subseteq Steps
  BY NAssumption DEF Declared, Recipe
<1>1. ASSUME NEW n \in 1..N, NEW x \in Steps, NEW z
      PROVE  z \in reach[n][x] <=> Near(n, x, z)
  <2> DEFINE nearer == reach[n - 1]
  <2>1. reach[n] = Further(r, nearer)
    BY DEF Reach
  <2>2. reach[n][x] = Declared(r, x) \cup UNION {nearer[d] : d \in Declared(r, x)}
    <3> HIDE DEF nearer
    <3> QED
      BY <2>1 DEF Further
  <2> HIDE DEF nearer
  <2>3. z \in reach[n][x] <=> z \in Declared(r, x) \/ \E d \in Declared(r, x) : z \in nearer[d]
    BY <2>2
  <2> QED
    BY <2>3 DEF nearer
<1>2. \A x \in Steps : reach[0][x] = Declared(r, x)
  BY DEF Reach
<1> HIDE DEF Near, Far
<1>3. 0 \in T
  BY <1>0
<1>4. ASSUME NEW n \in 1..N, n - 1 \in T PROVE n \in T
  <2> SUFFICES ASSUME NEW x \in Steps, NEW z PROVE Near(n, x, z) <=> Far(n, x, z)
    BY <1>0
  <2>1. CASE n = 1
    <3>1. n - 1 = 0
      BY <2>1
    <3> QED
      BY <1>0, <1>2, <3>1 DEF Near, Far
  <2>2. CASE n # 1
    <3>1. n - 1 \in 1..N /\ \A w \in Steps : \A v : Near(n - 1, w, v) <=> Far(n - 1, w, v)
      BY <1>0, <1>4, <2>2
    <3> DEFINE m == n - 1
    <3>2. \A w \in Steps : \A v : v \in reach[m][w] <=> Near(m, w, v)
      BY <1>1, <3>1
    <3>3. \A w \in Steps : \A v : v \in reach[m][w] <=> Far(m, w, v)
      BY <3>1, <3>2
    <3> DEFINE far == reach[m]
               farther == reach[m - 1]
    <3>4. \A w \in Steps : \A v :
            v \in far[w] <=> v \in Declared(r, w) \/ \E d \in Declared(r, w) : v \in farther[d]
      BY <3>2 DEF Near
    <3>5. \A w \in Steps : \A v :
            v \in far[w] <=> v \in Declared(r, w) \/ \E y \in farther[w] : v \in Declared(r, y)
      BY <3>3 DEF Far
    <3>6. Near(n, x, z) <=> z \in Declared(r, x) \/ \E d \in Declared(r, x) : z \in far[d]
      BY DEF Near
    <3>7. Far(n, x, z) <=> z \in Declared(r, x) \/ \E y \in far[x] : z \in Declared(r, y)
      BY DEF Far
    <3> HIDE DEF far, farther, T
    <3>8. (\E d \in Declared(r, x) : z \in far[d]) <=>
            \E d \in Declared(r, x) : z \in Declared(r, d) \/ \E y \in farther[d] : z \in Declared(r, y)
      BY <1>0, <3>5
    <3>9. (\E y \in far[x] : z \in Declared(r, y)) <=>
            \/ \E y \in Declared(r, x) : z \in Declared(r, y)
            \/ \E d \in Declared(r, x) : \E y \in farther[d] : z \in Declared(r, y)
      BY <3>4
    <3> QED
      BY <3>6, <3>7, <3>8, <3>9
  <2> QED
    BY <2>1, <2>2
<1>5. \A n \in 0..N : n \in T
  <2> HIDE DEF T
  <2> QED
    BY <1>0, <1>3, <1>4, UpTo
<1>6. \A n \in 1..N : n \in 0..N /\ n # 0
  BY <1>0
<1> QED
  BY <1>1, <1>5, <1>6 DEF Far

\* What the steps of a set declare is in the set.
Complete(r, S) == \A y \in S : Declared(r, y) \subseteq S

\* Paths of N dependencies lead to all that any path leads to.
LEMMA ReachIsComplete ==
  ASSUME NEW r \in Recipe, NEW reach, Reach(r, reach), NEW x \in Steps
  PROVE  Declared(r, x) \subseteq reach[N][x] /\ Complete(r, reach[N][x])
<1> DEFINE R(n) == reach[n][x]
           T == {n \in 0..N : /\ Declared(r, x) \subseteq R(n)
                              /\ Complete(r, R(n)) \/ Cardinality(R(n)) >= n + 1}
<1>0. N \in Nat /\ Declared(r, x) \subseteq Steps /\ \A n \in 0..N : R(n) \subseteq Steps
  BY NAssumption DEF Declared, Recipe, Reach
<1>1. \A n \in 0..N : IsFiniteSet(R(n)) /\ Cardinality(R(n)) \in Nat
  BY <1>0, StepSets
<1>2. R(0) = Declared(r, x)
  BY DEF Reach
<1>3. \A n \in 1..N : \A z :
        z \in R(n) <=> z \in Declared(r, x) \/ \E y \in R(n - 1) : z \in Declared(r, y)
  BY ReachFurther
<1>4. \A n \in 1..N : R(n - 1) \subseteq R(n)
  <2> DEFINE U == {n \in 0..N : n = 0 \/ R(n - 1) \subseteq R(n)}
  <2> HIDE DEF R
  <2>1. 0 \in U
    BY <1>0
  <2>2. ASSUME NEW n \in 1..N, n - 1 \in U PROVE n \in U
    <3>1. CASE n = 1
      BY <1>0, <1>2, <1>3, <3>1
    <3>2. CASE n # 1
      <4>1. n - 1 \in 1..N /\ R((n - 1) - 1) \subseteq R(n - 1)
        BY <1>0, <2>2, <3>2
      <4> QED
        BY <1>0, <1>3, <4>1
    <3> QED
      BY <3>1, <3>2
  <2>3. \A n \in 0..N : n \in U
    <3> HIDE DEF U
    <3> QED
      BY <1>0, <2>1, <2>2, UpTo
  <2>4. \A n \in 1..N : n \in 0..N /\ n # 0
    BY <1>0
  <2> QED
    BY <2>3, <2>4
<1> HIDE DEF R
<1>5. 0 \in T
  <2>1. CASE R(0) = {}
    BY <1>0, <1>2, <2>1 DEF Complete
  <2>2. CASE R(0) # {}
    <3>1. Cardinality(R(0)) # 0 /\ Cardinality(R(0)) \in Nat
      BY <1>0, <1>1, <2>2, FS_EmptySet
    <3> QED
      BY <1>0, <1>2, <3>1
  <2> QED
    BY <2>1, <2>2
<1>6. ASSUME NEW n \in 1..N, n - 1 \in T PROVE n \in T
  <2>1. /\ n \in 0..N /\ n - 1 \in 0..N /\ n \in Nat /\ Declared(r, x) \subseteq R(n - 1)
        /\ R(n - 1) \subseteq R(n)
    BY <1>0, <1>4, <1>6
  <2>2. CASE Complete(r, R(n - 1))
    <3>1. R(n) = R(n - 1)
      BY <1>3, <2>1, <2>2 DEF Complete
    <3> QED
      BY <2>1, <2>2, <3>1
  <2>3. CASE ~Complete(r, R(n - 1))
    <3>1. PICK y \in R(n - 1) : ~(Declared(r, y) \subseteq R(n - 1))
      BY <2>3 DEF Complete
    <3>2. PICK z \in Declared(r, y) : z \notin R(n - 1)
      BY <3>1
    <3>3. R(n - 1) \cup {z} \subseteq R(n)
      BY <1>3, <2>1, <3>1, <3>2
    <3>4. Cardinality(R(n - 1) \cup {z}) = Cardinality(R(n - 1)) + 1
      BY <1>1, <2>1, <3>2, FS_AddElement
    <3>5. Cardinality(R(n - 1) \cup {z}) <= Cardinality(R(n))
      BY <1>1, <2>1, <3>3, FS_Subset
    <3>6. Cardinality(R(n - 1)) >= n
      BY <1>6, <2>1, <2>3
    <3> DEFINE b == Cardinality(R(n - 1))
               c == Cardinality(R(n))
    <3>7. b \in Nat /\ c \in Nat /\ n \in Nat /\ b + 1 <= c /\ b >= n
      BY <1>1, <2>1, <3>4, <3>5, <3>6
    <3>8. c >= n + 1
      <4> HIDE DEF b, c
      <4> QED
        BY ONLY <3>7
    <3> QED
      BY <2>1, <3>8
  <2> QED
    BY <2>2, <2>3
<1>7. N \in T
  <2>1. \A n \in 0..N : n \in T
    <3> HIDE DEF T
    <3> QED
      BY <1>0, <1>5, <1>6, UpTo
  <2> QED
    BY <1>0, <2>1
<1>8. ~(Cardinality(R(N)) >= N + 1)
  <2>1. IsFiniteSet(Steps) /\ Cardinality(Steps) = N
    BY NAssumption, FS_Interval DEF Steps
  <2>2. Cardinality(R(N)) <= N /\ Cardinality(R(N)) \in Nat
    BY <1>0, <1>1, <2>1, FS_Subset
  <2> QED
    BY <1>0, <2>2
<1> QED
  BY <1>7, <1>8 DEF R

\* What a step leads to leads no further.
LEMMA ReachNested ==
  ASSUME NEW r \in Recipe, NEW reach, Reach(r, reach), NEW x \in Steps, NEW d \in reach[N][x]
  PROVE  d \in Steps /\ reach[N][d] \subseteq reach[N][x]
<1> DEFINE T == {n \in 0..N : reach[n][d] \subseteq reach[N][x]}
<1>0. N \in Nat /\ d \in Steps
  BY NAssumption DEF Reach
<1>1. Complete(r, reach[N][x])
  BY ReachIsComplete
<1>2. 0 \in T
  BY <1>0, <1>1 DEF Reach, Complete
<1>3. ASSUME NEW n \in 1..N, n - 1 \in T PROVE n \in T
  <2>1. \A z : z \in reach[n][d] =>
          \/ z \in Declared(r, d)
          \/ \E y \in reach[n - 1][d] : z \in Declared(r, y)
    BY <1>0, ReachFurther
  <2>2. n \in 0..N /\ reach[n - 1][d] \subseteq reach[N][x]
    BY <1>0, <1>3
  <2> QED
    BY <1>1, <2>1, <2>2 DEF Complete
<1>4. \A n \in 0..N : n \in T
  <2> HIDE DEF T
  <2> QED
    BY <1>0, <1>2, <1>3, UpTo
<1> QED
  BY <1>0, <1>4

\* On a circle of declared dependencies some step is led back to: one of those
\* that lead to fewest, as the next one on the circle leads to no fewer.
LEMMA CircleIsBack ==
  ASSUME NEW r \in Recipe, NEW reach, Reach(r, reach),
         NEW S, S \in (SUBSET Steps) \ {{}}, \A s \in S : Declared(r, s) \cap S # {}
  PROVE  \E s \in Steps : s \in reach[N][s]
<1> DEFINE R(s) == reach[N][s]
           Sizes == {Cardinality(R(s)) : s \in S}
<1>1. \A s \in S : s \in Steps /\ R(s) \subseteq Steps
  BY NAssumption DEF Reach
<1>2. \A s \in S : IsFiniteSet(R(s)) /\ Cardinality(R(s)) \in Nat
  BY <1>1, StepSets
<1>3. PICK least \in Sizes : \A k \in Sizes : least <= k
  <2>1. Sizes \subseteq Nat /\ Sizes # {}
    <3> HIDE DEF R
    <3> QED
      BY <1>2
  <2> HIDE DEF Sizes
  <2> QED
    BY <2>1, LeastNumber
<1>4. PICK s \in S : \A x \in S : Cardinality(R(s)) <= Cardinality(R(x))
  <2> HIDE DEF R
  <2> QED
    BY <1>3
<1>5. PICK d \in S : d \in Declared(r, s)
  OBVIOUS
<1>6. d \in R(s)
  BY <1>1, <1>5, ReachIsComplete
<1>7. R(d) \subseteq R(s)
  BY <1>1, <1>6, ReachNested
<1>8. R(d) = R(s)
  <2> HIDE DEF R
  <2>1. Cardinality(R(d)) <= Cardinality(R(s)) /\ (Cardinality(R(d)) = Cardinality(R(s)) => R(d) = R(s))
    BY <1>2, <1>7, FS_Subset
  <2>2. Cardinality(R(s)) <= Cardinality(R(d)) /\ Cardinality(R(d)) \in Nat /\ Cardinality(R(s)) \in Nat
    BY <1>2, <1>4
  <2> QED
    BY <2>1, <2>2
<1> QED
  BY <1>1, <1>6, <1>8

\* topoSort refuses just the recipes whose declared dependencies run in a
\* circle, whatever the order in which it visits the steps.
THEOREM TopoSortRefusesCircles ==
  ASSUME NEW r \in Recipe
  PROVE  TopoSorts(r) <=> ~\E S \in (SUBSET Steps) \ {{}} : \A s \in S : Declared(r, s) \cap S # {}
<1>1. PICK reach : /\ Reach(r, reach)
                   /\ TopoSorts(r) <=> \A s \in Steps : s \notin reach[N][s]
  BY TopoSortsIs
<1>2. ASSUME NEW s \in Steps, s \in reach[N][s]
      PROVE  \E S \in (SUBSET Steps) \ {{}} : \A x \in S : Declared(r, x) \cap S # {}
  BY <1>1, <1>2, BackIsCircle
<1>3. ASSUME NEW S \in (SUBSET Steps) \ {{}}, \A s \in S : Declared(r, s) \cap S # {}
      PROVE  \E s \in Steps : s \in reach[N][s]
  BY <1>1, <1>3, CircleIsBack
<1> QED
  BY <1>1, <1>2, <1>3

\* Where toWaves finds no circle topoSort, which looks at fewer dependencies,
\* finds none either.
THEOREM WavesImplyTopoSorts ==
  ASSUME NEW r \in Recipe, HasWaves(r)
  PROVE  TopoSorts(r)
<1>1. \A s : Declared(r, s) \subseteq DepsOf(r, s)
  BY DEF Declared, DepsOf
<1>2. \A S \in (SUBSET Steps) \ {{}} : (\A s \in S : Declared(r, s) \cap S # {}) => Circle(r, S)
  BY <1>1 DEF Circle
<1> QED
  BY <1>2, TopoSortRefusesCircles, WavesRefuseCircles

-----------------------------------------------------------------------------
(***************************************************************************)
(* Types.  The actions fall into the runner's own and the callbacks of     *)
(* components, timers, operator and cancel, which leave the runner's       *)
(* variables alone and touch only steps that are out.                      *)
(***************************************************************************)

OutStates == {"invoked", "paused", "resumed"}

Callback == \/ \E s \in Steps : StepProgress(s) \/ Respond(s) \/ Mismatch(s)
            \/ Cancel

\* A callback changes a step only while it is out, and starts or records none.
CallbackEffect ==
  /\ UNCHANGED <<recipe, stage, later, failedStep>>
  /\ \A s \in Steps :
       \/ step'[s] = step[s] /\ exit'[s] = exit[s]
       \/ step[s] \in OutStates /\ step'[s] \in {"paused", "resumed", "settled"}

\* What a wave that begins does to the steps.
LEMMA BeginWaveType ==
  ASSUME TypeOK, NEW wave, wave \subseteq Steps, BeginWave(wave)
  PROVE  later' \subseteq Steps /\ step' \in [Steps -> StepStates]
BY DEF TypeOK, BeginWave, StepStates, Chunk

\* The steps that form the next wave are steps.
LEMMA NextWaveType ==
  ASSUME TypeOK, NEW recorded
  PROVE  Ready(recipe, recorded) \subseteq Steps /\ later \subseteq Steps
BY DEF TypeOK, Ready

\* The verdict is one of the statuses of the audit row.
LEMMA FinishType ==
  ASSUME TypeOK, Finish
  PROVE  /\ stage' \in {"loaded", "running", "ended", "refused"}
         /\ audit' \in {"none", "running", "paused", "success", "failed", "cancelled"}
         /\ later' \subseteq Steps
BY DEF TypeOK, Finish, Verdict

\* The runner's steps keep the types.
LEMMA RunnerTypeOK == TypeOK /\ Runner => TypeOK'
<1> SUFFICES ASSUME TypeOK, Runner PROVE TypeOK'
  OBVIOUS
<1>0. UNCHANGED <<recipe, exit, aborted, pause>>
  BY DEF Runner, Start, ChunkHalts, ChunkPasses
<1>1. CASE Start
  <2>1. CASE TopoSorts(recipe) /\ HasWaves(recipe)
    <3>1. BeginWave(Ready(recipe, {})) /\ stage' = "running" /\ audit' = "running"
      BY <1>1, <2>1 DEF Start
    <3>2. later' \subseteq Steps /\ step' \in [Steps -> StepStates]
      BY <3>1, NextWaveType, BeginWaveType
    <3> QED
      BY <1>0, <1>1, <3>1, <3>2 DEF Start, TypeOK
  <2>2. CASE ~(TopoSorts(recipe) /\ HasWaves(recipe))
    BY <1>0, <1>1, <2>2 DEF Start, TypeOK
  <2> QED
    BY <2>1, <2>2
<1>2. CASE ChunkHalts
  <2>1. failedStep' \in 0..N
    BY <1>2, NAssumption DEF ChunkHalts, Halting, Current, In, Steps
  <2>2. step' \in [Steps -> StepStates]
    BY <1>2 DEF ChunkHalts, TypeOK, StepStates
  <2>3. Finish
    BY <1>2 DEF ChunkHalts
  <2> QED
    BY <1>0, <2>1, <2>2, <2>3, FinishType DEF TypeOK
<1>3. CASE ChunkPasses
  <2> DEFINE recorded == In({"recorded", "settled"})
             wave == IF later # {} THEN later ELSE Ready(recipe, recorded)
  <2>1. failedStep' = failedStep
    BY <1>3 DEF ChunkPasses
  <2>2. CASE recorded = Steps
    <3>1. step' = [s \in Steps |-> "recorded"] /\ Finish
      BY <1>3, <2>2 DEF ChunkPasses
    <3>2. step' \in [Steps -> StepStates]
      BY <3>1 DEF StepStates
    <3> QED
      BY <1>0, <2>1, <3>1, <3>2, FinishType DEF TypeOK
  <2>3. CASE recorded # Steps
    <3>1. BeginWave(wave) /\ UNCHANGED <<stage, audit>>
      BY <1>3, <2>3 DEF ChunkPasses
    <3>2. wave \subseteq Steps
      BY NextWaveType
    <3>3. later' \subseteq Steps /\ step' \in [Steps -> StepStates]
      BY <3>1, <3>2, BeginWaveType
    <3> QED
      BY <1>0, <2>1, <3>1, <3>3 DEF TypeOK
  <2> QED
    BY <2>2, <2>3
<1> QED
  BY <1>1, <1>2, <1>3 DEF Runner

\* The callbacks keep the types.
LEMMA CallbackTypeOK == TypeOK /\ Callback => TypeOK'
<1> SUFFICES ASSUME TypeOK, Callback PROVE TypeOK'
  OBVIOUS
<1> USE DEF TypeOK, StepStates, Exits, PauseStates
<1>1. ASSUME NEW s \in Steps, NEW how \in {"ok", "failed", "threw"}, Exit(s, how)
      PROVE  TypeOK'
  BY <1>1 DEF Exit, Settle
<1>2. ASSUME NEW s \in Steps, Pauses(s) PROVE TypeOK'
  BY <1>2 DEF Pauses, Settle
<1>3. ASSUME NEW s \in Steps, Timeout(s) PROVE TypeOK'
  BY <1>3 DEF Timeout, Rejects, Settle
<1>4. ASSUME NEW s \in Steps, Respond(s) PROVE TypeOK'
  BY <1>4 DEF Respond
<1>5. ASSUME NEW s \in Steps, Mismatch(s) PROVE TypeOK'
  BY <1>5 DEF Mismatch, Rejects, Settle
<1>6. CASE Cancel
  BY <1>6 DEF Cancel
<1> QED
  BY <1>1, <1>2, <1>3, <1>4, <1>5, <1>6 DEF Callback, StepProgress

\* What every callback has in common.
LEMMA CallbackChanges == TypeOK /\ Callback => CallbackEffect
<1> SUFFICES ASSUME TypeOK, Callback PROVE CallbackEffect
  OBVIOUS
<1> USE DEF TypeOK, CallbackEffect, OutStates
<1>1. ASSUME NEW s \in Steps, NEW how \in {"ok", "failed", "threw"}, Exit(s, how)
      PROVE  CallbackEffect
  BY <1>1 DEF Exit, Settle
<1>2. ASSUME NEW s \in Steps, Pauses(s) PROVE CallbackEffect
  BY <1>2 DEF Pauses, Settle
<1>3. ASSUME NEW s \in Steps, Timeout(s) PROVE CallbackEffect
  BY <1>3 DEF Timeout, Rejects, Settle
<1>4. ASSUME NEW s \in Steps, Respond(s) PROVE CallbackEffect
  BY <1>4 DEF Respond
<1>5. ASSUME NEW s \in Steps, Mismatch(s) PROVE CallbackEffect
  BY <1>5 DEF Mismatch, Rejects, Settle
<1>6. CASE Cancel
  BY <1>6 DEF Cancel
<1> QED
  BY <1>1, <1>2, <1>3, <1>4, <1>5, <1>6 DEF Callback, StepProgress

\* Every step keeps the types.
LEMMA TypeStep == TypeOK /\ [Next]_vars => TypeOK'
<1>1. TypeOK /\ UNCHANGED vars => TypeOK'
  BY DEF TypeOK, vars
<1> QED
  BY <1>1, RunnerTypeOK, CallbackTypeOK DEF Next, Callback

\* The type invariant, for every set of recipes of any length.
THEOREM SpecTypeOK == Spec => []TypeOK
<1>1. Init => TypeOK
  <2> SUFFICES ASSUME Init PROVE TypeOK
    OBVIOUS
  <2>1. failedStep \in 0..N
    BY NAssumption DEF Init
  <2>2. /\ step \in [Steps -> StepStates]
        /\ exit \in [Steps -> Exits]
        /\ pause \in [Steps -> PauseStates]
    BY DEF Init, StepStates, Exits, PauseStates
  <2> QED
    BY <2>1, <2>2 DEF Init, TypeOK
<1> QED
  BY <1>1, TypeStep, PTL DEF Spec

-----------------------------------------------------------------------------
(***************************************************************************)
(* Order and width.  That inputs are there is inductive together with what *)
(* it takes for the steps a later chunk will invoke: they still wait, and  *)
(* what they need is recorded already.                                     *)
(***************************************************************************)

Order ==
  /\ InputsAreThere
  /\ \A s \in later : /\ step[s] = "waiting"
                       /\ \A d \in DepsOf(recipe, s) : step[d] = "recorded"
  /\ stage \in {"loaded", "refused"} => \A s \in Steps : step[s] = "waiting"
  /\ stage = "ended" => \A s \in Steps : step[s] \notin OutStates

OrderInv == Order /\ WithinWidth

\* When a chunk has settled no step is out.
LEMMA SettledSteps ==
  ASSUME TypeOK, ChunkSettled
  PROVE  \A s \in Steps : step[s] \in {"waiting", "settled", "recorded"}
BY DEF TypeOK, StepStates, ChunkSettled, Current, In

\* A wave begins in order if its steps wait, have what they need, and no other
\* step is out.
LEMMA WaveInOrder ==
  ASSUME TypeOK, Order, NEW wave, wave \subseteq Steps, BeginWave(wave),
         recipe' = recipe, stage' = "running",
         \A s \in Steps : step[s] \in {"waiting", "settled", "recorded"},
         \A s \in wave : /\ step[s] = "waiting"
                         /\ \A d \in DepsOf(recipe, s) : step[d] \in {"recorded", "settled"}
  PROVE  OrderInv'
<1> DEFINE chunk == Chunk(recipe, wave)
<1>1. chunk \subseteq wave
  BY DEF Chunk
<1>2. recipe \in Recipe
  BY RecipesAssumption DEF TypeOK
<1>3. \A s \in Steps : DepsOf(recipe, s) \subseteq Steps
  BY <1>2, DepsType
<1>4. \A s \in Steps : step'[s] = IF s \in chunk THEN "invoked"
                                 ELSE IF step[s] = "settled" THEN "recorded" ELSE step[s]
  BY DEF BeginWave, Current, In
<1>5. later' = wave \ chunk
  BY DEF BeginWave
<1> HIDE DEF chunk
<1>6. \A d \in Steps : step[d] \in {"recorded", "settled"} => step'[d] = "recorded"
  BY <1>1, <1>4
<1>7. InputsAreThere'
  <2> SUFFICES ASSUME NEW s \in Steps, step'[s] # "waiting", NEW d \in DepsOf(recipe, s)
               PROVE  step'[d] = "recorded"
    BY DEF InputsAreThere
  <2>1. step[d] \in {"recorded", "settled"}
    BY <1>1, <1>4 DEF Order, InputsAreThere
  <2> QED
    BY <1>3, <1>6, <2>1
<1>8. \A s \in later' : /\ step'[s] = "waiting"
                        /\ \A d \in DepsOf(recipe', s) : step'[d] = "recorded"
  BY <1>3, <1>4, <1>5, <1>6
<1>9. WithinWidth'
  <2>1. In({"invoked", "paused", "resumed"})' \subseteq chunk
    BY <1>4 DEF In
  <2>2. IsFiniteSet(chunk)
    BY <1>1, StepSets
  <2>3. Cardinality(chunk) <= recipe.width
    BY <1>2, ChunkWithinWidth DEF chunk
  <2>4. /\ Cardinality(In({"invoked", "paused", "resumed"})') <= Cardinality(chunk)
        /\ Cardinality(In({"invoked", "paused", "resumed"})') \in Nat
        /\ Cardinality(chunk) \in Nat
    BY <2>1, <2>2, FS_Subset, FS_CardinalityType
  <2>5. recipe.width \in Nat
    BY <1>2 DEF Recipe
  <2> QED
    BY <2>3, <2>4, <2>5 DEF WithinWidth
<1> QED
  BY <1>7, <1>8, <1>9 DEF OrderInv, Order

\* Fewer steps that are out are within the width as well.
LEMMA FewerOut ==
  ASSUME TypeOK, WithinWidth, recipe' = recipe,
         \A s \in Steps : step'[s] \in OutStates => step[s] \in OutStates
  PROVE  WithinWidth'
<1> DEFINE out == In({"invoked", "paused", "resumed"})
<1>1. IsFiniteSet(out)
  BY StepSets DEF In
<1>2. out' \subseteq out
  BY DEF In, OutStates
<1>3. Cardinality(out') <= Cardinality(out) /\ Cardinality(out') \in Nat /\ Cardinality(out) \in Nat
  BY <1>1, <1>2, FS_Subset, FS_CardinalityType
<1>4. recipe.width \in Nat
  BY RecipesAssumption DEF TypeOK, Recipe
<1> QED
  BY <1>3, <1>4 DEF WithinWidth

\* The runner keeps the order and the width.
LEMMA RunnerOrder == TypeOK /\ OrderInv /\ Runner => OrderInv'
<1> SUFFICES ASSUME TypeOK, OrderInv, Runner PROVE OrderInv'
  OBVIOUS
<1>0. recipe' = recipe
  BY DEF Runner, Start, ChunkHalts, ChunkPasses
<1>1. CASE Start
  <2>1. \A s \in Steps : step[s] = "waiting"
    BY <1>1 DEF Start, OrderInv, Order
  <2>2. CASE TopoSorts(recipe) /\ HasWaves(recipe)
    <3>1. BeginWave(Ready(recipe, {})) /\ stage' = "running"
      BY <1>1, <2>2 DEF Start
    <3>2. \A s \in Ready(recipe, {}) : s \in Steps /\ DepsOf(recipe, s) = {}
      BY DEF Ready
    <3> QED
      BY <1>0, <2>1, <3>1, <3>2, NextWaveType, WaveInOrder DEF OrderInv
  <2>3. CASE ~(TopoSorts(recipe) /\ HasWaves(recipe))
    <3>1. UNCHANGED <<recipe, later, step>> /\ stage' = "refused"
      BY <1>1, <2>3 DEF Start
    <3>2. WithinWidth'
      BY <3>1, FewerOut DEF OrderInv
    <3> QED
      BY <2>1, <3>1, <3>2 DEF OrderInv, Order, InputsAreThere
  <2> QED
    BY <2>2, <2>3
<1>2. CASE ChunkHalts
  <2>1. /\ stage' = "ended" /\ later' = later
        /\ \A s \in Steps : step'[s] = step[s] \/ (step[s] = "settled" /\ step'[s] = "recorded")
    BY <1>2 DEF ChunkHalts, Finish, ChunkSettled, Current, In
  <2>2. \A s \in Steps : step[s] \in {"waiting", "settled", "recorded"}
    BY <1>2, SettledSteps DEF ChunkHalts
  <2>3. \A s \in Steps : DepsOf(recipe, s) \subseteq Steps
    BY RecipesAssumption, DepsType DEF TypeOK
  <2>4. WithinWidth'
    BY <1>0, <2>1, <2>2, FewerOut DEF OrderInv, OutStates
  <2>5. InputsAreThere'
    BY <1>0, <2>1, <2>3 DEF OrderInv, Order, InputsAreThere
  <2>6. \A s \in later' : /\ step'[s] = "waiting"
                          /\ \A d \in DepsOf(recipe', s) : step'[d] = "recorded"
    BY <1>0, <2>1, <2>3 DEF OrderInv, Order, TypeOK
  <2> QED
    BY <2>1, <2>2, <2>4, <2>5, <2>6 DEF OrderInv, Order, OutStates
<1>3. CASE ChunkPasses
  <2> DEFINE recorded == In({"recorded", "settled"})
             wave == IF later # {} THEN later ELSE Ready(recipe, recorded)
  <2>1. \A s \in Steps : step[s] \in {"waiting", "settled", "recorded"}
    BY <1>3, SettledSteps DEF ChunkPasses
  <2>2. CASE recorded = Steps
    <3>1. /\ step' = [s \in Steps |-> "recorded"]
          /\ stage' = "ended" /\ later' = later
      BY <1>3, <2>2 DEF ChunkPasses, Finish
    <3>2. later = {}
      BY <2>2 DEF TypeOK, OrderInv, Order, In
    <3>3. WithinWidth'
      BY <1>0, <3>1, FewerOut DEF OrderInv, OutStates
    <3>4. \A s \in Steps : DepsOf(recipe, s) \subseteq Steps
      BY RecipesAssumption, DepsType DEF TypeOK
    <3> QED
      BY <1>0, <3>1, <3>2, <3>3, <3>4 DEF OrderInv, Order, InputsAreThere, OutStates
  <2>3. CASE recorded # Steps
    <3>1. BeginWave(wave) /\ stage' = "running"
      BY <1>3, <2>3 DEF ChunkPasses, ChunkSettled
    <3>2. wave \subseteq Steps
      BY NextWaveType
    <3>3. \A s \in wave : /\ step[s] = "waiting"
                          /\ \A d \in DepsOf(recipe, s) : step[d] \in {"recorded", "settled"}
      <4>1. CASE later # {}
        BY <4>1 DEF OrderInv, Order
      <4>2. CASE later = {}
        BY <2>1, <4>2 DEF Ready, In
      <4> QED
        BY <4>1, <4>2
    <3> HIDE DEF wave
    <3> QED
      BY <1>0, <2>1, <3>1, <3>2, <3>3, WaveInOrder DEF OrderInv
  <2> QED
    BY <2>2, <2>3
<1> QED
  BY <1>1, <1>2, <1>3 DEF Runner

\* The callbacks keep the order and the width.
LEMMA CallbackOrder == TypeOK /\ OrderInv /\ Callback => OrderInv'
<1> SUFFICES ASSUME TypeOK, OrderInv, Callback PROVE OrderInv'
  OBVIOUS
<1>1. CallbackEffect
  BY CallbackChanges
<1>2. \A s \in Steps : DepsOf(recipe, s) \subseteq Steps
  BY RecipesAssumption, DepsType DEF TypeOK
<1>3. WithinWidth'
  BY <1>1, FewerOut DEF OrderInv, CallbackEffect
<1>4. InputsAreThere'
  BY <1>1, <1>2 DEF OrderInv, Order, InputsAreThere, CallbackEffect, OutStates
<1>5. \A s \in later' : /\ step'[s] = "waiting"
                        /\ \A d \in DepsOf(recipe', s) : step'[d] = "recorded"
  BY <1>1, <1>2 DEF OrderInv, Order, CallbackEffect, OutStates, TypeOK
<1> QED
  BY <1>1, <1>3, <1>4, <1>5 DEF OrderInv, Order, CallbackEffect, OutStates

\* Every step keeps the order and the width.
LEMMA OrderStep == TypeOK /\ OrderInv /\ [Next]_vars => OrderInv'
<1> SUFFICES ASSUME TypeOK, OrderInv, UNCHANGED vars PROVE OrderInv'
  BY RunnerOrder, CallbackOrder DEF Next, Callback
<1>1. WithinWidth'
  BY FewerOut DEF OrderInv, vars
<1> QED
  BY <1>1 DEF OrderInv, Order, InputsAreThere, vars

\* Types, order and width hold in every run.
THEOREM SpecOrder == Spec => []OrderInv
<1>1. Init => OrderInv
  <2> SUFFICES ASSUME Init PROVE OrderInv
    OBVIOUS
  <2>1. In({"invoked", "paused", "resumed"}) = {}
    BY DEF Init, In
  <2>2. recipe.width \in 1..16
    BY RecipesAssumption DEF Init, Recipe
  <2>3. WithinWidth
    BY <2>1, <2>2, FS_EmptySet DEF WithinWidth
  <2> QED
    BY <2>3 DEF Init, OrderInv, Order, InputsAreThere
<1> QED
  BY <1>1, OrderStep, SpecTypeOK, PTL DEF Spec

\* A component is invoked only when the results of all its dependencies are
\* recorded, whatever runs side by side.
THEOREM SpecInputsAreThere == Spec => []InputsAreThere
<1>1. OrderInv => InputsAreThere
  BY DEF OrderInv, Order
<1> QED
  BY <1>1, SpecOrder, PTL

\* No more components than max_parallelism are out at a time.
THEOREM SpecWithinWidth == Spec => []WithinWidth
<1>1. OrderInv => WithinWidth
  BY DEF OrderInv
<1> QED
  BY <1>1, SpecOrder, PTL

-----------------------------------------------------------------------------
(***************************************************************************)
(* Waves.  The runner of the model looks for the next wave when the last   *)
(* one is recorded; that it finds the wave computed before the run began,  *)
(* and that it finds one, follows from what is known of the waves.         *)
(***************************************************************************)

\* A run begins only for a recipe whose steps are all in waves.
Accepted ==
  /\ stage = "refused" => ~(TopoSorts(recipe) /\ HasWaves(recipe))
  /\ stage \in {"running", "ended"} => HasWaves(recipe)

\* The steps that have begun.
Begun == {s \in Steps : step[s] # "waiting"}

WaveInv == Accepted /\ OneWaveAtATime /\ RunningHasWork

\* Start finds the first wave.
LEMMA StartWaves ==
  ASSUME TypeOK, OrderInv, WaveInv, Start
  PROVE  WaveInv'
<1>0. recipe' = recipe /\ recipe \in Recipe /\ stage = "loaded" /\ N \in Nat \ {0}
  BY RecipesAssumption, NAssumption DEF Start, TypeOK
<1>1. \A s \in Steps : step[s] = "waiting"
  BY <1>0 DEF OrderInv, Order
<1>2. CASE ~(TopoSorts(recipe) /\ HasWaves(recipe))
  BY <1>0, <1>2 DEF Start, WaveInv, Accepted, OneWaveAtATime, RunningHasWork
<1>3. CASE TopoSorts(recipe) /\ HasWaves(recipe)
  <2> DEFINE wave == Ready(recipe, {})
             chunk == Chunk(recipe, wave)
  <2>1. /\ stage' = "running" /\ later' = wave \ chunk
        /\ step' = [s \in Steps |-> IF s \in chunk THEN "invoked"
                                    ELSE IF s \in Current THEN "recorded" ELSE step[s]]
    BY <1>0, <1>3 DEF Start, BeginWave
  <2>2. wave \subseteq Steps /\ chunk \subseteq wave
    BY DEF Ready, Chunk
  <2>3. wave # {}
    <3>1. 1 \in Steps
      BY <1>0 DEF Steps
    <3> QED
      BY <1>0, <1>3, <3>1, SomeReady, WavesRefuseCircles
  <2>4. PICK c \in chunk : TRUE
    BY <1>0, <2>2, <2>3, ChunkHasStep
  <2> HIDE DEF chunk
  <2>5. RunningHasWork'
    BY <2>1, <2>2, <2>4 DEF RunningHasWork, Current, In
  <2>6. Begun' = chunk
    BY <1>1, <2>1, <2>2 DEF Begun, Current, In
  <2>7. /\ InWaves(recipe)[0] = {}
        /\ InWaves(recipe)[1] = InWaves(recipe)[0] \cup Ready(recipe, InWaves(recipe)[0])
    <3>1. 1 \in 1..N /\ 1 - 1 = 0
      BY <1>0
    <3> QED
      BY <3>1, InWavesIs DEF Waves
  <2>8. OneWaveAtATime'
    <3>1. InWaves(recipe)[1] = later' \cup Begun'
      BY <2>1, <2>2, <2>6, <2>7
    <3>2. 1 \in 1..N /\ InWaves(recipe)[1 - 1] = {}
      BY <1>0, <2>7
    <3> QED
      BY <1>0, <3>1, <3>2 DEF OneWaveAtATime, Begun
  <2> QED
    BY <1>0, <1>3, <2>1, <2>5, <2>8 DEF WaveInv, Accepted
<1> QED
  BY <1>2, <1>3

\* A chunk that passes is followed by the next of its wave, or by the first of
\* the next wave.
LEMMA PassWaves ==
  ASSUME TypeOK, OrderInv, WaveInv, ChunkPasses
  PROVE  WaveInv'
<1> DEFINE recorded == In({"recorded", "settled"})
           wave == IF later # {} THEN later ELSE Ready(recipe, recorded)
           chunk == Chunk(recipe, wave)
           W == InWaves(recipe)
<1>0. /\ recipe' = recipe /\ recipe \in Recipe /\ stage = "running" /\ N \in Nat \ {0}
      /\ HasWaves(recipe) /\ Waves(recipe, W)
  BY RecipesAssumption, NAssumption, InWavesIs
  DEF ChunkPasses, ChunkSettled, TypeOK, WaveInv, Accepted
<1>1. \A s \in Steps : step[s] \in {"waiting", "settled", "recorded"}
  BY SettledSteps DEF ChunkPasses
<1>2. CASE recorded = Steps
  <2>1. stage' = "ended"
    BY <1>2 DEF ChunkPasses, Finish
  <2> QED
    BY <1>0, <2>1 DEF WaveInv, Accepted, OneWaveAtATime, RunningHasWork
<1>3. CASE recorded # Steps
  <2>1. /\ stage' = "running" /\ later' = wave \ chunk
        /\ step' = [s \in Steps |-> IF s \in chunk THEN "invoked"
                                    ELSE IF s \in Current THEN "recorded" ELSE step[s]]
    BY <1>0, <1>3 DEF ChunkPasses, BeginWave
  <2>2. Begun = recorded /\ recorded \subseteq Steps
    BY <1>1 DEF Begun, In
  <2>3. /\ wave \subseteq Steps /\ chunk \subseteq wave
        /\ \A s \in wave : step[s] = "waiting"
    <3>1. CASE later # {}
      BY <3>1 DEF OrderInv, Order, TypeOK, Chunk
    <3>2. CASE later = {}
      BY <1>1, <3>2 DEF Ready, Chunk, In
    <3> QED
      BY <3>1, <3>2
  <2>4. wave # {}
    <3>1. CASE later # {}
      BY <3>1
    <3>2. CASE later = {}
      BY <1>0, <1>3, <2>2, <3>2, SomeReady, WavesRefuseCircles
    <3> QED
      BY <3>1, <3>2
  <2>5. PICK c \in chunk : TRUE
    BY <1>0, <2>3, <2>4, ChunkHasStep
  <2> DEFINE recordedNext == {s \in Steps : step'[s] = "recorded"}
             begunNext == {s \in Steps : step'[s] # "waiting"}
  <2>6. recordedNext = recorded /\ begunNext = recorded \cup chunk
    <3> HIDE DEF wave, chunk
    <3> QED
      BY <1>1, <2>1, <2>3 DEF Current, In
  <2>7. RunningHasWork'
    <3> HIDE DEF wave, chunk
    <3> QED
      BY <2>1, <2>3, <2>5 DEF RunningHasWork, Current, In
  <2>8. PICK n \in 1..N : W[n - 1] \subseteq In({"recorded"}) /\ W[n] = later \cup Begun
    BY <1>0 DEF WaveInv, OneWaveAtATime, Begun
  <2>9. \E k \in 1..N : W[k - 1] \subseteq recordedNext /\ W[k] = later' \cup begunNext
    <3>1. CASE later # {}
      <4>1. wave = later
        BY <3>1
      <4>2. W[n] = later' \cup begunNext
        <5> HIDE DEF W, chunk, wave, recorded, recordedNext, begunNext
        <5> QED
          BY <2>1, <2>2, <2>3, <2>6, <2>8, <4>1
      <4>3. W[n - 1] \subseteq recordedNext
        BY <2>6, <2>8 DEF In
      <4> QED
        BY <4>2, <4>3
    <3>2. CASE later = {}
      <4>1. wave = Ready(recipe, recorded) /\ W[n] = recorded
        BY <2>2, <2>8, <3>2
      <4>2. W[N] = Steps
        BY <1>0 DEF HasWaves
      <4>3. n # N
        BY <1>3, <4>1, <4>2
      <4>4. n + 1 \in 1..N /\ (n + 1) - 1 = n
        BY <1>0, <4>3
      <4>5. W[n + 1] = W[n] \cup Ready(recipe, W[n])
        BY <1>0, <4>4 DEF Waves
      <4>6. W[n + 1] = later' \cup begunNext /\ W[n] \subseteq recordedNext
        <5> HIDE DEF W, chunk, wave, recorded, recordedNext, begunNext
        <5> QED
          BY <2>1, <2>3, <2>6, <4>1, <4>5
      <4> QED
        BY <4>4, <4>6
    <3> QED
      BY <3>1, <3>2
  <2>10. OneWaveAtATime'
    BY <1>0, <2>9 DEF OneWaveAtATime, In
  <2> QED
    BY <1>0, <2>1, <2>7, <2>10 DEF WaveInv, Accepted
<1> QED
  BY <1>2, <1>3

\* A callback begins no step and records none.
LEMMA CallbackWaves ==
  ASSUME TypeOK, WaveInv, CallbackEffect
  PROVE  WaveInv'
<1>1. \A s \in Steps : /\ step'[s] = "waiting" <=> step[s] = "waiting"
                       /\ step'[s] = "recorded" <=> step[s] = "recorded"
  BY DEF CallbackEffect, OutStates
<1>2. In({"recorded"})' = In({"recorded"}) /\ Begun' = Begun
  BY <1>1 DEF In, Begun
<1>3. Current \subseteq Current'
  BY DEF CallbackEffect, OutStates, Current, In
<1>4. UNCHANGED <<recipe, stage, later>>
  BY DEF CallbackEffect
<1>5. Accepted' /\ RunningHasWork'
  BY <1>3, <1>4 DEF WaveInv, Accepted, RunningHasWork
<1>6. OneWaveAtATime'
  BY <1>2, <1>4 DEF WaveInv, OneWaveAtATime, Begun
<1> QED
  BY <1>5, <1>6 DEF WaveInv

\* Every step keeps to the waves.
LEMMA WaveStep == TypeOK /\ OrderInv /\ WaveInv /\ [Next]_vars => WaveInv'
<1> SUFFICES ASSUME TypeOK, OrderInv, WaveInv, [Next]_vars PROVE WaveInv'
  OBVIOUS
<1>1. CASE ChunkHalts
  <2>1. stage' = "ended" /\ stage = "running" /\ recipe' = recipe
    BY <1>1 DEF ChunkHalts, Finish, ChunkSettled
  <2> QED
    BY <2>1 DEF WaveInv, Accepted, OneWaveAtATime, RunningHasWork
<1>2. CASE Callback
  BY <1>2, CallbackChanges, CallbackWaves
<1>3. CASE UNCHANGED vars
  BY <1>3 DEF vars, WaveInv, Accepted, OneWaveAtATime, RunningHasWork, Current, In
<1> QED
  BY <1>1, <1>2, <1>3, StartWaves, PassWaves DEF Next, Runner, Callback

\* What is known of the waves holds in every run.
THEOREM SpecWaves == Spec => []WaveInv
<1>1. Init => WaveInv
  BY DEF Init, WaveInv, Accepted, OneWaveAtATime, RunningHasWork
<1> QED
  BY <1>1, WaveStep, SpecTypeOK, SpecOrder, PTL DEF Spec

\* toWaves, which never looks for a circle, refuses just the recipes that have
\* one, and puts each step into the first wave its dependencies allow.
THEOREM SpecWavesAreLayers == Spec => []WavesAreLayers
<1>1. TypeOK /\ WaveInv => WavesAreLayers
  <2> SUFFICES ASSUME TypeOK, WaveInv PROVE WavesAreLayers
    OBVIOUS
  <2>1. recipe \in Recipe
    BY RecipesAssumption DEF TypeOK
  <2>2. Cyclic <=> \E S : Circle(recipe, S)
    BY DEF Cyclic, Circle
  <2>3. stage = "refused" => ~HasWaves(recipe)
    BY <2>1, WavesImplyTopoSorts DEF WaveInv, Accepted
  <2>4. \A n \in 2..N : \A s \in InWaves(recipe)[n] \ InWaves(recipe)[n - 1] :
          DepsOf(recipe, s) \ InWaves(recipe)[n - 2] # {}
    BY InWavesIs, WavesAreTight
  <2> QED
    BY <2>1, <2>2, <2>3, <2>4, WavesRefuseCircles DEF WavesAreLayers, WaveInv, Accepted
<1> QED
  BY <1>1, SpecWaves, SpecTypeOK, PTL

\* A run is at one of the waves computed before it began: the earlier ones are
\* recorded, the later ones have not begun.
THEOREM SpecOneWaveAtATime == Spec => []OneWaveAtATime
<1>1. WaveInv => OneWaveAtATime
  BY DEF WaveInv
<1> QED
  BY <1>1, SpecWaves, PTL

\* While a run goes on some component is out or has just settled.
THEOREM SpecRunningHasWork == Spec => []RunningHasWork
<1>1. WaveInv => RunningHasWork
  BY DEF WaveInv
<1> QED
  BY <1>1, SpecWaves, PTL

-----------------------------------------------------------------------------
(***************************************************************************)
(* Pauses.  Both properties are inductive as they stand.                   *)
(***************************************************************************)

PauseInv == PausedCanBeAnswered /\ AuditPausedIsTrue

\* The runner only acts while no step is paused, and pauses none.
LEMMA RunnerPauses == TypeOK /\ OrderInv /\ PauseInv /\ Runner => PauseInv'
<1> SUFFICES ASSUME TypeOK, OrderInv, PauseInv, Runner PROVE PauseInv'
  OBVIOUS
<1>1. \A s \in Steps : step[s] \in {"waiting", "settled", "recorded"}
  BY SettledSteps DEF Runner, Start, ChunkHalts, ChunkPasses, OrderInv, Order
<1>2. \A s \in Steps : step'[s] # "paused"
  BY <1>1 DEF Runner, Start, ChunkHalts, ChunkPasses, BeginWave
<1>3. audit # "paused"
  BY <1>1 DEF PauseInv, AuditPausedIsTrue, In
<1>4. audit' # "paused"
  BY <1>3 DEF Runner, Start, ChunkHalts, ChunkPasses, Finish, Verdict
<1> QED
  BY <1>2, <1>4 DEF PauseInv, PausedCanBeAnswered, AuditPausedIsTrue

\* A pause comes with its entry, and goes with its answer, its timer, a wrong
\* answer or the cancel of the run.
LEMMA CallbackPauses == TypeOK /\ PauseInv /\ Callback => PauseInv'
<1> SUFFICES ASSUME TypeOK, PauseInv, Callback PROVE PauseInv'
  OBVIOUS
<1> USE DEF TypeOK, PauseInv, PausedCanBeAnswered, AuditPausedIsTrue, In
<1>1. ASSUME NEW s \in Steps, NEW how \in {"ok", "failed", "threw"}, Exit(s, how)
      PROVE  PauseInv'
  BY <1>1 DEF Exit, Settle
<1>2. ASSUME NEW s \in Steps, Pauses(s) PROVE PauseInv'
  BY <1>2 DEF Pauses, Settle
<1>3. ASSUME NEW s \in Steps, Timeout(s) PROVE PauseInv'
  BY <1>3 DEF Timeout, Rejects, Settle
<1>4. ASSUME NEW s \in Steps, Respond(s) PROVE PauseInv'
  BY <1>4 DEF Respond
<1>5. ASSUME NEW s \in Steps, Mismatch(s) PROVE PauseInv'
  BY <1>5 DEF Mismatch, Rejects, Settle
<1>6. CASE Cancel
  BY <1>6 DEF Cancel
<1> QED
  BY <1>1, <1>2, <1>3, <1>4, <1>5, <1>6 DEF Callback, StepProgress

\* What the registry and the audit row say of pauses, in every run.
THEOREM SpecPauses == Spec => []PauseInv
<1>1. Init => PauseInv
  BY DEF Init, PauseInv, PausedCanBeAnswered, AuditPausedIsTrue
<1>2. TypeOK /\ OrderInv /\ PauseInv /\ [Next]_vars => PauseInv'
  <2>1. PauseInv /\ UNCHANGED vars => PauseInv'
    BY DEF PauseInv, PausedCanBeAnswered, AuditPausedIsTrue, In, vars
  <2> QED
    BY <2>1, RunnerPauses, CallbackPauses DEF Next, Callback
<1> QED
  BY <1>1, <1>2, SpecTypeOK, SpecOrder, PTL DEF Spec

\* A step that waits for its operator has an entry in the registry that an
\* answer can find, and waits in no cancelled run.
THEOREM SpecPausedCanBeAnswered == Spec => []PausedCanBeAnswered
<1>1. PauseInv => PausedCanBeAnswered
  BY DEF PauseInv
<1> QED
  BY <1>1, SpecPauses, PTL

\* The audit row of a run says paused only while one of its steps is.
THEOREM SpecAuditPausedIsTrue == Spec => []AuditPausedIsTrue
<1>1. PauseInv => AuditPausedIsTrue
  BY DEF PauseInv
<1> QED
  BY <1>1, SpecPauses, PTL

-----------------------------------------------------------------------------
(***************************************************************************)
(* The verdict.  It is earned because no halting result is recorded while  *)
(* the run goes on, and failedStep is set only by the chunk that ends it.  *)
(***************************************************************************)

NoHaltSoFar ==
  stage \in {"loaded", "running"} =>
    failedStep = 0 /\ \A s \in In({"recorded"}) : ~Halts(s)

VerdictInv == NoHaltSoFar /\ VerdictIsEarned

\* The runner's steps: the last chunk ends the run with the verdict it earned.
LEMMA RunnerVerdict == TypeOK /\ OrderInv /\ VerdictInv /\ Runner => VerdictInv'
<1> SUFFICES ASSUME TypeOK, OrderInv, VerdictInv, Runner PROVE VerdictInv'
  OBVIOUS
<1>0. UNCHANGED <<recipe, exit, aborted>>
  BY DEF Runner, Start, ChunkHalts, ChunkPasses
<1>1. \A s \in Steps : Halts(s)' = Halts(s)
  BY <1>0 DEF Halts
<1>2. CASE Start
  <2>1. \A s \in Steps : step'[s] # "recorded"
    BY <1>2 DEF Start, BeginWave, OrderInv, Order, Current, In
  <2>2. failedStep' = 0 /\ stage' \in {"running", "refused"}
    BY <1>2 DEF Start, VerdictInv, NoHaltSoFar
  <2> QED
    BY <2>1, <2>2 DEF VerdictInv, NoHaltSoFar, VerdictIsEarned, In
<1>3. CASE ChunkHalts
  <2>1. PICK f \in Halting :
               /\ failedStep' = f
               /\ step' = [s \in Steps |-> IF s \in Current /\ s <= f THEN "recorded" ELSE step[s]]
    BY <1>3 DEF ChunkHalts
  <2>2. f \in Steps /\ f # 0 /\ Halts(f)' /\ f \in Current
    BY <1>1, <2>1, NAssumption DEF Halting, Current, In, Steps
  <2>3. step'[f] = "recorded"
    BY <2>1, <2>2 DEF Steps
  <2>4. stage' = "ended" /\ audit' = IF aborted THEN "cancelled" ELSE "failed"
    BY <1>3, <2>1, <2>2 DEF ChunkHalts, Finish, Verdict
  <2> QED
    BY <1>0, <2>2, <2>3, <2>4 DEF VerdictInv, NoHaltSoFar, VerdictIsEarned, In, TypeOK
<1>4. CASE ChunkPasses
  <2>1. \A s \in Steps : step[s] \in {"settled", "recorded"} => ~Halts(s)
    BY <1>4 DEF ChunkPasses, ChunkSettled, Halting, Current, In, VerdictInv, NoHaltSoFar
  <2>2. failedStep' = 0 /\ stage = "running"
    BY <1>4 DEF ChunkPasses, ChunkSettled, VerdictInv, NoHaltSoFar
  <2>3. CASE In({"recorded", "settled"}) = Steps
    <3>1. step' = [s \in Steps |-> "recorded"] /\ Finish
      BY <1>4, <2>3 DEF ChunkPasses
    <3>2. stage' = "ended" /\ audit' = IF aborted THEN "cancelled" ELSE "success"
      BY <2>2, <3>1 DEF Finish, Verdict
    <3>3. \A s \in Steps : step'[s] = "recorded" /\ ~Halts(s)'
      BY <1>1, <2>1, <2>3, <3>1 DEF In
    <3> QED
      BY <1>0, <3>2, <3>3 DEF VerdictInv, NoHaltSoFar, VerdictIsEarned, TypeOK
  <2>4. CASE In({"recorded", "settled"}) # Steps
    <3>1. /\ stage' = "running"
          /\ \A s \in Steps : step'[s] = "recorded" => step[s] \in {"settled", "recorded"}
      BY <1>4, <2>2, <2>4 DEF ChunkPasses, BeginWave, ChunkSettled, In
    <3> QED
      BY <1>1, <2>1, <2>2, <3>1 DEF VerdictInv, NoHaltSoFar, VerdictIsEarned, In
  <2> QED
    BY <2>3, <2>4
<1> QED
  BY <1>2, <1>3, <1>4 DEF Runner

\* A callback records nothing, and after the end it changes no step.
LEMMA CallbackVerdict == TypeOK /\ OrderInv /\ VerdictInv /\ Callback => VerdictInv'
<1> SUFFICES ASSUME TypeOK, OrderInv, VerdictInv, Callback PROVE VerdictInv'
  OBVIOUS
<1>1. CallbackEffect
  BY CallbackChanges
<1>2. NoHaltSoFar'
  BY <1>1 DEF VerdictInv, NoHaltSoFar, CallbackEffect, OutStates, In, Halts
<1>3. stage = "ended" => UNCHANGED <<step, audit, aborted>> /\ \A s \in Steps : exit'[s] = exit[s]
  <2> SUFFICES ASSUME stage = "ended" PROVE UNCHANGED <<step, audit, aborted>> /\ \A s \in Steps : exit'[s] = exit[s]
    OBVIOUS
  <2>1. \A s \in Steps : step[s] \notin OutStates
    BY DEF OrderInv, Order
  <2> QED
    BY <2>1 DEF Callback, StepProgress, Exit, Pauses, Timeout, Rejects, Respond, Mismatch, Cancel, OutStates
<1>4. VerdictIsEarned'
  BY <1>1, <1>3 DEF VerdictInv, VerdictIsEarned, CallbackEffect, In, Halts
<1> QED
  BY <1>2, <1>4 DEF VerdictInv

\* No halting result is recorded in a run that goes on.
THEOREM SpecVerdict == Spec => []VerdictInv
<1>1. Init => VerdictInv
  BY DEF Init, VerdictInv, NoHaltSoFar, VerdictIsEarned, In
<1>2. TypeOK /\ OrderInv /\ VerdictInv /\ [Next]_vars => VerdictInv'
  <2>1. VerdictInv /\ UNCHANGED vars => VerdictInv'
    BY DEF VerdictInv, NoHaltSoFar, VerdictIsEarned, In, Halts, vars
  <2> QED
    BY <2>1, RunnerVerdict, CallbackVerdict DEF Next, Callback
<1> QED
  BY <1>1, <1>2, SpecTypeOK, SpecOrder, PTL DEF Spec

\* A run is called cancelled just when its signal has fired, a success only if
\* all its steps are recorded without a halting result, and failed only for one.
THEOREM SpecVerdictIsEarned == Spec => []VerdictIsEarned
<1>1. VerdictInv => VerdictIsEarned
  BY DEF VerdictInv
<1> QED
  BY <1>1, SpecVerdict, PTL

\* Once a halting result is recorded no further step is invoked.
THEOREM SpecNothingStartsAfterHalt == Spec => NothingStartsAfterHalt
<1> DEFINE A == (\E s \in Steps : step'[s] = "recorded" /\ Halts(s)) =>
                   \A s \in Steps : step[s] = "waiting" => step'[s] = "waiting"
<1>1. TypeOK /\ OrderInv /\ VerdictInv /\ [Next]_vars => [A]_vars
  <2> SUFFICES ASSUME TypeOK, OrderInv, VerdictInv, Next PROVE A
    BY DEF vars
  <2>1. CASE Callback
    BY <2>1, CallbackChanges DEF CallbackEffect, OutStates
  <2>2. CASE Start
    BY <2>2 DEF Start, BeginWave, OrderInv, Order, Current, In
  <2>3. CASE ChunkHalts
    BY <2>3 DEF ChunkHalts, ChunkSettled, Current, In
  <2>4. CASE ChunkPasses
    <3>1. \A s \in Steps : step[s] \in {"settled", "recorded"} => ~Halts(s)
      BY <2>4 DEF ChunkPasses, ChunkSettled, Halting, Current, In, VerdictInv, NoHaltSoFar
    <3>2. \A s \in Steps : step'[s] = "recorded" => step[s] \in {"settled", "recorded"}
      <4>1. CASE In({"recorded", "settled"}) = Steps
        BY <4>1 DEF In
      <4>2. CASE In({"recorded", "settled"}) # Steps
        BY <2>4, <4>2 DEF ChunkPasses, BeginWave, ChunkSettled, In
      <4> QED
        BY <4>1, <4>2
    <3> QED
      BY <3>1, <3>2
  <2> QED
    BY <2>1, <2>2, <2>3, <2>4 DEF Next, Callback, Runner
<1> QED
  BY <1>1, SpecTypeOK, SpecOrder, SpecVerdict, PTL DEF Spec, NothingStartsAfterHalt

-----------------------------------------------------------------------------
(***************************************************************************)
(* The promise.  Each step is seen as idle, busy or ended; waves, chunks   *)
(* and pauses are not seen.  A chunk that begins is a Begin of the         *)
(* promise, a step that settles an End, the last chunk a Conclude.         *)
(***************************************************************************)

\* What has settled has a result.
ExitKnown == \A s \in Steps : step[s] \in {"settled", "recorded"} => exit[s] # "none"

\* Results come when a step settles, and are never taken back.
LEMMA ExitStep == TypeOK /\ OrderInv /\ ExitKnown /\ [Next]_vars => ExitKnown'
<1> SUFFICES ASSUME TypeOK, OrderInv, ExitKnown, [Next]_vars PROVE ExitKnown'
  OBVIOUS
<1>1. CASE Runner
  <2>1. exit' = exit
    BY <1>1 DEF Runner, Start, ChunkHalts, ChunkPasses
  <2>2. \A s \in Steps : step'[s] \in {"settled", "recorded"} => step[s] \in {"settled", "recorded"}
    <3>1. CASE Start
      BY <3>1 DEF Start, BeginWave, OrderInv, Order, Current, In
    <3>2. CASE ChunkHalts
      BY <3>2 DEF ChunkHalts, ChunkSettled, Current, In
    <3>3. CASE ChunkPasses
      <4>1. CASE In({"recorded", "settled"}) = Steps
        BY <4>1 DEF In
      <4>2. CASE In({"recorded", "settled"}) # Steps
        BY <3>3, <4>2 DEF ChunkPasses, ChunkSettled, BeginWave, Current, In
      <4> QED
        BY <4>1, <4>2
    <3> QED
      BY <1>1, <3>1, <3>2, <3>3 DEF Runner
  <2> QED
    BY <2>1, <2>2 DEF ExitKnown
<1>2. ASSUME NEW s \in Steps, StepProgress(s) \/ Respond(s) \/ Mismatch(s) PROVE ExitKnown'
  BY <1>2 DEF StepProgress, Exit, Pauses, Timeout, Respond, Mismatch, Rejects, Settle,
              ExitKnown, TypeOK
<1>3. CASE Cancel
  BY <1>3 DEF Cancel, ExitKnown, TypeOK
<1>4. CASE UNCHANGED vars
  BY <1>4 DEF vars, ExitKnown
<1> QED
  BY <1>1, <1>2, <1>3, <1>4 DEF Next

\* The instance's cardinality is the usual one.
LEMMA SameCardinality == \A S : Promise!Cardinality(S) = Cardinality(S)
BY DEF Promise!Cardinality, Cardinality

\* How the steps look from outside.
LEMMA SeenStates ==
  ASSUME TypeOK, ExitKnown
  PROVE  /\ Promise!In({"idle"}) = In({"waiting"})
         /\ Promise!In({"busy"}) = In(OutStates)
         /\ Promise!In({"ok", "failed"}) = {s \in In({"settled", "recorded"}) : exit[s] # "threw"}
         /\ Promise!Halted = {s \in In({"settled", "recorded"}) : Halts(s)}
<1>1. ASSUME NEW s \in Steps
      PROVE  /\ StateOf(s) = "idle" <=> step[s] = "waiting"
             /\ StateOf(s) = "busy" <=> step[s] \in OutStates
             /\ step[s] \in {"settled", "recorded"} =>
                  StateOf(s) = exit[s] /\ exit[s] \in {"ok", "failed", "threw"}
             /\ step[s] \notin {"settled", "recorded"} => StateOf(s) \in {"idle", "busy"}
  <2>1. step[s] \in StepStates /\ exit[s] \in Exits
    BY DEF TypeOK
  <2>2. step[s] \in {"settled", "recorded"} => exit[s] \in {"ok", "failed", "threw"}
    BY <2>1 DEF ExitKnown, Exits
  <2>3. CASE step[s] = "waiting"
    BY <2>3 DEF StateOf, OutStates
  <2>4. CASE step[s] \in OutStates
    BY <2>4 DEF StateOf, OutStates
  <2>5. CASE step[s] \in {"settled", "recorded"}
    BY <2>2, <2>5 DEF StateOf, OutStates
  <2> QED
    BY <2>1, <2>3, <2>4, <2>5 DEF StepStates, OutStates
<1>2. \A states : Promise!In(states) = {s \in Steps : StateOf(s) \in states}
  BY DEF Promise!In
<1>3. Promise!In({"idle"}) = In({"waiting"}) /\ Promise!In({"busy"}) = In(OutStates)
  BY <1>1, <1>2 DEF In
<1>4. Promise!In({"ok", "failed"}) = {s \in In({"settled", "recorded"}) : exit[s] # "threw"}
  BY <1>1, <1>2 DEF In
<1>5. Promise!Halted = Promise!In({"threw"}) \cup (Promise!In({"failed"}) \ recipe.goOn)
  BY DEF Promise!Halted, PlanOf
<1>6. Promise!Halted = {s \in In({"settled", "recorded"}) : Halts(s)}
  BY <1>1, <1>2, <1>5 DEF In, Halts
<1> QED
  BY <1>3, <1>4, <1>6

\* The promise refuses what the code does.
LEMMA SeenCircles ==
  ASSUME TypeOK
  PROVE  Promise!Circular <=> ~(TopoSorts(recipe) /\ HasWaves(recipe))
<1>1. recipe \in Recipe
  BY RecipesAssumption DEF TypeOK
<1>2. \A s \in Steps : PlanOf(recipe).needs[s] = DepsOf(recipe, s)
  BY DEF PlanOf
<1>3. Promise!Circular <=> \E S : Circle(recipe, S)
  BY <1>2 DEF Promise!Circular, Circle
<1> QED
  BY <1>1, <1>3, WavesRefuseCircles, WavesImplyTopoSorts

\* A chunk that begins, when no step is out and nothing has halted.
LEMMA SeenBegin ==
  ASSUME TypeOK, ExitKnown, WaveInv',
         NEW wave, wave \subseteq Steps, BeginWave(wave),
         recipe' = recipe, exit' = exit, aborted' = aborted,
         stage \in {"loaded", "running"}, stage' = "running",
         \A s \in Steps : step[s] \in {"waiting", "settled", "recorded"},
         \A s \in Steps : step[s] \in {"settled", "recorded"} => ~Halts(s),
         \A s \in wave : /\ step[s] = "waiting"
                         /\ \A d \in DepsOf(recipe, s) : step[d] \in {"recorded", "settled"}
  PROVE  Promise!Next
<1> DEFINE chunk == Chunk(recipe, wave)
<1>1. chunk \subseteq wave /\ chunk \subseteq Steps
  BY DEF Chunk
<1>2. recipe \in Recipe /\ HasWaves(recipe)
  BY RecipesAssumption DEF TypeOK, WaveInv, Accepted
<1>3. \A s \in Steps : step'[s] = IF s \in chunk THEN "invoked"
                                 ELSE IF step[s] = "settled" THEN "recorded" ELSE step[s]
  BY DEF BeginWave, Current, In
<1>4. Cardinality(chunk) <= recipe.width
  BY <1>2, ChunkWithinWidth
<1> HIDE DEF chunk
<1>5. chunk # {}
  BY <1>3 DEF WaveInv, RunningHasWork, Current, In
<1>6. PhaseOf \in {"asked", "going"} /\ PhaseOf' = "going"
  BY DEF PhaseOf
<1>7. ~Promise!Circular
  BY <1>2, SeenCircles, WavesImplyTopoSorts
<1>8. Promise!In({"busy"}) = {} /\ Promise!Halted = {} /\ chunk \subseteq Promise!In({"idle"})
  BY <1>1, SeenStates DEF In, OutStates
<1>9. \A s \in chunk : PlanOf(recipe).needs[s] \subseteq Promise!In({"ok", "failed"})
  <2> SUFFICES ASSUME NEW s \in chunk, NEW d \in DepsOf(recipe, s)
               PROVE  d \in {x \in In({"settled", "recorded"}) : exit[x] # "threw"}
    BY <1>1, SeenStates DEF PlanOf
  <2>1. d \in Steps /\ step[d] \in {"settled", "recorded"}
    BY <1>1, <1>2, DepsType
  <2>2. exit[d] # "threw"
    BY <2>1 DEF Halts
  <2> QED
    BY <2>1, <2>2 DEF In
<1>10. Cardinality(Promise!In({"busy"}) \cup chunk) <= PlanOf(recipe).width
  BY <1>4, <1>8 DEF PlanOf
<1>11. \A s \in Steps : StateOf(s)' = IF s \in chunk THEN "busy" ELSE StateOf(s)
  BY <1>3 DEF StateOf
<1>12. [s \in Steps |-> StateOf(s)]' =
        [s \in Steps |-> IF s \in chunk THEN "busy" ELSE [x \in Steps |-> StateOf(x)][s]]
  BY <1>11
<1>13. PlanOf(recipe)' = PlanOf(recipe)
  OBVIOUS
<1>14. Promise!Cardinality(Promise!In({"busy"}) \cup chunk) <= PlanOf(recipe).width
  BY <1>10, SameCardinality
<1>15. Promise!Begin(chunk)
  BY <1>5, <1>6, <1>7, <1>8, <1>9, <1>12, <1>13, <1>14 DEF Promise!Begin
<1> QED
  BY <1>1, <1>15 DEF Promise!Next

\* The runner's steps: Refuse, Begin or Conclude.
LEMMA SeenRunner ==
  ASSUME TypeOK, OrderInv, WaveInv, WaveInv', VerdictInv, ExitKnown, Runner
  PROVE  Promise!Next
<1>0. UNCHANGED <<recipe, exit, aborted>>
  BY DEF Runner, Start, ChunkHalts, ChunkPasses
<1>1. PlanOf(recipe)' = PlanOf(recipe)
  BY <1>0
<1>2. CASE Start
  <2>1. stage = "loaded" /\ \A s \in Steps : step[s] = "waiting"
    BY <1>2 DEF Start, OrderInv, Order
  <2>2. CASE TopoSorts(recipe) /\ HasWaves(recipe)
    <3>1. BeginWave(Ready(recipe, {})) /\ stage' = "running"
      BY <1>2, <2>2 DEF Start
    <3>2. Ready(recipe, {}) \subseteq Steps
      BY DEF Ready
    <3>3. \A s \in Ready(recipe, {}) : DepsOf(recipe, s) = {}
      BY DEF Ready
    <3> QED
      BY <1>0, <2>1, <3>1, <3>2, <3>3, SeenBegin
  <2>3. CASE ~(TopoSorts(recipe) /\ HasWaves(recipe))
    <3>1. stage' = "refused" /\ step' = step
      BY <1>2, <2>3 DEF Start
    <3>2. \A s \in Steps : StateOf(s)' = StateOf(s)
      BY <1>0, <3>1 DEF StateOf
    <3>3. [s \in Steps |-> StateOf(s)]' = [s \in Steps |-> StateOf(s)]
      BY <3>2
    <3>4. PhaseOf = "asked" /\ PhaseOf' = "refused"
      BY <2>1, <3>1 DEF PhaseOf
    <3>5. Promise!Circular
      BY <2>3, SeenCircles
    <3>6. Promise!Refuse
      BY <1>0, <1>1, <3>3, <3>4, <3>5 DEF Promise!Refuse
    <3> QED
      BY <3>6 DEF Promise!Next
  <2> QED
    BY <2>2, <2>3
<1>3. CASE ChunkHalts
  <2>1. PICK f \in Halting :
               /\ failedStep' = f
               /\ step' = [s \in Steps |-> IF s \in Current /\ s <= f THEN "recorded" ELSE step[s]]
    BY <1>3 DEF ChunkHalts
  <2>2. f \in Steps /\ f # 0 /\ Halts(f) /\ step[f] = "settled"
    BY <1>3, <2>1, NAssumption DEF Halting, ChunkHalts, ChunkSettled, Current, In, Steps
  <2>3. /\ stage = "running" /\ stage' = "ended"
        /\ audit' = IF aborted THEN "cancelled" ELSE "failed"
    BY <1>3, <2>1, <2>2 DEF ChunkHalts, ChunkSettled, Finish, Verdict
  <2>4. \A s \in Current : step[s] = "settled"
    BY <1>3 DEF ChunkHalts, ChunkSettled, In
  <2>5. \A s \in Steps : StateOf(s)' = StateOf(s)
    BY <1>0, <2>1, <2>4 DEF StateOf
  <2>6. [s \in Steps |-> StateOf(s)]' = [s \in Steps |-> StateOf(s)]
    BY <2>5
  <2>7. Promise!In({"busy"}) = {}
    BY <2>4, SeenStates DEF In, Current, OutStates
  <2>8. Promise!Halted # {}
    BY <2>2, SeenStates DEF In
  <2>9. PhaseOf = "going" /\ PhaseOf' = IF aborted THEN "cancelled" ELSE "failed"
    BY <2>3 DEF PhaseOf
  <2>10. Promise!Conclude
    BY <1>0, <1>1, <2>6, <2>7, <2>8, <2>9 DEF Promise!Conclude, TypeOK
  <2> QED
    BY <2>10 DEF Promise!Next
<1>4. CASE ChunkPasses
  <2>1. /\ \A s \in Steps : step[s] \in {"waiting", "settled", "recorded"}
        /\ stage = "running" /\ failedStep' = 0
    BY <1>4, SettledSteps DEF ChunkPasses, ChunkSettled, VerdictInv, NoHaltSoFar
  <2>2. \A s \in Steps : step[s] \in {"settled", "recorded"} => ~Halts(s)
    BY <1>4 DEF ChunkPasses, Halting, Current, In, VerdictInv, NoHaltSoFar, ChunkSettled
  <2>3. CASE In({"recorded", "settled"}) = Steps
    <3>1. step' = [s \in Steps |-> "recorded"] /\ Finish
      BY <1>4, <2>3 DEF ChunkPasses
    <3>2. stage' = "ended" /\ audit' = IF aborted THEN "cancelled" ELSE "success"
      BY <2>1, <3>1 DEF Finish, Verdict
    <3>3. \A s \in Steps : step[s] \in {"recorded", "settled"}
      BY <2>3 DEF In
    <3>4. \A s \in Steps : StateOf(s)' = StateOf(s)
      BY <1>0, <3>1, <3>3 DEF StateOf
    <3>5. [s \in Steps |-> StateOf(s)]' = [s \in Steps |-> StateOf(s)]
      BY <3>4
    <3>6. Promise!In({"busy"}) = {} /\ Promise!In({"idle"}) = {} /\ Promise!Halted = {}
      BY <2>2, <3>3, SeenStates DEF In, OutStates
    <3>7. PhaseOf = "going" /\ PhaseOf' = IF aborted THEN "cancelled" ELSE "success"
      BY <2>1, <3>2 DEF PhaseOf
    <3>8. Promise!Conclude
      BY <1>0, <1>1, <3>5, <3>6, <3>7 DEF Promise!Conclude, TypeOK
    <3> QED
      BY <3>8 DEF Promise!Next
  <2>4. CASE In({"recorded", "settled"}) # Steps
    <3> DEFINE recorded == In({"recorded", "settled"})
               wave == IF later # {} THEN later ELSE Ready(recipe, recorded)
    <3>1. BeginWave(wave) /\ stage' = "running"
      BY <1>4, <2>1, <2>4 DEF ChunkPasses
    <3>2. wave \subseteq Steps
      BY DEF Ready, TypeOK
    <3>3. \A s \in wave : /\ step[s] = "waiting"
                          /\ \A d \in DepsOf(recipe, s) : step[d] \in {"recorded", "settled"}
      <4>1. CASE later # {}
        BY <4>1, <2>1 DEF OrderInv, Order, TypeOK
      <4>2. CASE later = {}
        BY <2>1, <4>2 DEF Ready, In
      <4> QED
        BY <4>1, <4>2
    <3> HIDE DEF wave
    <3> QED
      BY <1>0, <2>1, <2>2, <3>1, <3>2, <3>3, SeenBegin
  <2> QED
    BY <2>3, <2>4
<1> QED
  BY <1>2, <1>3, <1>4 DEF Runner

\* A callback by which one step settles is an End.
LEMMA SeenEnd ==
  ASSUME TypeOK, OrderInv, ExitKnown,
         NEW s \in Steps, NEW how \in {"ok", "failed", "threw"},
         step[s] \in OutStates, Settle(s, how), UNCHANGED <<recipe, stage, aborted>>
  PROVE  Promise!Next
<1>1. stage = "running"
  BY DEF OrderInv, Order, TypeOK, OutStates
<1>2. PhaseOf = "going" /\ PhaseOf' = "going" /\ PlanOf(recipe)' = PlanOf(recipe)
  BY <1>1 DEF PhaseOf
<1>3. \A x \in Steps : StateOf(x)' = IF x = s THEN how ELSE StateOf(x)
  BY DEF StateOf, Settle, TypeOK
<1>4. [x \in Steps |-> StateOf(x)]' = [[x \in Steps |-> StateOf(x)] EXCEPT ![s] = how]
  BY <1>3
<1>5. [x \in Steps |-> StateOf(x)][s] = "busy"
  BY DEF StateOf, OutStates
<1>6. Promise!End(s, how)
  BY <1>2, <1>4, <1>5 DEF Promise!End
<1> QED
  BY <1>6 DEF Promise!Next

\* A callback by which no step settles is not seen.
LEMMA SeenNothing ==
  ASSUME TypeOK, UNCHANGED <<recipe, stage, aborted, exit>>,
         \A s \in Steps : \/ step'[s] = step[s]
                          \/ step[s] \in OutStates /\ step'[s] \in OutStates,
         stage = "ended" => audit' = audit
  PROVE  UNCHANGED Promise!vars
<1>1. \A s \in Steps : StateOf(s)' = StateOf(s)
  BY DEF StateOf, OutStates
<1>2. [s \in Steps |-> StateOf(s)]' = [s \in Steps |-> StateOf(s)]
  BY <1>1
<1>3. PhaseOf' = PhaseOf
  BY DEF PhaseOf, TypeOK
<1> QED
  BY <1>2, <1>3 DEF Promise!vars

\* A callback is an End, a Cancel, or is not seen.
LEMMA SeenCallback ==
  ASSUME TypeOK, OrderInv, ExitKnown, Callback
  PROVE  [Promise!Next]_(Promise!vars)
<1>0. \A s \in Steps : stage = "ended" => step[s] \notin OutStates
  BY DEF OrderInv, Order
<1>1. ASSUME NEW s \in Steps, NEW how \in {"ok", "failed", "threw"}, Exit(s, how)
      PROVE  Promise!Next
  BY <1>1, SeenEnd DEF Exit, OutStates
<1>2. ASSUME NEW s \in Steps, Pauses(s) PROVE [Promise!Next]_(Promise!vars)
  <2>1. CASE aborted
    BY <1>2, <2>1, SeenEnd DEF Pauses, OutStates
  <2>2. CASE ~aborted
    BY <1>0, <1>2, <2>2, SeenNothing DEF Pauses, OutStates, TypeOK
  <2> QED
    BY <2>1, <2>2
<1>3. ASSUME NEW s \in Steps, Timeout(s) \/ Mismatch(s) PROVE [Promise!Next]_(Promise!vars)
  <2>1. Rejects(s) /\ UNCHANGED <<recipe, stage, aborted>>
    BY <1>3 DEF Timeout, Mismatch
  <2>2. CASE step[s] = "paused"
    BY <2>1, <2>2, SeenEnd DEF Rejects, OutStates
  <2>3. CASE step[s] # "paused"
    BY <2>1, <2>3, SeenNothing DEF Rejects
  <2> QED
    BY <2>2, <2>3
<1>4. ASSUME NEW s \in Steps, Respond(s) PROVE UNCHANGED Promise!vars
  BY <1>0, <1>4, SeenNothing DEF Respond, OutStates, TypeOK
<1>5. CASE Cancel
  <2> DEFINE S == In({"paused"})
  <2>1. PhaseOf = "going" /\ PhaseOf' = "going" /\ PlanOf(recipe)' = PlanOf(recipe)
    BY <1>5 DEF Cancel, PhaseOf
  <2>2. \A x \in Steps : StateOf(x)' = IF x \in S THEN "failed" ELSE StateOf(x)
    BY <1>5 DEF Cancel, StateOf, In
  <2>3. [x \in Steps |-> StateOf(x)]' =
          [x \in Steps |-> IF x \in S THEN "failed" ELSE [y \in Steps |-> StateOf(y)][x]]
    BY <2>2
  <2>4. S \subseteq Promise!In({"busy"}) /\ S \in SUBSET Steps
    BY SeenStates DEF In, OutStates
  <2>5. ~aborted /\ aborted' = TRUE
    BY <1>5 DEF Cancel
  <2>6. Promise!Cancel(S)
    BY <2>1, <2>3, <2>4, <2>5 DEF Promise!Cancel
  <2> QED
    BY <2>4, <2>6 DEF Promise!Next
<1> QED
  BY <1>1, <1>2, <1>3, <1>4, <1>5 DEF Callback, StepProgress

\* What has settled has a result, in every run.
LEMMA SpecExitKnown == Spec => []ExitKnown
<1>1. Init => ExitKnown
  BY DEF Init, ExitKnown
<1> QED
  BY <1>1, ExitStep, SpecTypeOK, SpecOrder, PTL DEF Spec

\* Waves, chunks, pauses and their registry keep the promise of the runner: from
\* outside, steps begin when they may, end, and the verdict is what it should be.
THEOREM SpecKeepsPromise == Spec => KeepsPromise
<1>1. Init => Promise!Init
  <2> SUFFICES ASSUME Init PROVE Promise!Init
    OBVIOUS
  <2>1. \A s \in Steps : StateOf(s) = "idle"
    BY DEF Init, StateOf
  <2> QED
    BY <2>1 DEF Init, Promise!Init, PhaseOf
<1>2. TypeOK /\ OrderInv /\ WaveInv /\ WaveInv' /\ VerdictInv /\ ExitKnown /\ [Next]_vars
        => [Promise!Next]_(Promise!vars)
  <2>1. TypeOK /\ UNCHANGED vars => UNCHANGED Promise!vars
    <3> SUFFICES ASSUME TypeOK, UNCHANGED vars PROVE UNCHANGED Promise!vars
      OBVIOUS
    <3> QED
      BY SeenNothing DEF vars
  <2> QED
    BY <2>1, SeenRunner, SeenCallback DEF Next, Callback
<1> QED
  BY <1>1, <1>2, SpecTypeOK, SpecOrder, SpecWaves, SpecVerdict, SpecExitKnown, PTL
  DEF Spec, Promise!Spec, KeepsPromise
=============================================================================
