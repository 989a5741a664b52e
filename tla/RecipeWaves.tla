---------------------------- MODULE RecipeWaves ----------------------------
(***************************************************************************)
(* A Naseej recipe as its runner sees it, and the pure functions that      *)
(* order its steps: topoSort, which accepts or refuses the dependencies a  *)
(* recipe declares, and toWaves, which groups the steps for execution.     *)
(* Steps are numbered in the order in which the recipe declares them.      *)
(*                                                                         *)
(* Not covered: input resolution, templating, the text of the steps.  The  *)
(* recipe schema has refused dependencies on unknown steps before.         *)
(***************************************************************************)
EXTENDS Naturals, FiniteSets

CONSTANT N   \* the number of steps of a recipe

ASSUME NAssumption == N \in Nat \ {0}

Steps == 1..N

Kinds == {"plain", "human", "gate"}   \* what the component of a step pauses for

Recipe == [declared : [Steps -> SUBSET Steps],  \* depends_on
           implicit : SUBSET Steps,             \* the steps that leave it out
           kind     : [Steps -> Kinds],
           goOn     : SUBSET Steps,             \* on_failure: continue
           width    : 1..16]                    \* max_parallelism

\* A step without depends_on inherits the previous step as its dependency.
DepsOf(recipe, s) ==
  IF s \in recipe.implicit THEN {s - 1} \ {0} ELSE recipe.declared[s]

\* Mutant: one step of a wave is enough for a dependent to join the wave.
ReadyMutant(recipe, earlier) ==
  {s \in Steps \ earlier : DepsOf(recipe, s) = {} \/ DepsOf(recipe, s) \cap earlier # {}}

\* The remaining steps all of whose dependencies are in earlier waves.
Ready(recipe, earlier) == {s \in Steps \ earlier : DepsOf(recipe, s) \subseteq earlier}

\* Mutant: a wave takes the place of the earlier ones.
InWavesMutant(recipe) ==
  LET in[n \in 0..N] ==
        IF n = 0 THEN {} ELSE LET e == in[n - 1] IN Ready(recipe, e)
  IN  in

\* The steps of the first n waves.
InWaves(recipe) ==
  LET in[n \in 0..N] ==
        IF n = 0 THEN {} ELSE LET e == in[n - 1] IN e \cup Ready(recipe, e)
  IN  in

\* Mutant: only a first round without a step is noticed.
HasWavesMutant(recipe) == Ready(recipe, {}) # {}

\* toWaves throws when a round finds no step ready.
HasWaves(recipe) == InWaves(recipe)[N] = Steps

\* topoSort looks at declared dependencies only, depth first; it throws when it
\* meets a step that is still on its stack.  reach[n][s] is what a path of up to
\* n dependencies leads to from s.
TopoSorts(recipe) ==
  LET declared(s) == IF s \in recipe.implicit THEN {} ELSE recipe.declared[s]
      reach[n \in 0..N] ==
        IF n = 0 THEN [s \in Steps |-> declared(s)]
        ELSE LET nearer == reach[n - 1]
             IN  [s \in Steps |-> declared(s) \cup UNION {nearer[d] : d \in declared(s)}]
  IN  \A s \in Steps : s \notin reach[N][s]

\* Mutant: one step too many.
ChunkMutant(recipe, wave) ==
  {s \in wave : Cardinality({r \in wave : r < s}) <= recipe.width}

\* A wave is split into chunks of max_parallelism steps, in declaration order.
Chunk(recipe, wave) ==
  {s \in wave : Cardinality({r \in wave : r < s}) < recipe.width}
=============================================================================
