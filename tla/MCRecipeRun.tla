---------------------------- MODULE MCRecipeRun ----------------------------
(* The recipes on which TLC checks RecipeRun. *)
EXTENDS RecipeRun

\* Four steps: two pause for the operator, after one the recipe goes on if it
\* fails, and two may run at a time.
With(declared, implicit) ==
  [declared |-> declared, implicit |-> implicit,
   kind |-> <<"human", "plain", "gate", "plain">>, goOn |-> {2}, width |-> 2]

\* A step that leaves depends_on out declares nothing.
WellFormed(recipes) == {r \in recipes : \A s \in r.implicit : r.declared[s] = {}}

\* Any dependencies on steps declared earlier: every shape of waves.
Forward == WellFormed({With(<<{}, d2, d3, d4>>, i) :
              d2 \in SUBSET (1..1), d3 \in SUBSET (1..2), d4 \in SUBSET (1..3),
              i \in SUBSET Steps})

\* At most one dependency each, on any step: circles of declared, of implicit,
\* and of declared and implicit dependencies.
Circular == WellFormed({With([s \in Steps |-> {d[s]} \ {0}], i) :
              d \in [Steps -> 0..N], i \in SUBSET Steps})

FourSteps == Forward \cup Circular

\* Steps that run one after the other.
OneByOne == {[declared |-> [s \in Steps |-> {}], implicit |-> Steps,
              kind |-> [s \in Steps |-> "plain"], goOn |-> {}, width |-> 4]}
=============================================================================
