----------------------------- MODULE MCConductor -----------------------------
(* The plans on which TLC checks Conductor. *)
EXTENDS Conductor, TLC

CONSTANTS a, b, c, d, c1, c2

\* A foundation task and an independent one run first; c needs the foundation.
FanDeps == (a :> {}) @@ (b :> {}) @@ (c :> {a})

\* Each task needs the one before it.
ChainDeps == (a :> {}) @@ (b :> {a}) @@ (c :> {b})

\* More independent tasks than workers, and one that needs the first.
WideDeps == (a :> {}) @@ (b :> {}) @@ (c :> {}) @@ (d :> {a})

ThreeInOrder == <<a, b, c>>
FourInOrder == <<a, b, c, d>>

\* The dependent task is the first of the plan.
DependentFirst == <<c, a, b>>

\* Requests are interchangeable.
Swap == Permutations({c1, c2})
=============================================================================
