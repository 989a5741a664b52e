--------------------------- MODULE RecipePromise ---------------------------
(***************************************************************************)
(* What the runner promises of a recipe, with no word of waves, chunks,    *)
(* pauses or the audit row: a step begins once, when all it needs has      *)
(* ended, while nothing has halted the run and there is room; the verdict  *)
(* comes when no step is busy any more.  A recipe whose needs run in a     *)
(* circle is refused, and no other is.                                     *)
(***************************************************************************)
EXTENDS Naturals, FiniteSets

CONSTANTS
  Steps,
  Plans   \* what each step needs, how many may be busy, which failures do not halt

VARIABLES
  plan,
  state,      \* how far each step is
  cancelled,
  phase       \* "asked", "going", "refused", or the verdict

vars == <<plan, state, cancelled, phase>>

Init ==
  /\ plan \in Plans
  /\ state = [s \in Steps |-> "idle"]
  /\ cancelled = FALSE
  /\ phase = "asked"

In(states) == {s \in Steps : state[s] \in states}

Circular == \E S \in (SUBSET Steps) \ {{}} : \A s \in S : plan.needs[s] \cap S # {}

\* A step that throws halts the run whatever the recipe says.
Halted == In({"threw"}) \cup (In({"failed"}) \ plan.goOn)

Refuse ==
  /\ phase = "asked" /\ Circular
  /\ phase' = "refused"
  /\ UNCHANGED <<plan, state, cancelled>>

\* Some steps begin; the run does with its first.
Begin(S) ==
  /\ phase \in {"asked", "going"} /\ ~Circular
  /\ S # {} /\ S \subseteq In({"idle"})
  /\ \A s \in S : plan.needs[s] \subseteq In({"ok", "failed"})
  /\ Halted = {}
  /\ Cardinality(In({"busy"}) \cup S) <= plan.width
  /\ state' = [s \in Steps |-> IF s \in S THEN "busy" ELSE state[s]]
  /\ phase' = "going"
  /\ UNCHANGED <<plan, cancelled>>

End(s, how) ==
  /\ phase = "going"
  /\ state[s] = "busy"
  /\ state' = [state EXCEPT ![s] = how]
  /\ UNCHANGED <<plan, cancelled, phase>>

\* A cancel fails the steps it can reach; the others go on.
Cancel(S) ==
  /\ phase = "going" /\ ~cancelled
  /\ cancelled' = TRUE
  /\ S \subseteq In({"busy"})
  /\ state' = [s \in Steps |-> IF s \in S THEN "failed" ELSE state[s]]
  /\ UNCHANGED <<plan, phase>>

Conclude ==
  /\ phase = "going"
  /\ In({"busy"}) = {}
  /\ Halted # {} \/ In({"idle"}) = {}
  /\ phase' = IF cancelled THEN "cancelled" ELSE IF Halted # {} THEN "failed" ELSE "success"
  /\ UNCHANGED <<plan, state, cancelled>>

Next ==
  \/ Refuse
  \/ \E S \in SUBSET Steps : Begin(S) \/ Cancel(S)
  \/ \E s \in Steps : \E how \in {"ok", "failed", "threw"} : End(s, how)
  \/ Conclude

Spec == Init /\ [][Next]_vars
=============================================================================
