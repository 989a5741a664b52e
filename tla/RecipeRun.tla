----------------------------- MODULE RecipeRun -----------------------------
(***************************************************************************)
(* One run of a Naseej recipe: the runner that executes its steps wave by  *)
(* wave, the registry of its paused steps, the operator who answers them,  *)
(* the cancel endpoint and the audit row of the run.                       *)
(*                                                                         *)
(* The server is one thread: a callback, and the promise reactions it      *)
(* brings about, run to their end before the next callback.  Each action   *)
(* is one callback, except that the processing of a settled chunk, which   *)
(* follows the callback that settled it at once, is an action of its own   *)
(* that no other callback can precede.                                     *)
(*                                                                         *)
(* Covered: waves and chunks, exits, throwing steps, on_failure, pauses    *)
(* with answers, wrong answers, timeouts and cancellation, the verdict.    *)
(* Not covered: the outputs of steps, the content of events, several runs  *)
(* under the same run_id, a restart (nothing of a run survives one but its *)
(* audit row).                                                             *)
(***************************************************************************)
EXTENDS RecipeWaves

CONSTANT Recipes   \* the recipes that may be run

ASSUME RecipesAssumption == Recipes \subseteq Recipe

VARIABLES
  recipe,     \* the recipe of the run
  stage,      \* "loaded", "running", "ended" or "refused"
  later,      \* the steps of the current wave that no chunk has reached
  step,       \* how far each step has come
  exit,       \* what the component of each step ended with
  failedStep, \* failedStep, 0 when it is undefined
  aborted,    \* controller.signal.aborted
  pause,      \* the entries of the pause registry
  audit       \* the status of the run's row in naseej_runs

vars == <<recipe, stage, later, step, exit, failedStep, aborted, pause, audit>>

StepStates == {"waiting", "invoked", "paused", "resumed", "settled", "recorded"}
Exits == {"none", "ok", "failed", "threw"}

\* "stale": the step is no longer paused, but its entry is still there.
PauseStates == {"none", "pending", "stale"}

TypeOK ==
  /\ recipe \in Recipes
  /\ stage \in {"loaded", "running", "ended", "refused"}
  /\ later \subseteq Steps
  /\ step \in [Steps -> StepStates]
  /\ exit \in [Steps -> Exits]
  /\ failedStep \in 0..N
  /\ aborted \in BOOLEAN
  /\ pause \in [Steps -> PauseStates]
  /\ audit \in {"none", "running", "paused", "success", "failed", "cancelled"}

Init ==
  /\ recipe \in Recipes
  /\ stage = "loaded"
  /\ later = {}
  /\ step = [s \in Steps |-> "waiting"]
  /\ exit = [s \in Steps |-> "none"]
  /\ failedStep = 0
  /\ aborted = FALSE
  /\ pause = [s \in Steps |-> "none"]
  /\ audit = "none"

In(states) == {s \in Steps : step[s] \in states}

\* The steps of the chunk under way.
Current == In({"invoked", "paused", "resumed", "settled"})

\* Promise.allSettled: the reactions run before any other callback.
ChunkSettled == stage = "running" /\ Current = In({"settled"})

-----------------------------------------------------------------------------
(***************************************************************************)
(* The runner.                                                             *)
(***************************************************************************)

\* Mutant: what has become ready joins the wave under way.
BeginWaveMutant(wave) ==
  LET joined == wave \cup Ready(recipe, In({"recorded", "settled"}))
      chunk == Chunk(recipe, joined)
  IN  /\ later' = joined \ chunk
      /\ step' = [s \in Steps |-> IF s \in chunk THEN "invoked"
                                  ELSE IF s \in Current THEN "recorded" ELSE step[s]]

\* The first chunk of the wave is invoked, the rest waits.
BeginWave(wave) ==
  LET chunk == Chunk(recipe, wave)
  IN  /\ later' = wave \ chunk
      /\ step' = [s \in Steps |-> IF s \in chunk THEN "invoked"
                                  ELSE IF s \in Current THEN "recorded" ELSE step[s]]

\* A recipe whose declared or implicit dependencies run in a circle is refused;
\* else the audit row is written and the first wave begins.
Start ==
  /\ stage = "loaded"
  /\ IF TopoSorts(recipe) /\ HasWaves(recipe)
     THEN /\ stage' = "running"
          /\ audit' = "running"
          /\ BeginWave(Ready(recipe, {}))
     ELSE stage' = "refused" /\ UNCHANGED <<audit, later, step>>
  /\ UNCHANGED <<recipe, exit, failedStep, aborted, pause>>

\* Mutant: a recipe may go on after a rejected promise as well.
HaltsMutant(s) == exit[s] \in {"threw", "failed"} /\ s \notin recipe.goOn

\* The chunk's results that end the run: a rejected promise whatever the recipe
\* says, a non-zero exit unless the recipe says to continue.
Halts(s) == exit[s] = "threw" \/ (exit[s] = "failed" /\ s \notin recipe.goOn)
Halting == {s \in Current : Halts(s)}

\* Mutant: whether a step failed is looked at before the signal.
VerdictMutant ==
  IF failedStep' # 0 THEN "failed" ELSE IF aborted THEN "cancelled" ELSE "success"

\* Mutant: the audit row gets the name of the event.
VerdictEventMutant == IF aborted THEN "cancelled" ELSE IF failedStep' # 0 THEN "failed" ELSE "complete"

Verdict == IF aborted THEN "cancelled" ELSE IF failedStep' # 0 THEN "failed" ELSE "success"

Finish ==
  /\ stage' = "ended"
  /\ audit' = Verdict
  /\ UNCHANGED later

\* Mutant: the loop over the chunks is left, the one over the waves is not.
ChunkHaltsMutant ==
  /\ ChunkSettled /\ Halting # {}
  /\ failedStep' \in Halting
  /\ LET recorded == In({"recorded", "settled"})
         wave == IF later # {} THEN later ELSE Ready(recipe, recorded)
     IN  IF recorded = Steps
         THEN step' = [s \in Steps |-> "recorded"] /\ Finish
         ELSE BeginWave(wave) /\ UNCHANGED <<stage, audit>>
  /\ UNCHANGED <<recipe, exit, aborted, pause>>

\* The results of the chunk are processed in declaration order.  The first that
\* halts is the last one recorded; those of its later siblings are dropped.
ChunkHalts ==
  /\ ChunkSettled /\ Halting # {}
  /\ \E f \in Halting :
       /\ \A s \in Halting : f <= s
       /\ failedStep' = f
       /\ step' = [s \in Steps |-> IF s \in Current /\ s <= f THEN "recorded" ELSE step[s]]
  /\ Finish
  /\ UNCHANGED <<recipe, exit, aborted, pause>>

\* Every result is recorded; the next chunk, or the next wave, begins at once.
ChunkPasses ==
  /\ ChunkSettled /\ Halting = {}
  /\ failedStep' = failedStep
  /\ LET recorded == In({"recorded", "settled"})
         wave == IF later # {} THEN later ELSE Ready(recipe, recorded)
     IN  IF recorded = Steps
         THEN /\ step' = [s \in Steps |-> "recorded"]
              /\ Finish
         ELSE /\ BeginWave(wave)
              /\ UNCHANGED <<stage, audit>>
  /\ UNCHANGED <<recipe, exit, aborted, pause>>

-----------------------------------------------------------------------------
(***************************************************************************)
(* The invocations of components.                                          *)
(***************************************************************************)

Settle(s, how) ==
  /\ step' = [step EXCEPT ![s] = "settled"]
  /\ exit' = [exit EXCEPT ![s] = how]

\* An invocation, the first or the one that carries the answer, exits.  A second
\* request to pause is a non-zero exit like any other.
Exit(s, how) ==
  /\ step[s] \in {"invoked", "resumed"}
  /\ how \in {"ok", "failed", "threw"}
  /\ Settle(s, how)
  /\ UNCHANGED <<recipe, stage, later, failedStep, aborted, pause, audit>>

\* Mutant: the registry does not look at a signal that has fired before.
PausesMutant(s) ==
  /\ step[s] = "invoked" /\ recipe.kind[s] # "plain"
  /\ step' = [step EXCEPT ![s] = "paused"]
  /\ pause' = [pause EXCEPT ![s] = "pending"]
  /\ audit' = "paused"
  /\ UNCHANGED <<recipe, stage, later, exit, failedStep, aborted>>

\* A gate asks for a pause.  The registry refuses it when the run is cancelled.
Pauses(s) ==
  /\ step[s] = "invoked" /\ recipe.kind[s] # "plain"
  /\ IF aborted
     THEN /\ Settle(s, "failed")
          /\ audit' = "running"
          /\ UNCHANGED pause
     ELSE /\ step' = [step EXCEPT ![s] = "paused"]
          /\ pause' = [pause EXCEPT ![s] = "pending"]
          /\ audit' = "paused"
          /\ UNCHANGED exit
  /\ UNCHANGED <<recipe, stage, later, failedStep, aborted>>

-----------------------------------------------------------------------------
(***************************************************************************)
(* The pause registry: answers, wrong answers, timers, cancellation.       *)
(***************************************************************************)

\* Mutant: the audit row is set back only where a pause is answered.
RejectsMutant(s) ==
  IF step[s] = "paused"
  THEN Settle(s, "failed") /\ UNCHANGED audit
  ELSE UNCHANGED <<step, exit, audit>>

\* The pause of step s comes to its end without an answer.
Rejects(s) ==
  IF step[s] = "paused"
  THEN Settle(s, "failed") /\ audit' = "running"
  ELSE UNCHANGED <<step, exit, audit>>

\* An answer of the right kind.  To a stale entry it does nothing, although the
\* endpoint says that the run has resumed.
Respond(s) ==
  /\ ~ChunkSettled
  /\ pause[s] # "none"
  /\ pause' = [pause EXCEPT ![s] = "none"]
  /\ IF step[s] = "paused"
     THEN step' = [step EXCEPT ![s] = "resumed"] /\ audit' = "running"
     ELSE UNCHANGED <<step, audit>>
  /\ UNCHANGED <<recipe, stage, later, exit, failedStep, aborted>>

\* An answer of the wrong kind fails the step; entry and timer stay.
Mismatch(s) ==
  /\ ~ChunkSettled
  /\ pause[s] = "pending"
  /\ pause' = [pause EXCEPT ![s] = "stale"]
  /\ Rejects(s)
  /\ UNCHANGED <<recipe, stage, later, failedStep, aborted>>

\* Mutant: the timer takes the entry away and forgets the promise.
TimeoutMutant(s) ==
  /\ ~ChunkSettled
  /\ pause[s] # "none"
  /\ pause' = [pause EXCEPT ![s] = "none"]
  /\ UNCHANGED <<recipe, stage, later, step, exit, failedStep, aborted, audit>>

Timeout(s) ==
  /\ ~ChunkSettled
  /\ pause[s] # "none"
  /\ pause' = [pause EXCEPT ![s] = "none"]
  /\ Rejects(s)
  /\ UNCHANGED <<recipe, stage, later, failedStep, aborted>>

\* The controller fires: every pause is rejected.  Components that are running
\* are not stopped, and the loop does not look at the signal.
Cancel ==
  /\ stage = "running" /\ ~ChunkSettled
  /\ ~aborted
  /\ aborted' = TRUE
  /\ pause' = [s \in Steps |-> "none"]
  /\ step' = [s \in Steps |-> IF step[s] = "paused" THEN "settled" ELSE step[s]]
  /\ exit' = [s \in Steps |-> IF step[s] = "paused" THEN "failed" ELSE exit[s]]
  /\ audit' = IF In({"paused"}) # {} THEN "running" ELSE audit
  /\ UNCHANGED <<recipe, stage, later, failedStep>>

-----------------------------------------------------------------------------
Runner == Start \/ ChunkHalts \/ ChunkPasses

StepProgress(s) ==
  \/ \E how \in {"ok", "failed", "threw"} : Exit(s, how)
  \/ Pauses(s)
  \/ Timeout(s)

Next ==
  \/ Runner
  \/ \E s \in Steps : StepProgress(s) \/ Respond(s) \/ Mismatch(s)
  \/ Cancel

Spec == Init /\ [][Next]_vars

\* Callbacks run, components exit or pause, and the timer of a pause fires.
\* Nobody has to answer, and nobody has to cancel.
FairSpec == Spec /\ WF_vars(Runner) /\ \A s \in Steps : WF_vars(StepProgress(s))

-----------------------------------------------------------------------------
(***************************************************************************)
(* What holds in every run.                                                *)
(***************************************************************************)

\* A set of steps each of which needs another of the set, or itself.
Cyclic == \E S \in (SUBSET Steps) \ {{}} : \A s \in S : DepsOf(recipe, s) \cap S # {}

\* toWaves, which never looks for a cycle, refuses just the recipes that have
\* one, and puts each step into the first wave its dependencies allow.
WavesAreLayers ==
  /\ stage = "refused" => Cyclic
  /\ stage \in {"running", "ended"} =>
       /\ ~Cyclic
       /\ \A n \in 2..N : \A s \in InWaves(recipe)[n] \ InWaves(recipe)[n - 1] :
            DepsOf(recipe, s) \ InWaves(recipe)[n - 2] # {}

\* The waves that runRecipe computed before it began are those it runs: at any
\* time it is at one of them, all steps of the earlier ones are recorded and none
\* of a later one has begun, however its chunks settle.
OneWaveAtATime ==
  stage = "running" =>
    \E n \in 1..N :
      /\ InWaves(recipe)[n - 1] \subseteq In({"recorded"})
      /\ InWaves(recipe)[n] = later \cup {s \in Steps : step[s] # "waiting"}

\* While a run goes on some component is out, or has settled and is about to be
\* processed: no wave or chunk is ever empty, whatever circles a recipe has in
\* the dependencies that topoSort does not look at.
RunningHasWork == stage = "running" => Current # {}

\* A step is invoked only when the results of its dependencies, declared or
\* implicit, are there for its inputs to refer to: chunks and waves that run
\* side by side never get ahead of one another.
InputsAreThere ==
  \A s \in Steps : step[s] # "waiting" =>
    \A d \in DepsOf(recipe, s) : step[d] = "recorded"

\* No more than max_parallelism components of the run are out at a time.
WithinWidth == Cardinality(In({"invoked", "paused", "resumed"})) <= recipe.width

\* A step that waits for its operator can be answered, and nobody waits for an
\* operator in a run that has been cancelled.
PausedCanBeAnswered ==
  \A s \in Steps : step[s] = "paused" => pause[s] = "pending" /\ ~aborted

\* The audit row says paused only while a step is.
AuditPausedIsTrue == audit = "paused" => In({"paused"}) # {}

\* The verdict: cancelled whenever the signal has fired, success only when every
\* step ran and none failed but with leave of the recipe, failed only for a
\* recorded step that did.
VerdictIsEarned ==
  stage = "ended" =>
    /\ audit \in {"success", "failed", "cancelled"}
    /\ audit = "cancelled" <=> aborted
    /\ audit = "success" => \A s \in Steps : step[s] = "recorded" /\ ~Halts(s)
    /\ audit = "failed" => \E s \in In({"recorded"}) : Halts(s)

\* Once a result that halts the run is recorded no further step is invoked.
NothingStartsAfterHalt ==
  [][(\E s \in Steps : step'[s] = "recorded" /\ Halts(s)) =>
       \A s \in Steps : step[s] = "waiting" => step'[s] = "waiting"]_vars

\* A run that has begun ends, whether or not anybody answers its pauses.
RunEnds == (stage = "running") ~> (stage = "ended")

-----------------------------------------------------------------------------
(***************************************************************************)
(* What the run looks like from outside.                                   *)
(***************************************************************************)

\* What a recipe asks of its run.
PlanOf(r) ==
  [needs |-> [s \in Steps |-> DepsOf(r, s)], width |-> r.width, goOn |-> r.goOn]

StateOf(s) ==
  CASE step[s] = "waiting" -> "idle"
    [] step[s] \in {"invoked", "paused", "resumed"} -> "busy"
    [] OTHER -> exit[s]

PhaseOf ==
  CASE stage = "loaded" -> "asked"
    [] stage = "running" -> "going"
    [] stage = "refused" -> "refused"
    [] OTHER -> audit

Promise == INSTANCE RecipePromise
             WITH Plans <- {PlanOf(r) : r \in Recipes},
                  plan <- PlanOf(recipe), state <- [s \in Steps |-> StateOf(s)],
                  cancelled <- aborted, phase <- PhaseOf

\* Waves, chunks, pauses and their registry are a way to keep the promise: from
\* outside steps begin when they may, end, and the verdict is what it should be.
KeepsPromise == Promise!Spec

-----------------------------------------------------------------------------
(***************************************************************************)
(* What the code's comments say and the code does not keep.                *)
(***************************************************************************)

\* runner.ts: after a cancel "the loop breaks on the next step's signal check".
NothingStartsAfterCancel ==
  [][aborted => \A s \in Steps : step[s] = "waiting" => step'[s] = "waiting"]_vars
=============================================================================
