-------------------------- MODULE OrchestrationRun --------------------------
(***************************************************************************)
(* The persisted state of one orchestration run, run.json, and the pure    *)
(* functions conductor.ts and the /api/orchestration routes compute on it. *)
(* A run is loaded, changed in memory and saved whole, so every snapshot a *)
(* handler holds is a value of this module's set Run.                      *)
(*                                                                         *)
(* Covered: the run status and the status of every worker entry.           *)
(* Not covered: task text, file ownership, logs, failure summaries,        *)
(* conflict reports, merge log (no decision of the conductor reads them).  *)
(***************************************************************************)
EXTENDS Naturals, FiniteSets, Sequences

CONSTANTS
  Tasks,       \* the ids of plan.tasks
  Deps,        \* Deps[t]: dependsOn of task t
  PlanOrder,   \* the order of plan.tasks, the order a dispatch pass walks
  PM,          \* the key '_pm' of the project manager's worker entry
  MaxWorkers   \* MAX_WORKERS

ASSUME TasksAssumption == IsFiniteSet(Tasks) /\ Tasks # {} /\ PM \notin Tasks
ASSUME DepsAssumption == Deps \in [Tasks -> SUBSET Tasks]
ASSUME OrderAssumption == PlanOrder \in Seq(Tasks)
ASSUME MaxWorkersAssumption == MaxWorkers \in Nat

Entries == Tasks \cup {PM}

RunStatus == {"planning", "running", "merging", "done", "failed",
              "cancelled", "archived"}

\* "none" stands for a missing entry of run.workers.
WorkerStatus == {"none", "running", "done", "failed", "killed", "stuck",
                 "blocked", "interrupted", "validation_failed"}

\* The statuses that need no further work of the conductor.
Resolved == {"done", "failed", "killed", "stuck", "blocked", "interrupted",
             "validation_failed"}

\* The statuses of a worker whose task did not succeed on its own account.
Unsuccessful == {"failed", "killed", "stuck", "validation_failed"}

Run == [status : RunStatus, worker : [Entries -> WorkerStatus]]

\* createRun: a new run is in planning and has no workers.
NewRun == [status |-> "planning", worker |-> [e \in Entries |-> "none"]]

RunningTasks(worker) == {t \in Tasks : worker[t] = "running"}

RunningEntries(worker) == {e \in Entries : worker[e] = "running"}

\* Mutant: off by one.
CanSpawnWorkerMutant(count) == count <= MaxWorkers

CanSpawnWorker(count) == count < MaxWorkers

DepsReady(worker, t) == \A d \in Deps[t] : worker[d] = "done"

\* Mutant: a task is not skipped for having an entry.
ReadyFromMutant(worker, i) ==
  {j \in i..Len(PlanOrder) : DepsReady(worker, PlanOrder[j])}

\* Mutant: the dependencies are not looked at.
ReadyFromUnordered(worker, i) ==
  {j \in i..Len(PlanOrder) : worker[PlanOrder[j]] = "none"}

\* The positions from i on whose task a dispatch pass does not skip.
ReadyFrom(worker, i) ==
  {j \in i..Len(PlanOrder) : /\ worker[PlanOrder[j]] = "none"
                             /\ DepsReady(worker, PlanOrder[j])}

\* Only the direct dependents without an entry are blocked.
PropagateBlocked(worker, t) ==
  [e \in Entries |-> IF e \in Tasks /\ worker[e] = "none" /\ t \in Deps[e]
                     THEN "blocked" ELSE worker[e]]

\* Mutant: the dependents of a task that did not succeed are left alone.
RecordExitMutant(run, t, st) == [run EXCEPT !.worker[t] = st]

\* What the exit listener writes for task t whose worker ended with status st.
RecordExit(run, t, st) ==
  LET recorded == [run.worker EXCEPT ![t] = st]
  IN  [run EXCEPT !.worker = IF st \in Unsuccessful
                             THEN PropagateBlocked(recorded, t)
                             ELSE recorded]

\* Mutant: a task that has an entry counts as resolved.
AllResolvedMutant(run) == \A t \in Tasks : run.worker[t] # "none"

\* Mutant: blocked is missing from the list of resolved statuses.
AllResolvedNoBlocked(run) == \A t \in Tasks : run.worker[t] \in Resolved \ {"blocked"}

AllResolved(run) == \A t \in Tasks : run.worker[t] \in Resolved

FinalStatus(run) ==
  IF \E t \in Tasks : run.worker[t] \in Resolved \ {"done"}
  THEN "failed" ELSE "done"

-----------------------------------------------------------------------------
(***************************************************************************)
(* What the handlers check on the run they load, and what they save for it.*)
(***************************************************************************)

CanApprove(run) == run.status = "planning"
Approve(run) == [run EXCEPT !.status = "running"]

\* The DELETE route cancels a run it takes for active.
IsActive(run) == run.status \notin {"done", "failed", "cancelled"}
Cancel(run) == [run EXCEPT !.status = "cancelled"]

Archive(run) == [run EXCEPT !.status = "archived"]

\* The reopened run keeps its plan and forgets its workers.
CanReopen(run) == run.status \in {"cancelled", "failed"}
Reopen(run) == NewRun

\* The kill route marks the entry; it reaches no process.
CanKill(run, e) == run.worker[e] = "running"
Kill(run, e) == [run EXCEPT !.worker[e] = "killed"]

\* A merge is offered whatever the status of the run.
CanMerge(run) == \E t \in Tasks : run.worker[t] = "done"
Merging(run) == [run EXCEPT !.status = "merging"]
EndMerge(run, st) == [run EXCEPT !.status = st]

CanOpenPm(run) == run.status \in {"planning", "running", "failed"}
OpenPm(run) == [run EXCEPT !.worker[PM] = "running"]

\* The PM's exit listener.
PmAtWork(run) == run.worker[PM] = "running"
EndPm(run) == [run EXCEPT !.worker[PM] = "failed"]

InterruptedTasks(run) == {t \in Tasks : run.worker[t] = "interrupted"}

(***************************************************************************)
(* resumeRun deletes the interrupted entries, then walks run.workers and   *)
(* deletes in place each blocked entry one of whose dependencies has no    *)
(* entry by then.  Whether a deletion cascades to a blocked dependent      *)
(* depends on the order of the keys in run.json, which is not modelled:    *)
(* Unblocked is the set of the outcomes some order of the keys gives.      *)
(***************************************************************************)
Unblocked(worker) ==
  LET blocked == {t \in Tasks : worker[t] = "blocked"}
      missing == {t \in Tasks : worker[t] \in {"none", "interrupted"}}
  IN  {S \in SUBSET blocked :
         /\ \A t \in blocked : Deps[t] \cap missing # {} => t \in S
         /\ \A t \in S : Deps[t] \cap (missing \cup S) # {}}

Resume(run, unblocked) ==
  [status |-> "running",
   worker |-> [e \in Entries |->
                 IF e \in InterruptedTasks(run) \cup unblocked
                 THEN "none" ELSE run.worker[e]]]

\* recoverRuns looks only at a run that was under way and has dead workers.
NeedsRecovery(run, alive) ==
  /\ run.status \in {"running", "merging"}
  /\ RunningEntries(run.worker) \ alive # {}

\* Mutant: a dead worker is taken for one that has finished.
RecoverMutant(run, alive) ==
  [run EXCEPT !.worker = [e \in Entries |->
     IF e \in RunningEntries(run.worker) \ alive THEN "done" ELSE run.worker[e]]]

\* It fails a merge, and a running run all of whose task entries are resolved;
\* validation_failed is not on its list of resolved statuses.
Recover(run, alive) ==
  LET worker == [e \in Entries |-> IF e \in RunningEntries(run.worker) \ alive
                                   THEN "interrupted" ELSE run.worker[e]]
      present == {t \in Tasks : worker[t] # "none"}
      settled == /\ present # {}
                 /\ \A t \in present : worker[t] \in Resolved \ {"validation_failed"}
  IN  [status |-> IF run.status = "merging" \/ settled
                  THEN "failed" ELSE run.status,
       worker |-> worker]
=============================================================================
