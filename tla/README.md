# Soul Hub in TLA+

Soul Hub is one Node server (SvelteKit) that runs agents for its operator: it
dispatches the tasks of an orchestration plan to coding-agent sessions, executes
recipes of components ("Naseej"), schedules tasks, routes chat requests over LLM
providers, answers WhatsApp and Telegram, and keeps a vault of notes, an inbox
and a CRM. This directory holds TLA+ models of the parts whose difficulty is
control (interleaving, stale state, restarts), the TLC configurations that check
them and the proofs about them. Paths below are relative to the repository.

## 1. Inventory

There is one process and one thread: code between two awaits is atomic,
everything that awaits interleaves. What survives a restart is files (run.json
of a run, the vault) and SQLite rows; everything else is memory.

| Component | State | Operations | What is hard | What makes it correct |
|---|---|---|---|---|
| Conductor `src/lib/orchestration/conductor.ts` | run.json (run status, worker entries); per run a dispatch lock, shared worker objects, listeners | approve, dispatch pass, spawn, stall detection, exit and validation, conflict scan, resume, boot recovery, shutdown, PM session | whole-snapshot saves after awaits; routes and the shutdown hook bypass the lock; spawn timeouts; crash between spawn and save | a task has one worker and starts after its dependencies; never over MAX_WORKERS; successes are kept (over a shutdown those settled before it) and earned; a run ends |
| Run store and routes `orchestration/board.ts`, `src/routes/api/orchestration/**` | run.json | create, cancel, delete with archive, reopen, kill, merge, PM message | stale saves; kill reaches no process | an archived run stays as it is |
| Merge agent `orchestration/merge-agent.ts` | its snapshot of the run, for minutes | merging, done or failed | repeated saves of one old snapshot | invents no success |
| Naseej runner `src/lib/naseej/runner.ts` | waves, chunk in flight, abort controller | start, settle chunk, verdict, cancel | chunks in parallel, gates paused for an operator | a step starts when its inputs are there; verdict is earned; a run ends |
| Pause registry `naseej/pause-registry.ts` | pending pauses, timers | register, resolve, time out, abort | answer, timer, cancel race | a paused step can be answered |
| Scheduler `src/lib/scheduler/` | rows scheduler_runs, cron timers, abort controllers | tick, run now, cancel, sweep, catch-up, reconcile | overlap over restarts, stale `started` rows | noOverlap; no run is lost or jammed |
| Routes and failover `src/lib/routes/` | a breaker per provider: failures in a window, parked until | execute with retries, park, unpark, snapshot | requests share the breakers; a late outcome of one undoes or prolongs what another caused; abort looks like a timeout | a provider is parked for its own last failures, and only its success or a restart frees it early; requests and parkings end |
| Chat orchestrator `src/lib/orchestrator/` | active runs, one pending proposal per conversation | propose, confirm, dispatch, cancel | capacity checked before an await, started after it | caps; cancel reaches the run |
| Agents `src/lib/agents/` | agent_runs rows, pending approvals and warnings, live grants | dispatch, pause, resume, stop, gate, hand back, sweep | dispatches and taps race to one guard; resumed runs share a session, a run id and stale grants; rows left open by a crash, an exception or a failed write | one session per subject; no ceiling above the grants; no subject blocked by a run that was recorded; a budget that counts what was spent |
| Playbook `src/lib/playbook/` | run file | phases, chains | the same as recipes | the same |
| Vault, inbox, CRM, channels, heartbeat, intent, projects, hygiene | files, SQLite | CRUD, sync, index | cursors, commits | no lost note or message |
| UI, catalog, CLI, media tools, LLM clients | none of their own | | network | |

The parts meet as follows. The HTTP routes call the conductor and the run store
directly. The conductor spawns PTY sessions through a provider and learns of
their end from an exit event. The naseej runner spawns one process per step;
gates end with a pause request on stdout, and the respond endpoint resolves the
promise the runner awaits. The scheduler, the chat orchestrator and the heartbeat
start agent runs and recipes by function calls. PROJECT.json lists every
component with its status, and, under "hazards", what is hard to test, by line.

## 2. Modules

### Orchestration

- `OrchestrationRun.tla`: run.json as a value (run status, one status per
  worker entry) and the pure functions of the code on it: which tasks are ready,
  what an exit records and whom it blocks, when a run is resolved and how it ends,
  what resume and recovery change, and what each route checks and saves.
- `Conductor.tla`: the machine. The variables are the disk, the worker sessions
  (with the worker object they share with the pass that spawned them), the queue of
  the dispatch lock with the stage of its head, the snapshots of the exit job and of
  the pass, and the handlers that run outside of the lock.
- `TaskScheduler.tla`: the promise. Tasks go from idle to active to exited
  to succeeded or failed, with no word of disk, snapshots or locks. A crash loses what was at work; a
  server that shuts down is in the phase "stopping", in which it promises only what had succeeded or failed before.
  `Conductor!KeepsPromise` is the refinement: `disk.status` is its phase until the hook begins, and `JobOf`
  reads a task's state from its session while one is at work, else from the disk.
- `MCConductor.tla`: the plans the runs use.
- `ConductorProofs.tla`: what holds under all requests. `ConductorSerialProofs.tla`: what needs
  approve and resume one at a time. `ConductorPromiseProofs.tla`: the refinement.

How actions correspond to code (line by line in PROJECT.json, "map"):

| Code | Actions |
|---|---|
| `withDispatchLock` | `lockq`, `Holds`, `Release` |
| `dispatchReadyWorkersInner` | `PassBegin` (load), `PassPick` (loop to the next ready task, capacity), `PassSpawn` / `PassSpawnFails` / `PassSpawnTimesOut`, `PassEnd` (save) |
| its stall detector and exit listener | `Stall`, `ExitClean`, `ExitUnclean`, `Validated`; under the lock `ExitLoad`, `ExitSave`, a pass, `ExitFinish` |
| `checkActiveConflicts` | `ConflictScan`, `ConflictsLoad`, `ConflictsSave` |
| a route or `approveAndStart`, `resumeRun`, `generatePlan`, `runSmartMerge`, `recoverRuns` | `Arrive` or `Load` (load and check), `MergeProgress`, `Save` |
| PM exit | `PmExits`, then `Load`, `Save` of the handler pmExit |
| `triggerShutdown`, `shutdownSoulHub` (list, then one `killWorkerAsync` per worker) | `ShutdownBegins`; `ShutdownKills` (load) and `Save` of the handler shutdown, for each worker; `Exit` |
| a crash, the startup hook | `Crash`, `Reboot` |

A handler outside of the lock is two steps, load and save, because it awaits in
between; where the code awaits nothing between two reads they are one step.
`approve` and `pm` check the run twice (route, then conductor); the model merges
both into the load. The routes of `resume` and `merge` check a copy of their own when the request arrives, and
`resumeRun` and `runSmartMerge` load the run again, the latter without a check.

The shutdown hook is not one step. It kills the sessions, whose exits, validations and exit jobs go on; it lists the
runs and for each worker the listing calls running loads the run anew, awaits, sets it to killed whatever it has become, and
saves its whole snapshot outside of the lock. Exit jobs interleave with every one of these
steps, and `Exit` may come at any of them, as server.js gives the hook eight seconds. No request is
accepted any more, but those under way go on.

### Naseej

- `RecipeWaves.tla`: a recipe (explicit and implicit dependencies, kinds,
  on_failure, max_parallelism) and topoSort, toWaves and the chunks as pure functions.
- `RecipeRun.tla`: one run. An action is one callback together with the promise
  reactions it causes. The exception is the handling of a settled chunk (`ChunkHalts`,
  `ChunkPasses`), an action of its own that no other callback precedes (`~ChunkSettled`).
- `RecipePromise.tla`: the promise. Each step is idle, busy or ended; a step begins
  when all it needs has ended, nothing has halted the run and there is room. There are no
  waves, so that this scheduler is free to begin a step earlier than the code does.
  `RecipeRun!KeepsPromise` is the refinement: `PlanOf` is what the recipe asks, `StateOf` reads
  a step as busy while it is invoked, paused or resumed and else as its exit, and `PhaseOf` is
  the stage of the run and then its audit row.
- `MCRecipeRun.tla`: the recipes. `RecipeRunProofs.tla`: the proofs.

| Code | Actions |
|---|---|
| `runRecipe`: sorting, audit row, first wave | `Start` |
| the loop over chunks and waves, `on_failure`, the verdict | `ChunkHalts`, `ChunkPasses`, `Finish`, `Verdict` |
| `runComponent`, `runComponentStep` | `Exit` |
| `runComponentStepWithGateIntercept`, `registerPause` | `Pauses` |
| `resolvePause` (right kind, wrong kind), its timer | `Respond`, `Mismatch`, `Timeout` |
| `cancelRun`, the abort listener of a pause | `Cancel` |

### Scheduler

- `Scheduler.tla`: the rows of scheduler_runs, settings.json and the clock
  survive a restart; registry, pending cron callbacks, running functions, their
  controllers and the boot's locals do not. recordRun has no await before the task's
  function is called, so the start of a run is one action and its end another.
- `MCScheduler.tla`: two tasks. `SchedulerProofs.tla`: the proofs.

| Code | Definition |
|---|---|
| `recordRun` up to the call of fn, and after it | `RecordRun`, `Finish` |
| cron callback, `runNow`, `killRun` | `Fire`, `RunNow`, `KillRun` |
| `hasActiveRun`, `lastSuccessfulRun` | `HasActiveRun`, `LastSuccessfulRun` |
| `reconcileFromSettings` on a settings POST | `ChangeSettings` |
| `initSchedulerCore`: sweep, reconcile, list | `StartUp`, `Swept` |
| `catchupTask`, `applyCatchupOnBoot` | `Missed`, `PrevFire`, `CatchupTask`, `CatchupEnds` |
| `shutdownScheduler`, crash | `Stop` |

### Routes and failover

- `Failover.tla`: the circuit breaker (failures in the window, parked until, per
  provider) and requests that walk a chain of providers over it.
  executeWithFailover awaits only the calls, so what it decides between two awaits is one
  action; time passes only while calls are out. `MCFailover.tla`: a chain of two
  with one provider without a credential. `FailoverProofs.tla`: the proofs.

| Code | Definition |
|---|---|
| `recordFailure`, `recordSuccess`, `isOpen` (answer, deletion), `snapshot` | `recordFailure`, `recordSuccess`, `isOpen`, `afterIsOpen`, `Snapshot` |
| `dispatchRoute` | `Submit` |
| the loop of `executeWithFailover` | `SkipParked`, `Answer`, `FailOver`, `FailFatal`, `Exhaust` |
| `callWithTimeout`, `callRefWithRetry` | `SkipUnavailable`, `Call`, `Retry` |

### Agent runs

- `AgentRuns.tla`: the runs of agents on one artifact of the vault. A call is
  one execution of dispatchAgent, fresh or with the session of an earlier one. The
  table agent_runs, the pending requests and warnings (files) and the worktree survive a
  restart; calls and live grants do not. The guards of dispatchAgent and its start row are
  one step when no worktree has to be made, two when git is awaited between them.
- `MCAgentRuns.tla`: three calls. `AgentRunsProofs.tla`: the proofs.

| Code | Definition |
|---|---|
| a route, the scheduler, the chat; the two Telegram buttons; the routes approve-budget, budget-approvals, bump-continue | `Dispatch`; `TapBump`, `Stop`, `TapVelocity`; `WebBump`, `BumpContinue` |
| `listRunningSubjectPaths`, `cumulativeAdrSpend`, the guards on them | `InFlight`, `Cumulative`, `Admitted` |
| `dispatchAgent` up to the start row | `Refuse`, `Provision`, `ProvisionFails`, `Start`, `SpawnFails` |
| the poll loop of claude-pty | `Polled`, `Adopted`, `GoOn`, `Warn` |
| its ends, `finishRun`, `escalateBudgetApproval` | `Finish`, `HitCeiling`, `Recorded` |
| an exception of the guards or the backend, which dispatchAgent does not catch; one that only is logged | `Breaks`; `Throws` in `Start`, `SpawnFails`, `Recorded` |
| `startAgentRun`, `updateRunProgress`, `finishAgentRun`, `recordAgentRun`, `setRunStatus` | `WithStartRow`, `WithProgress`, `Shut`, `WithLateRow`, `WithStatus` |
| the sweeps of the startup hook | `Restart`, `Swept` |

### Shared by the proofs

- `DataLemmas.tla`: facts the library does not state: induction over 0..n, the existence of
  functions defined by recursion over rounds, and sums over a table.

## 3. Runs

| Run | Question | Bounds |
|---|---|---|
| `conductor_core` | With approve and resume one at a time and every fault but stalls, does a task get two workers, is a success lost, does a settled run have workers, does the conductor implement `TaskScheduler`, over a crash or a shutdown? | 3 tasks (one independent pair, one dependent), 2 workers, 3 sessions, 1 restart, 3 requests; about 685,000 states, two minutes |
| `conductor_requests` | With all requests, two at a time, what survives the lost updates? | the same plan with the dependent task listed first, 1 worker, 2 sessions, 1 crash, 3 requests; about 2.2 million states, less than three minutes |
| `conductor_live` | Does every ready task start and every run end, and never with a worker at work that was not given up? | 4 tasks, 2 workers, so that capacity is short; stalls |
| `conductor_chain` (violation) | Does a failure end a run whose dependencies are two deep? | a chain of 3 |
| `conductor_validation` (violation) | Is a task recorded as done only after its validation? | 3 tasks |
| `conductor_archive` (violation) | Is an archived run left alone? | 3 tasks, approve and delete |
| `recipe_run` | Does a run keep to the waves computed before it, always have work, implement `RecipePromise` and end; do width, inputs, pauses, audit row and verdict agree? | 1446 recipes of 4 steps: all forward dependency graphs and all graphs of out-degree one, circles included; two gates, width 2; 61,374 states, about a minute |
| `recipe_cancel` (violation) | Does a cancelled run start no further step? | 3 sequential steps |
| `scheduler` | Do exclusive tasks overlap, can the latest run be cancelled, do rows change only with their runs, is what was missed made up for? | 2 tasks, one of them always exclusive when on; instants 0..3, three due times, limit of the sweep 1; 3 rows, 1 restart, 1 settings change |
| `scheduler_jam` (violation) | Can a dead run block its task for longer than the sweep's limit? | the same |
| `failover` | Is a provider parked only for its own failures and freed only by its success, does every request end, does every parking? | three requests over a default without a credential and one fallback, one retry, threshold 3, window and parking of 2 instants, restarts; 56,510 states |
| `agent_runs` | Do two sessions ever work on one subject, can a ceiling pass what was granted, does a run that is recorded leave its subject blocked, does the subject's budget forget or overshoot? | three calls, two of them for a chat when fresh, with and without a worktree; the operator attends to the first session, one tap, one restart, one exception, a session spends up to 2; 1,147,172 states, about two minutes |

Why the bounds are enough. Three tasks are the least in which one is
independent, one is needed and one is dependent, and in which a pass has both a task
to spawn and one to skip. Two sessions or more per task are needed only after a
restart or a reopen, which the core and the requests runs have. One restart splits every
sequence of steps at every point, and in the core run it is a crash or a shutdown whose hook, exit jobs and exit
interleave; two or more are left to the proofs, whose MaxRestarts is any number. Stalls are in the run about progress, which checks
the promise and the quiet of a settled run with them, and in the proofs. Two concurrent requests are the least with which stale saves
overwrite each other, on top of the jobs under the lock. In naseej four steps
give two waves of two, a chunk left over at width 2, and a failure with siblings
and successors. In the scheduler three rows are a success to compare with, a run
that is open when another one starts, and the one that makes up; the two tasks are due now
together, now apart, so that catch-up has a second task whose turn comes after an await.
A limit of one instant lets a dead row be younger as well as older than it.
In the failover three requests with a retry each are enough for three failures in flight at
once, and for a request still under way when the others have parked the provider. In the agent runs three calls are a run, the one that resumes it
and one that competes with both; one tap meets every pause, warning and web bump of the
session, and a base of 1 with spending up to 2 reaches the base ceiling and the raised one. One exception (MaxFailures) falls at every
place it can, on a run that a resumed one follows or competes with. That fresh calls other than the first are a chat's (Chat) only
keeps them from pausing, where nobody would attend to them.
MaxTime, MaxRows, MaxCrashes and MaxChanges cap the scheduler, and
requests, sessions and restarts of the conductor are capped by MaxRequests,
MaxSessions and MaxRestarts in guards.

Deadlock checking is off in all runs: a run that is done, failed, cancelled or
archived with no request left is a proper end of these systems, and a scheduler
with nothing due and no request is idle.

Every property of a passing run has a mutant of a mapped definition, in the
module right before the definition it replaces ("Mutant: ..."), that breaks it.

## 4. Fairness

`Conductor!Fairness`: Node runs each queued callback and hands the lock
on (weak fairness of passes and jobs), a handler that has started goes on, and
each worker process ends or is killed by its stall detector (weak fairness per session). No
fairness for requests, restarts or the PM session. `RecipeRun!FairSpec`: callbacks
run, components exit or ask for a pause, and the timer of a pause fires
(the default of registerPause is always set). Nobody has to answer or cancel.
`Failover`: a call that is out comes to an end (its timer fires), the walk of a request goes on,
and time passes. Nobody has to submit a request or ask for a snapshot. `AgentRuns` states
safety only: an operator may never answer, and a session may work for as long as its ceiling allows.
`Scheduler` states safety only and assumes no fairness: a task's function may run for ever.

## 5. What the runs show

The dispatch lock and the promise hold as long as approve and resume come one at a
time, with every fault of the environment, until the server shuts down. Of the shutdown less holds: `killWorkerAsync` sets killed
without a look at the status it finds (the route of the same name has that check, workers/+server.ts:47), and its save is a stale snapshot
outside of the lock. A success that an exit job records after the hook has listed the runs becomes killed, and one that
it records between the hook's load and save is lost with its session, to be run again. `SuccessIsKept` and the promise therefore
speak of the tasks that were settled when the hook began (success or failure recorded, no session at work): nothing the hook, the
exit jobs beside it and the next boot do changes one of these. `OneWorkerPerTask` and `SettledRunIsQuiet` speak of a server that is
not shutting down: the hook may write an entry back that an exit job has just resolved, and a pass may follow. Under all requests the run
may lose updates, and the properties that survive are the limit on
recorded workers, that successes are earned, and that dependencies come first.
The violations are real disagreements with the repository's own comments:

1. Blocking reaches direct dependents only, so a chain of three never ends after
   its first task failed (`conductor_chain`).
2. A pass can persist done while validation is still out (`conductor_validation`).
3. A stale save brings an archived run back to running (`conductor_archive`).
4. Cancel does not stop a recipe's next steps (`recipe_cancel`).
5. A wrong answer to a pause gets 404 rather than the documented 409, and
   a later right one gets 200 although the step has failed (`Mismatch`, `Respond`).
6. After a quick restart the row of a dead run is too young for the only sweep, and blocks
   its noOverlap task until a boot that comes later than the limit (`scheduler_jam`). Catch-up
   is skipped for overlap in the same way, which is why `MissedRunsAreMadeUp` counts a skip.
7. Catch-up runs beside cron, not before it, and a task that is unregistered while an
   earlier one is awaited ends it for all that follow (`CatchupTask`, `init = "failed"`;
   `MissedRunsAreMadeUp` speaks of boots that got through).
8. A budget request is not consumed by a web bump, so that a later tap resumes the session
   again (`WebBump`, `TapBump`).
9. The guard against a second run of a subject looks at rows written only after git has
   made the worktree, which two dispatches at once pass. `OneRunPerSubject` holds for
   subjects without a repository, and `RoomWasThere` has the same condition.
10. A row stays open, and its subject blocked, when the end of its run goes unrecorded. dispatchAgent has no finally, so what the
   backend throws after started skips finishRun, and finishRun only logs what throws in it: the server
   lives on and refuses the subject until the sweep of a later boot, which spares young rows as that of the scheduler does. When Stop has
   relabelled a row that is running again no sweep closes it at all. `OpenRowIsOwned` says
   that an unrecorded end is the only way to such a row: no recorded one leaves one, whichever calls share its run id.
11. A grant tapped after the run has paused is adopted by the resumed run; it is not
   harmless, but stays within what was tapped (`CeilingWithinGrants`).
12. Re-dispatch leaves out runs that ended as completed-no-artifact.

A start row that cannot be written is only logged, too, and the guard then does not see the session:
`OneRunPerSubject` speaks of the sessions that have one.

`RoomWasThere` names two more ways past a subject's budget: a forced call, which is meant, and Stop,
which relabels the excluded error rows of its run id so that they count from then on.

## 6. Proofs

`ConductorProofs.tla`, for every set of tasks, dependencies, order, limit,
set of requests and faults, and every bound (assumptions: the named ASSUMEs of
`OrchestrationRun` and `Conductor`; only finiteness of Tasks and natural
numbers for limits matter):

- `SpecBase`, `SpecTypeOK`: the types, together with two facts about the dispatch
  lock. Types alone are not inductive: `ExitJobsEnded` is needed because what an exit
  job records is the session's `closure`, and `LockHeld` because a stage without a job would
  take the head of an empty queue.
- `SpecRunningWithinLimit`: no run.json and no snapshot that may yet be
  saved over it has more than MaxWorkers tasks running. The property is not inductive: a pass
  saves what it loaded plus what it has spawned. `LimitInv` counts, for the
  pass under way, the running entries of its snapshot plus the tasks it
  has dispatched, strictly below the limit while one is being provisioned. Every
  other save takes a snapshot within the limit and adds no running task, which is the
  content of `OutcomeWithin` and `RecordExitWithin`.
- `SpecDoneWasEarned` and `SpecDependenciesCameFirst`, from `SpecHistory`: a task is done in a
  snapshot only if a session of it has exited cleanly, and a session is spawned after such an exit of
  each dependency. Neither is inductive, as both speak of sessions and of snapshots at
  once. `HistoryInv` carries every snapshot (run.json, those of jobs, requests and
  passes) within `Known`, the tasks with a clean exit, which only grows (`CleanIsOver`: such an
  exit is final; `Moves`: the only ways a session changes), and keeps the task a
  pass is about to spawn ready in the snapshot the pass read (`NextIsReady`).

`ConductorSerialProofs.tla` and `ConductorPromiseProofs.tla`, for every plan, order, limit and bound
as well, but under `Serial`: there is one client, it sends approve and resume only, and recovery is over before a
worker of the new server ends. Stalls, spawns that fail or come too late, failed validations, any number of crashes
and shutdowns are all allowed. Without `Serial` the theorems are false: the lost updates of section 5 break them.

- `SpecOneWorkerPerTask`, `SpecSettledRunIsQuiet`, `SpecSuccessIsKept`, from `SpecSerial`. The code has no lock
  around run.json, so until a shutdown each has to follow from nobody else having a snapshot in hand. `SerialInv` says why that is so:
  approve is at work only before any worker (`Untouched`), resume and the recovery's save only when all sessions are
  gone (`Quiet`), so that while there is work the disk is the job's alone (`BusyAlone`, `HolderFits`: its snapshot is
  run.json). `Books` and `PassFits` say that each session at work has its entry in run.json or in the pass under way,
  hence that a task without an entry is free to be started; `QueueFits` that each exit is recorded once. Once the hook has begun there
  are several snapshots and none of this holds. `StopInv` is what does: every snapshot that the hook, a pass, an exit job or a resume
  may still save agrees with run.json on the settled tasks (`MaySave`, `Agree`), no session at work, no queued exit and
  no worker the hook has yet to kill is of one of them. `WorkInv` is that the two take turns: the first implies the second when the hook
  begins (`StopBegins`), and the second the first when the server exits (`ExitSerial`).
- `SpecKeepsPromise`: the conductor implements `TaskScheduler`. `Shape` restates the mapping without CHOOSE, each
  job read off the one session at work on the task, or off its entry. Each action then moves one job (`OneJobMoves`),
  none (`Stutters`), blocks the dependents of a failed one, or restarts all; while the server shuts down every step is a stutter (`StoppingStutters`),
  as only the settled jobs are promised. That a start is within the limit is
  `LimitInv` of the first module, that its dependencies have exited is `PickIsReady` of the second.

`DataLemmas.tla`. The library's induction theorems take an operator and cannot be used; its
theorem that a set with a well-founded order has a minimal element takes sets only. So an induction here
is a smallest counterexample: `LeastNumber`, and from it `UpTo` (a set of numbers that has 0, and n with
n - 1, has all of 0..m). The same argument shows that functions defined by recursion over
finitely many rounds exist (`IterationExists`), which a proof about toWaves or topoSort has to know
first, and gives totals of sequences (`TotalsExist`, `TotalMonotone`) and, through them, the sums of a column
over a set of rows (`SumMonotone`, `SumSame`).

`RecipeRunProofs.tla`, for every number of steps and every recipe (assumptions:
N is a positive number, and Recipes is a set of well-formed recipes):

- `WavesRefuseCircles`: toWaves never looks for a circle, yet refuses exactly the recipes that have one. No
  round takes a step of a circle (`CircleStaysOut`); where there is none every round takes a step
  (`SomeReady`), so that N rounds take all (`WavesGrow`). `TopoSortRefusesCircles` says the same of topoSort and the
  declared dependencies: what leads back to itself is in a circle (`BackIsCircle`), and a circle
  holds a step that leads back to itself, namely one from which fewest steps are reached
  (`CircleIsBack`, `ReachNested`). `WavesImplyTopoSorts` follows: topoSort refuses no recipe that could run.
- `SpecTypeOK`, `SpecOrder`, `SpecInputsAreThere`, `SpecWithinWidth`: steps outside of
  the waves under way are untouched, so a step that starts has the waves of its
  dependencies behind it; the size of a chunk follows from its last step.
- `SpecWaves`, with `SpecWavesAreLayers`, `SpecOneWaveAtATime`, `SpecRunningHasWork`: the code computes its waves
  once; the model asks for the next one when a wave is done. `WaveInv` is why the two are one: the steps that
  have begun, together with those the wave has left, are a wave of the list. It also gives that the
  next wave is not empty, as the recipe has all its steps in waves (`Accepted`).
- `SpecPauses` with `SpecPausedCanBeAnswered` and `SpecAuditPausedIsTrue`: a step
  that is paused has its entry, and the audit row is paused only while a step is.
- `SpecVerdict` with `SpecVerdictIsEarned`; `SpecNothingStartsAfterHalt` is an action
  property.
- `SpecKeepsPromise`: a run implements `RecipePromise`. A chunk that begins is one Begin of its steps (`SeenBegin`:
  that there are any is `RunningHasWork`, that what they need has ended is the order above), the last chunk is
  the Conclude, and a refused recipe is refused for a circle (`SeenRunner`, `SeenCircles`). Of the callbacks an exit, a
  timer and a wrong answer are an End, a cancel is a Cancel of the paused steps, and the others are not seen.

`SchedulerProofs.tla`, for every set of tasks, schedule, setup, limit and bound
(assumptions: the four ASSUMEs of `Scheduler`; Order lists every task). One inductive
invariant, `SchedInv`, gives all five properties of the run:

- `LiveIsOpen`: the row of a run that goes on is "started" and no older than the server. That is
  what makes the question put to the rows (hasActiveRun) an answer about runs, and what
  keeps `Covered` stable: a success that comes later is of a run since the boot.
- `ActiveIsLive`: a handle is of a live run of its task. Types alone are not
  inductive, as a cancel puts the handle's run among the aborted ones.
- `DownIsQuiet`: nothing runs while the server is down, so the sweep closes no live run's row.
- `CatchupSoFar`: the tasks before the place catch-up has come to are `Covered`.
  `LastSuccessExists` and `PrevFireType` say that the two maxima the code asks for exist.

`FailoverProofs.tla`, for every chain, threshold, window, parking time and number of
requests: `SpecTypeOK`, and `SpecInv`, the invariant that what the breaker holds of a
provider is the end of its run of failures, oldest first; `SpecParkIsEarned` and
`SpecParkIsKept` are action properties that follow from it. The lemmas are on the filter of
recordFailure: a sequence in order of time loses a prefix.

`AgentRunsProofs.tla`, for every set of calls, all prices, caps and bounds (assumptions:
the two ASSUMEs of `AgentRuns`; what bump-continue gives lies between the base and its double):

- `SpecTypeOK`: the types are inductive alone; that a request has a ceiling follows from the
  guards of the operator's actions.
- `SpecCeilingWithinGrants`: a ceiling is raised from a request, a warning or a grant, so the
  strengthening `Earned` bounds these three by what the taps allow as well.
- `SpecOpenRowIsOwned`: inductive with the types. Each end of a call either closes all open rows of its session (`ClosedRows`) or marks
  them as lost (`AbandonedRows`), and a row added late is closed (`LateRows`).
- `SpecOneRunPerSubject`: the guard reads rows, not calls. `Alone` adds that a call that is up has
  an open row of its session if its start row was written. finishAgentRun closes the rows for all calls of the session at once, and an
  unrecorded end leaves them open, which only keeps others out.
- `SpecCountedNeverFalls`: a step appends a row, rewrites some or sweeps some, and none of these takes a
  counted row out of the sum or lowers its cost (`Kept`, from `TableStep`); the sum over more rows of at least
  the same costs is no smaller (`KeptSum`).
- `SpecRoomWasThere`: the cost lands long after the guard has looked. The strengthening `Room` says that where no call is
  forced, nothing relabelled by Stop and no worktree made, at most one row is open, and that while one is the
  sum leaves the room the guard has seen; no other step can change the sum then.

Only model-checked: the liveness properties (`RunEnds` of recipes, those of `conductor_live` and
`failover`), as neither fairness nor ENABLED is within the prover's reach. The violation runs are
counterexamples and need no proof.

## 7. Abstractions

- Recovery is over before a worker of the new server ends, unless the fault
  slow_recovery is on (reading a few files against minutes of work).
- Sessions die with the server. That the hook kills the sessions adds nothing to their ends: exits of every kind are possible at any time,
  and the hook's listing is read with the state its killing of the sessions leaves, exits included.
- There is one PM session at a time, a bound of the model.
- The order of the keys of run.json in resumeRun is a nondeterministic choice (`Unblocked`).
- Worker statuses approved and pending are never set by the code and left out.
- Loads and saves of run.json are atomic; the code writes the file in place, so a
  load during a write may fail in reality (listed as a hazard without a property).
- Plans are acyclic in the runs, although the API accepts cycles; the proofs allow them.
- Outputs of steps, several runs under one run id, and restarts are left out of RecipeRun.
- In Scheduler a cron expression is the set of its instants, and all that is due at an instant
  is called back before the next one. A change of a task's mode stands for every change that makes
  reconcile drop or replace it. The global switch, types, parameters and a second server
  on the same database are left out.
- Failover: the text of errors is their trigger, the report of attempts is left out.
- AgentRuns: one subject. Turns are left out, as both ceilings are raised and tested alike; statuses no
  query tells apart are one, "over". Reading the transcript, killing the session at the ceiling and recording the
  result are one step, and so are sending a message and the entry for its answer. A request that expires is one the
  operator does not answer. The age of rows is their order: a boot's sweeps take the rows before two
  marks, the younger for runs, the older for requests. A re-dispatch is a fresh `Dispatch`. A row that
  finishRun inserts when it finds none open has no subject, and no guard reads it; bump-continue of a run that has only such a row would
  start a run without a subject and is left out. An exception in the middle of the poll loop
  and one after it are one action (`Breaks`): the backend's finally kills the session in either case. `lost` in a row, and
  `history`, are not read by any action but for the bound on failures.

## 8. Not modelled, and the plan

Not modelled: the components PROJECT.json marks so, each with its reason.
Planned, in this order:

1. `Dispatch`: capacity check, start, cancel and proposals of the chat orchestrator.
2. Agent runs: answers to questions, several subjects, merging.
3. Scheduler: the global switch and parameter changes in `ChangeSettings`.
4. The playbook engine, the voice queue and the inbox.
