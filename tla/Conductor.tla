----------------------------- MODULE Conductor -----------------------------
(***************************************************************************)
(* The conductor of Soul Hub's orchestration: it dispatches the tasks of   *)
(* an approved plan to worker sessions and records how they end.           *)
(*                                                                         *)
(* run.json is the only state that survives.  A handler loads it, awaits,  *)
(* and saves its whole snapshot back.  Worker exits and dispatch passes    *)
(* are serialised by the dispatch lock; the HTTP routes, the PM session's  *)
(* exit listener and the boot recovery load and save outside of it.        *)
(*                                                                         *)
(* Covered: approve, dispatch passes with failing and timed-out spawns,    *)
(* stalls, exits, pre-merge validation, conflict scans, cancel, purge,     *)
(* reopen, kill, resume, merge, PM sessions, crashes, the shutdown hook.   *)
(* Not covered: the text of plans, edits of the plan while in planning,    *)
(* git itself, notifications, SSE streams, stall nudges before the kill.   *)
(***************************************************************************)
EXTENDS OrchestrationRun

CONSTANTS
  Clients,     \* HTTP requests that can be in flight at the same time
  Ops,         \* the requests the clients send
  Faults,      \* the faults of the environment that can occur
  MaxSessions, \* bound: worker sessions ever spawned
  MaxRestarts, \* bound: restarts of the server
  MaxRequests  \* bound: requests that are not refused at once

ASSUME BoundsAssumption ==
  MaxSessions \in Nat /\ MaxRestarts \in Nat /\ MaxRequests \in Nat

AllOps == {"approve", "cancel", "purge", "reopen", "kill", "resume", "merge", "pm"}
AllFaults == {"stall", "invalid", "spawn_error", "spawn_timeout", "crash", "shutdown",
              "slow_recovery"}

ASSUME OpsAssumption == Ops \subseteq AllOps /\ Faults \subseteq AllFaults

Sessions == 1..MaxSessions

\* The handlers that are not requests: boot recovery, the PM's exit listener and
\* the shutdown hook.
Internal == {"recovery", "pmExit", "shutdown"}
Handlers == Clients \cup Internal

ASSUME HandlersAssumption == Clients \cap Internal = {}

VARIABLES
  disk,     \* run.json
  sess,     \* the worker sessions of this and earlier server processes
  lockq,    \* jobs that wait for the dispatch lock; the head holds it
  stage,    \* how far the job at the head has come
  held,     \* latestRun (an exit job) or fresh (a conflicts job)
  pass,     \* the dispatch pass of the job at the head
  req,      \* the handlers that work outside of the lock
  pmLive,   \* whether a PM session is alive
  hook,     \* the shutdown hook
  restarts, \* number of restarts so far
  requests  \* number of requests so far

vars == <<disk, sess, lockq, stage, held, pass, req, pmLive, hook, restarts, requests>>

Phases == {"unused", "live", "orphan", "checking", "queued", "recorded",
           "scanning", "gone"}
NoSession == 0
Session == [task : Tasks, phase : Phases, closure : WorkerStatus]

Unspawned == [task |-> CHOOSE t \in Tasks : TRUE, phase |-> "unused", closure |-> "none"]

Job == [kind : {"dispatch", "exit", "conflicts"}, sid : 0..MaxSessions]
DispatchJob == [kind |-> "dispatch", sid |-> NoSession]
ExitJob(s) == [kind |-> "exit", sid |-> s]
ConflictsJob == [kind |-> "conflicts", sid |-> NoSession]

Stages == {"idle", "loaded", "saved", "passing", "finishing"}

Pass == [snap : Run,                          \* run, as loaded by the pass
         mine : [Tasks -> 0..MaxSessions],    \* the sessions it has wired
         at   : 1..Len(PlanOrder) + 1,        \* where its loop stands
         next : 0..Len(PlanOrder)]            \* the task it is provisioning
NoPass == [snap |-> NewRun, mine |-> [t \in Tasks |-> NoSession], at |-> 1, next |-> 0]

HandlerOps == AllOps \cup {"idle", "archive", "merging", "recover", "pmExit"}
Request == [op : HandlerOps, task : Entries, loaded : BOOLEAN, run : Run]
NoRequest == [op |-> "idle", task |-> PM, loaded |-> FALSE, run |-> NewRun]

\* doomed is what the hook has yet to kill of the running workers it listed.  settled
\* is history that no code reads: the tasks whose success or failure was recorded
\* when the hook began.
Hook == [stopping : BOOLEAN, doomed : SUBSET Entries, settled : SUBSET Tasks]
NoHook == [stopping |-> FALSE, doomed |-> {}, settled |-> {}]

TypeOK ==
  /\ disk \in Run
  /\ sess \in [Sessions -> Session]
  /\ lockq \in Seq(Job)
  /\ stage \in Stages
  /\ held \in Run
  /\ pass \in Pass
  /\ req \in [Handlers -> Request]
  /\ pmLive \in BOOLEAN
  /\ hook \in Hook
  /\ restarts \in 0..MaxRestarts
  /\ requests \in 0..MaxRequests

Init ==
  /\ disk = NewRun
  /\ sess = [s \in Sessions |-> Unspawned]
  /\ lockq = <<>>
  /\ stage = "idle"
  /\ held = NewRun
  /\ pass = NoPass
  /\ req = [h \in Handlers |-> NoRequest]
  /\ pmLive = FALSE
  /\ hook = NoHook
  /\ restarts = 0
  /\ requests = 0

-----------------------------------------------------------------------------
(***************************************************************************)
(* What the code sees.                                                     *)
(***************************************************************************)

\* The job of the given kind holds the dispatch lock and has come to stage g.
Holds(kind, g) == lockq # <<>> /\ Head(lockq).kind = kind /\ stage = g

HolderSession == Head(lockq).sid

\* run.workers of the pass: the entries it loaded, and for each task it has
\* dispatched the object it shares with that session's listeners.
View == [e \in Entries |-> IF e \in Tasks /\ pass.mine[e] # NoSession
                            THEN sess[pass.mine[e]].closure
                            ELSE pass.snap.worker[e]]

Dispatched == {t \in Tasks : pass.mine[t] # NoSession}

\* activeWorkerCount counts the PM's entry as well.
ActiveWorkerCount == Cardinality(RunningEntries(pass.snap.worker))

\* Session ids are given out in order.
Fresh(s) == /\ sess[s].phase = "unused"
            /\ \A r \in Sessions : sess[r].phase = "unused" => s <= r

Spawned(s, t, phase) ==
  sess' = [sess EXCEPT ![s] = [task |-> t, phase |-> phase, closure |-> "running"]]

\* The job at the head is done and passes the lock on; more is appended by the
\* listeners that ask for it.
Release == lockq' = Tail(lockq) /\ stage' = "idle"

-----------------------------------------------------------------------------
(***************************************************************************)
(* The dispatch pass, dispatchReadyWorkersInner.  It always runs under the *)
(* lock, on its own or as part of an exit job.                             *)
(***************************************************************************)

\* What follows the pass: an exit job still has to check for the run's end.
AfterPass ==
  IF Head(lockq).kind = "exit"
  THEN stage' = "finishing" /\ UNCHANGED lockq
  ELSE Release

\* Mutant: the loop counts from zero.
PassBeginMutant ==
  /\ Holds("dispatch", "idle") /\ disk.status = "running"
  /\ pass' = [NoPass EXCEPT !.snap = disk, !.at = 0]
  /\ stage' = "passing"
  /\ UNCHANGED <<disk, sess, lockq, held, req, pmLive, hook, restarts, requests>>

PassBegin ==
  /\ \/ Holds("dispatch", "idle")
     \/ Holds("exit", "saved") /\ held.status = "running"
  /\ IF disk.status = "running"
     THEN /\ pass' = [NoPass EXCEPT !.snap = disk]
          /\ stage' = "passing"
          /\ UNCHANGED lockq
     ELSE /\ AfterPass
          /\ UNCHANGED pass
  /\ UNCHANGED <<disk, sess, held, req, pmLive, hook, restarts, requests>>

Provisioning == stage = "passing" /\ pass.next # 0

\* Mutant: the workers dispatched by this very pass are not counted.
CanPickMutant ==
  /\ ReadyFrom(View, pass.at) # {}
  /\ CanSpawnWorker(ActiveWorkerCount)

\* The loop moves on to the next task that it does not skip and provisions it,
\* or ends for want of tasks or of capacity.
CanPick ==
  /\ ReadyFrom(View, pass.at) # {}
  /\ CanSpawnWorker(ActiveWorkerCount + Cardinality(Dispatched))

PassPick ==
  /\ stage = "passing" /\ pass.next = 0
  /\ CanPick
  /\ \E j \in ReadyFrom(View, pass.at) :
       /\ \A k \in ReadyFrom(View, pass.at) : j <= k
       /\ pass' = [pass EXCEPT !.next = j, !.at = j + 1]
  /\ UNCHANGED <<disk, sess, lockq, stage, held, req, pmLive, hook, restarts, requests>>

\* provider.spawn answers in time; the listeners are wired.
PassSpawn ==
  /\ Provisioning
  /\ \E s \in Sessions :
       LET t == PlanOrder[pass.next]
       IN  /\ Fresh(s)
           /\ Spawned(s, t, "live")
           /\ pass' = [pass EXCEPT !.mine[t] = s, !.next = 0]
  /\ UNCHANGED <<disk, lockq, stage, held, req, pmLive, hook, restarts, requests>>

\* Provisioning throws: the error is logged and the task keeps no entry.
PassSpawnFails ==
  /\ "spawn_error" \in Faults
  /\ Provisioning
  /\ pass' = [pass EXCEPT !.next = 0]
  /\ UNCHANGED <<disk, sess, lockq, stage, held, req, pmLive, hook, restarts, requests>>

\* provider.spawn answers after SPAWN_TIMEOUT_MS: nobody listens to the session.
PassSpawnTimesOut ==
  /\ "spawn_timeout" \in Faults
  /\ Provisioning
  /\ \E s \in Sessions : Fresh(s) /\ Spawned(s, PlanOrder[pass.next], "orphan")
  /\ pass' = [pass EXCEPT !.next = 0]
  /\ UNCHANGED <<disk, lockq, stage, held, req, pmLive, hook, restarts, requests>>

\* The pass saves the snapshot it loaded, with its own workers in it.
PassEnd ==
  /\ stage = "passing" /\ pass.next = 0
  /\ ~CanPick
  /\ disk' = IF Dispatched # {} THEN [pass.snap EXCEPT !.worker = View] ELSE disk
  /\ pass' = NoPass
  /\ AfterPass
  /\ UNCHANGED <<sess, held, req, pmLive, hook, restarts, requests>>

-----------------------------------------------------------------------------
(***************************************************************************)
(* The worker sessions and their listeners.                                *)
(***************************************************************************)

\* recoverRuns takes the time to read some files at boot; only with the fault
\* slow_recovery is it still at work when a worker of the new server ends.
BootIsOver == req["recovery"].op = "idle" \/ "slow_recovery" \in Faults

\* The stall detector gives up on a silent worker and kills its process; the
\* exit event of the process follows.
Stall(s) ==
  /\ "stall" \in Faults
  /\ sess[s].phase = "live" /\ sess[s].closure = "running" /\ BootIsOver
  /\ sess' = [sess EXCEPT ![s].closure = "stuck"]
  /\ UNCHANGED <<disk, lockq, stage, held, pass, req, pmLive, hook, restarts, requests>>

\* Exit code 0, exit code 129, or completion detected: the shared object says
\* done at once, whatever it said before; commit and validation follow.
ExitClean(s) ==
  /\ sess[s].phase = "live" /\ BootIsOver
  /\ sess' = [sess EXCEPT ![s].closure = "done", ![s].phase = "checking"]
  /\ UNCHANGED <<disk, lockq, stage, held, pass, req, pmLive, hook, restarts, requests>>

\* Any other exit code.
ExitUnclean(s) ==
  /\ sess[s].phase = "live" /\ BootIsOver
  /\ sess' = [sess EXCEPT ![s].phase = "queued",
                          ![s].closure = IF @ = "stuck" THEN "stuck" ELSE "failed"]
  /\ lockq' = Append(lockq, ExitJob(s))
  /\ UNCHANGED <<disk, stage, held, pass, req, pmLive, hook, restarts, requests>>

\* validateWorker answers, or breaks down and leaves the status alone.
Validated(s) ==
  /\ sess[s].phase = "checking"
  /\ \E st \in {"done"} \cup (IF "invalid" \in Faults THEN {"validation_failed"} ELSE {}) :
       sess' = [sess EXCEPT ![s].phase = "queued", ![s].closure = st]
  /\ lockq' = Append(lockq, ExitJob(s))
  /\ UNCHANGED <<disk, stage, held, pass, req, pmLive, hook, restarts, requests>>

\* A session nobody listens to ends unnoticed.
OrphanExits(s) ==
  /\ sess[s].phase = "orphan"
  /\ sess' = [sess EXCEPT ![s].phase = "gone"]
  /\ UNCHANGED <<disk, lockq, stage, held, pass, req, pmLive, hook, restarts, requests>>

-----------------------------------------------------------------------------
(***************************************************************************)
(* The exit job of a session, under the lock: load, record, save, dispatch *)
(* what became ready, and end the run when every task is resolved.         *)
(***************************************************************************)

ExitLoad ==
  /\ Holds("exit", "idle")
  /\ LET s == HolderSession
     IN  held' = RecordExit(disk, sess[s].task, sess[s].closure)
  /\ stage' = "loaded"
  /\ UNCHANGED <<disk, sess, lockq, pass, req, pmLive, hook, restarts, requests>>

\* Mutant: no pass follows, what became ready waits for somebody else.
ExitSaveMutant ==
  /\ Holds("exit", "loaded")
  /\ disk' = held
  /\ sess' = [sess EXCEPT ![HolderSession].phase = "recorded"]
  /\ stage' = "finishing"
  /\ UNCHANGED <<lockq, held, pass, req, pmLive, hook, restarts, requests>>

ExitSave ==
  /\ Holds("exit", "loaded")
  /\ disk' = held
  /\ sess' = [sess EXCEPT ![HolderSession].phase = "recorded"]
  /\ stage' = IF held.status = "running" THEN "saved" ELSE "finishing"
  /\ UNCHANGED <<lockq, held, pass, req, pmLive, hook, restarts, requests>>

\* The end of the run is decided, and saved, on the snapshot loaded first.
ExitFinish ==
  /\ Holds("exit", "finishing")
  /\ LET s == HolderSession
     IN  sess' = [sess EXCEPT ![s].phase = IF sess[s].closure = "done"
                                           THEN "scanning" ELSE "gone"]
  /\ disk' = IF AllResolved(held) THEN [held EXCEPT !.status = FinalStatus(held)]
                                  ELSE disk
  /\ held' = NewRun
  /\ Release
  /\ UNCHANGED <<pass, req, pmLive, hook, restarts, requests>>

\* checkActiveConflicts, started by a successful exit: when its dry-run merges
\* are through it stores the reports on a fresh copy, under the lock.
ConflictScan(s) ==
  /\ sess[s].phase = "scanning"
  /\ sess' = [sess EXCEPT ![s].phase = "gone"]
  /\ lockq' = IF \E t \in Tasks : disk.worker[t] = "done"
              THEN Append(lockq, ConflictsJob) ELSE lockq
  /\ UNCHANGED <<disk, stage, held, pass, req, pmLive, hook, restarts, requests>>

ConflictsLoad ==
  /\ Holds("conflicts", "idle")
  /\ held' = disk
  /\ stage' = "loaded"
  /\ UNCHANGED <<disk, sess, lockq, pass, req, pmLive, hook, restarts, requests>>

ConflictsSave ==
  /\ Holds("conflicts", "loaded")
  /\ disk' = held
  /\ held' = NewRun
  /\ Release
  /\ UNCHANGED <<sess, pass, req, pmLive, hook, restarts, requests>>

-----------------------------------------------------------------------------
(***************************************************************************)
(* The handlers outside of the lock.  Each loads run.json, answers or      *)
(* throws when its check fails, awaits, and saves its snapshot.            *)
(***************************************************************************)

LiveTasks == {sess[s].task : s \in {r \in Sessions : sess[r].phase = "live"}}

\* The entries whose session recoverRuns finds alive.
Alive == LiveTasks \cup (IF pmLive THEN {PM} ELSE {})

\* The check of handler op (on task t) on the run it loads; runSmartMerge has none.
\* That pm waits for the end of the PM session before is a bound of the model.
Allowed(op, t, run) ==
  \/ op = "approve" /\ CanApprove(run)
  \/ op \in {"cancel", "purge"} /\ IsActive(run)
  \/ op \in {"archive", "merge"}
  \/ op = "reopen" /\ CanReopen(run)
  \/ op = "kill" /\ CanKill(run, t)
  \/ op = "resume" /\ InterruptedTasks(run) # {}
  \/ op = "pm" /\ CanOpenPm(run) /\ ~pmLive
  \/ op = "pmExit" /\ PmAtWork(run)
  \/ op = "recover" /\ NeedsRecovery(run, Alive)

\* out is what handler op (on task t) saves for the run it has loaded.
Outcome(op, t, run, out) ==
  \/ op = "approve" /\ out = Approve(run)
  \/ op \in {"cancel", "purge"} /\ out = Cancel(run)
  \/ op = "archive" /\ out = Archive(run)
  \/ op = "reopen" /\ out = Reopen(run)
  \/ op = "kill" /\ out = Kill(run, t)
  \/ op = "resume" /\ \E S \in Unblocked(run.worker) : out = Resume(run, S)
  \/ op = "merging" /\ \E st \in {"done", "failed"} : out = EndMerge(run, st)
  \/ op = "pm" /\ out = OpenPm(run)
  \/ op = "pmExit" /\ out = EndPm(run)
  \/ op = "recover" /\ out = Recover(run, Alive)

MergeInFlight == \E c \in Clients : req[c].op \in {"merge", "merging"}

\* Handler h, with r as what it is at, loads the run.  When its check fails it
\* is through; only a purge goes on, to archive a run that is not active.
Loaded(r) ==
  IF Allowed(r.op, r.task, disk) THEN [r EXCEPT !.loaded = TRUE, !.run = disk]
  ELSE IF r.op = "purge" THEN [NoRequest EXCEPT !.op = "archive"]
  ELSE NoRequest

\* A request arrives that is not refused at once.  A server that is shutting down
\* takes no more.  The resume and merge routes look at a copy of their own, and
\* resumeRun and runSmartMerge load the run again.
Arrive(c, op, t) ==
  /\ requests < MaxRequests
  /\ ~hook.stopping
  /\ op \in Ops /\ req[c].op = "idle"
  /\ op # "kill" => t = PM
  /\ op = "merge" => CanMerge(disk) /\ ~MergeInFlight
  /\ op = "resume" => disk.status = "failed"
  /\ op # "purge" => Allowed(op, t, disk)
  /\ LET r == [NoRequest EXCEPT !.op = op, !.task = t]
     IN  req' = [req EXCEPT ![c] = IF op \in {"resume", "merge"} THEN r ELSE Loaded(r)]
  /\ requests' = requests + 1
  /\ UNCHANGED <<disk, sess, lockq, stage, held, pass, pmLive, hook, restarts>>

\* A handler under way loads the run.
Load(h) ==
  /\ req[h].op # "idle" /\ ~req[h].loaded
  /\ req' = [req EXCEPT ![h] = Loaded(@)]
  /\ UNCHANGED <<disk, sess, lockq, stage, held, pass, pmLive, hook, restarts, requests>>

\* runSmartMerge saves its snapshot as 'merging', again and again as it goes.
MergeProgress(h) ==
  LET r == req[h] IN
  /\ r.op \in {"merge", "merging"} /\ r.loaded
  /\ disk' = Merging(r.run)
  /\ req' = [req EXCEPT ![h].op = "merging"]
  /\ UNCHANGED <<sess, lockq, stage, held, pass, pmLive, hook, restarts, requests>>

\* The handler saves and is through; approve and resume ask for a dispatch
\* pass, a purge goes on to archive, pm has spawned its session.
Save(h) ==
  LET r == req[h] IN
  /\ r.loaded
  /\ Outcome(r.op, r.task, r.run, disk')
  /\ req' = [req EXCEPT ![h] = IF r.op = "purge"
                               THEN [NoRequest EXCEPT !.op = "archive"] ELSE NoRequest]
  /\ lockq' = IF r.op \in {"approve", "resume"} THEN Append(lockq, DispatchJob) ELSE lockq
  /\ pmLive' = (pmLive \/ r.op = "pm")
  /\ UNCHANGED <<sess, stage, held, pass, hook, restarts, requests>>

\* The PM session ends; its exit listener is a handler of its own.
PmExits ==
  /\ pmLive /\ req["pmExit"].op = "idle"
  /\ pmLive' = FALSE
  /\ req' = [req EXCEPT !["pmExit"] = [NoRequest EXCEPT !.op = "pmExit"]]
  /\ UNCHANGED <<disk, sess, lockq, stage, held, pass, hook, restarts, requests>>

-----------------------------------------------------------------------------
(***************************************************************************)
(* The end of the server.  On a signal server.js takes no more requests    *)
(* and calls shutdownSoulHub: it kills the sessions, whose listeners and   *)
(* exit jobs go on as ever, lists the runs and then kills the workers the  *)
(* listing calls running, one after the other, by killWorkerAsync.  That   *)
(* loads the run anew and, outside of the lock, saves its whole snapshot   *)
(* with the worker as killed, whatever has become of it since.             *)
(***************************************************************************)

AtWork == {s \in Sessions : sess[s].phase \in {"live", "checking", "queued"}}

\* The tasks that run.json records as over while no session works on them.
Settled == {t \in Tasks : /\ disk.worker[t] \in {"done"} \cup Unsuccessful
                          /\ \A s \in AtWork : sess[s].task # t}

\* Mutant: every worker of a running run is killed, not the running ones only.
ShutdownBeginsMutant ==
  /\ "shutdown" \in Faults
  /\ ~hook.stopping /\ restarts < MaxRestarts
  /\ hook' = [stopping |-> TRUE, settled |-> Settled,
              doomed |-> IF disk.status = "running"
                         THEN {e \in Entries : disk.worker[e] # "none"} ELSE {}]
  /\ UNCHANGED <<disk, sess, lockq, stage, held, pass, req, pmLive, restarts, requests>>

\* The sessions it kills end as they would anyway.
ShutdownBegins ==
  /\ "shutdown" \in Faults
  /\ ~hook.stopping /\ restarts < MaxRestarts
  /\ hook' = [stopping |-> TRUE, settled |-> Settled,
              doomed |-> IF disk.status = "running"
                         THEN RunningEntries(disk.worker) ELSE {}]
  /\ UNCHANGED <<disk, sess, lockq, stage, held, pass, req, pmLive, restarts, requests>>

\* killWorkerAsync loads the run for the next worker of the listing; its Save
\* follows.  A worker that has no entry any more is passed over.
ShutdownKills(e) ==
  /\ e \in hook.doomed /\ req["shutdown"].op = "idle"
  /\ hook' = [hook EXCEPT !.doomed = @ \ {e}]
  /\ req' = IF disk.worker[e] = "none" THEN req
            ELSE [req EXCEPT !["shutdown"] =
                    [op |-> "kill", task |-> e, loaded |-> TRUE, run |-> disk]]
  /\ UNCHANGED <<disk, sess, lockq, stage, held, pass, pmLive, restarts, requests>>

\* The sessions are children of the server and die with it, and whatever was in
\* memory is gone; recoverRuns starts with the new server.
Reboot ==
  /\ restarts < MaxRestarts
  /\ restarts' = restarts + 1
  /\ sess' = [s \in Sessions |-> IF sess[s].phase = "unused" THEN sess[s]
                                 ELSE [sess[s] EXCEPT !.phase = "gone"]]
  /\ lockq' = <<>>
  /\ stage' = "idle"
  /\ held' = NewRun
  /\ pass' = NoPass
  /\ pmLive' = FALSE
  /\ hook' = NoHook
  /\ req' = [h \in Handlers |-> IF h = "recovery" THEN [NoRequest EXCEPT !.op = "recover"]
                                ELSE NoRequest]
  /\ UNCHANGED <<disk, requests>>

Crash == "crash" \in Faults /\ ~hook.stopping /\ Reboot

\* The server exits when the hook is through, or wherever it stands when the time
\* server.js gives it is over.
Exit == hook.stopping /\ Reboot

-----------------------------------------------------------------------------
PassStep == PassBegin \/ PassPick \/ PassSpawn \/ PassSpawnFails \/ PassSpawnTimesOut \/ PassEnd

SessionStep(s) == \/ Stall(s) \/ ExitClean(s) \/ ExitUnclean(s)
                  \/ Validated(s) \/ OrphanExits(s) \/ ConflictScan(s)

JobStep == ExitLoad \/ ExitSave \/ ExitFinish \/ ConflictsLoad \/ ConflictsSave

HandlerStep(h) == Load(h) \/ MergeProgress(h) \/ Save(h)

Next ==
  \/ PassStep
  \/ \E s \in Sessions : SessionStep(s)
  \/ JobStep
  \/ \E c \in Clients, op \in Ops, t \in Entries : Arrive(c, op, t)
  \/ \E h \in Handlers : HandlerStep(h)
  \/ PmExits
  \/ ShutdownBegins
  \/ \E e \in Entries : ShutdownKills(e)
  \/ Crash
  \/ Exit

Spec == Init /\ [][Next]_vars

-----------------------------------------------------------------------------
(***************************************************************************)
(* What holds whatever requests are in flight.                             *)
(***************************************************************************)

\* In run.json, and in every snapshot that may yet be saved over it, at most
\* MaxWorkers tasks are recorded as running: stale saves by the routes
\* (which bypass the dispatch lock) never add up to an overcommitted run.
Snapshots == {disk, held} \cup {req[h].run : h \in Handlers}
RunningWithinLimit ==
  /\ \A run \in Snapshots : Cardinality(RunningTasks(run.worker)) <= MaxWorkers
  /\ Cardinality(RunningTasks(View)) <= MaxWorkers

\* The sessions of t whose process ended cleanly.
ExitedCleanly(t) == {s \in Sessions : /\ sess[s].task = t
                                      /\ sess[s].phase \notin {"unused", "live", "orphan"}
                                      /\ sess[s].closure \in {"done", "validation_failed"}}

\* No handler makes up a success: a task is recorded as done only when one of
\* its sessions did exit cleanly, in this or an earlier life of the server.
DoneWasEarned ==
  \A run \in Snapshots : \A t \in Tasks : run.worker[t] = "done" => ExitedCleanly(t) # {}

\* A worker is started only after a clean exit of a worker of each dependency,
\* however kills, reopens, resumes and restarts interleave with the pass.
DependenciesCameFirst ==
  \A s \in Sessions : sess[s].phase # "unused" =>
    \A d \in Deps[sess[s].task] : \E r \in ExitedCleanly(d) : r < s

-----------------------------------------------------------------------------
(***************************************************************************)
(* What holds when approve and resume come one at a time.                  *)
(***************************************************************************)

\* A task has one worker at a time, and no other is started in its worktree
\* before the end of the first is recorded, until the server shuts down
\* (sessions whose spawn timed out are outside of the conductor's books).
OneWorker == \A r, s \in AtWork : sess[r].task = sess[s].task => r = s
OneWorkerPerTask == ~hook.stopping => OneWorker

\* A run that is called done or failed has no worker process at work, except
\* one that has been killed for its silence and is about to exit, until the
\* server shuts down.
SettledRunIsQuiet ==
  disk.status \in {"done", "failed"} /\ ~hook.stopping =>
    \A s \in Sessions : sess[s].phase = "live" => sess[s].closure = "stuck"

\* A recorded success is never lost again: only the verdict of the validation
\* that is still out can take it back.  While the server shuts down this holds
\* of what was settled when the hook began; a success that is recorded later
\* can be overwritten by the hook, see README section 5.
SuccessIsKept ==
  [][\A t \in Tasks : disk.worker[t] = "done" /\ (hook.stopping => t \in hook.settled)
        => disk'.worker[t] \in {"done", "validation_failed"}]_vars

\* The state of each task as the promise sees it: by its session while one is
\* at work, else by what run.json says.  A server that shuts down promises
\* nothing of a task that was not settled when it began to.
JobOf(t) ==
  LET mine == {s \in AtWork : sess[s].task = t}
      s == CHOOSE r \in mine : TRUE
      w == disk.worker[t]
  IN  IF mine # {}
      THEN CASE sess[s].phase = "live" /\ sess[s].closure = "running" -> "active"
             [] sess[s].closure \in {"stuck", "failed"} -> "ending"
             [] OTHER -> "exited"
      ELSE CASE w = "none" -> "idle"
             [] w = "done" -> "succeeded"
             [] w = "blocked" -> "blocked"
             [] w \in {"running", "interrupted"} -> "lost"
             [] OTHER -> "failed"

PromisedPhase == IF hook.stopping THEN "stopping" ELSE disk.status
PromisedJob == [t \in Tasks |-> IF hook.stopping /\ t \notin hook.settled
                                THEN "lost" ELSE JobOf(t)]

Promise == INSTANCE TaskScheduler
             WITH phase <- PromisedPhase, job <- PromisedJob

\* The conductor, with its passes, locks and snapshots, keeps the promise.
KeepsPromise == Promise!Spec

-----------------------------------------------------------------------------
(***************************************************************************)
(* Progress.                                                               *)
(***************************************************************************)

\* Node runs every callback it has queued, the dispatch lock is handed on, and
\* every worker process ends sooner or later (a silent one is killed).
Fairness ==
  /\ WF_vars(PassStep) /\ WF_vars(JobStep)
  /\ \A s \in Sessions : WF_vars(SessionStep(s))
  /\ \A h \in Handlers : WF_vars(HandlerStep(h))

FairSpec == Spec /\ Fairness

\* An approved run comes to its end.
RunSettles == (disk.status = "running") ~> (disk.status \in {"done", "failed"})

\* A task of a running run whose dependencies are recorded as done gets its
\* worker, although nobody but the exits of other workers triggers a pass.
ReadyTaskStarts ==
  \A t \in Tasks :
    (disk.status = "running" /\ disk.worker[t] = "none" /\ DepsReady(disk.worker, t))
      ~> (disk.worker[t] # "none")

-----------------------------------------------------------------------------
(***************************************************************************)
(* What the code's comments say and the code does not keep.                *)
(***************************************************************************)

\* types.ts: validation runs "before merge eligibility"; the merge route takes
\* every task that run.json records as done.
MergeWaitsForValidation ==
  \A t \in Tasks : disk.worker[t] = "done" =>
    \E s \in ExitedCleanly(t) : sess[s].phase # "checking" /\ sess[s].closure = "done"

\* board.ts: an archived run is "read-only history"; it is not written to when
\* no request saves it.
ArchivedIsReadOnly ==
  [][disk.status = "archived" /\ UNCHANGED req => UNCHANGED disk]_vars
=============================================================================
