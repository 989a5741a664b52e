----------------------------- MODULE Scheduler -----------------------------
(***************************************************************************)
(* The task scheduler: cron ticks, run-now, cancel, the settings that      *)
(* register tasks, and the boot that sweeps the rows of crashed runs and   *)
(* makes up for missed ones.                                               *)
(*                                                                         *)
(* Rows of scheduler_runs and the settings survive a restart; registry,    *)
(* running functions and their abort controllers do not.  recordRun reads  *)
(* the rows and inserts its own without an await in between, so the start  *)
(* of a run is one action and its end another.                             *)
(*                                                                         *)
(* Covered: recordRun, noOverlap, killRun, reconcile on a settings change, *)
(* sweep and catch-up, crash and restart at any time.                      *)
(* Not covered: what tasks do, the parsing of cron expressions (a task has *)
(* the set of its instants), parameters and types of tasks, two servers on *)
(* one database.                                                           *)
(***************************************************************************)
EXTENDS Naturals, Sequences

CONSTANTS
  Tasks,       \* the task ids of the settings
  Order,       \* their order in the settings
  Instants,    \* Instants[t]: when the cron expression of t fires
  Setups,      \* Setups[t]: the ways t may be set up, a subset of Modes
  NoCatchup,   \* the tasks with catchupPolicy 'skip'
  MaxRuntime,  \* staleRunMaxRuntimeMs
  MaxTime,     \* bound: the last instant
  MaxRows,     \* bound: rows ever inserted
  MaxCrashes,  \* bound: times the server stops
  MaxChanges   \* bound: settings changes

ASSUME TasksAssumption ==
  /\ Order \in Seq(Tasks)
  /\ \A t \in Tasks : \E i \in 1..Len(Order) : Order[i] = t
  /\ NoCatchup \subseteq Tasks
ASSUME TimeAssumption == MaxRuntime \in Nat /\ Instants \in [Tasks -> SUBSET Nat]
ASSUME BoundsAssumption ==
  MaxTime \in Nat /\ MaxRows \in Nat /\ MaxCrashes \in Nat /\ MaxChanges \in Nat

\* How a task is set up: disabled, or enabled without or with noOverlap.
Modes == {"off", "parallel", "exclusive"}

ASSUME SetupsAssumption == Setups \in [Tasks -> SUBSET Modes]

VARIABLES
  now,       \* the time
  rows,      \* scheduler_runs, a run is known by its position
  settings,  \* settings.json
  registry,  \* how each task is registered, "off" if it is not
  due,       \* the cron callbacks that are about to run
  live,      \* the runs whose function has not returned
  aborted,   \* the live runs whose signal has fired
  active,    \* activeControllers, 0 for a task without an entry
  init,      \* how far initSchedulerCore has come
  boot,      \* the locals of applyCatchupOnBoot
  crashes, changes

vars == <<now, rows, settings, registry, due, live, aborted, active, init, boot,
          crashes, changes>>

NoRun == 0
Runs == 1..Len(rows)
Row == [task : Tasks, started : 0..MaxTime,
        status : {"started", "success", "error", "overlap-skipped"}]

Boot == [now : 0..MaxTime,          \* the time of the boot
         tasks : SUBSET Tasks,      \* the tasks registered by then
         at : Nat \ {0},            \* the place in Order of the next one to look at
         awaits : 0..MaxRows]       \* the run it waits for
NoBoot == [now |-> 0, tasks |-> {}, at |-> 1, awaits |-> NoRun]

TypeOK ==
  /\ now \in 0..MaxTime
  /\ rows \in Seq(Row) /\ Len(rows) <= MaxRows
  /\ settings \in [Tasks -> Modes] /\ registry \in [Tasks -> Modes]
  /\ due \subseteq Tasks
  /\ live \subseteq Runs /\ aborted \subseteq live
  /\ active \in [Tasks -> {NoRun} \cup Runs]
  /\ init \in {"down", "catchup", "done", "failed"}
  /\ boot \in Boot
  /\ crashes \in 0..MaxCrashes /\ changes \in 0..MaxChanges

Init ==
  /\ now = 0
  /\ rows = <<>>
  /\ settings \in {s \in [Tasks -> Modes] : \A t \in Tasks : s[t] \in Setups[t]}
  /\ registry = [t \in Tasks |-> "off"]
  /\ due = {} /\ live = {} /\ aborted = {}
  /\ active = [t \in Tasks |-> NoRun]
  /\ init = "down"
  /\ boot = NoBoot
  /\ crashes = 0 /\ changes = 0

Up == init # "down"

-----------------------------------------------------------------------------
(***************************************************************************)
(* The rows.                                                               *)
(***************************************************************************)

RowsOf(t) == {r \in Runs : rows[r].task = t}

\* Mutant: asks the controllers, which know only of the latest run.
HasActiveRunMutant(t) == active[t] # NoRun

HasActiveRun(t) == \E r \in RowsOf(t) : rows[r].status = "started"

\* Mutant: the last run, however it ended.
LastSuccessfulRunMutant(t) ==
  LET ran == {r \in RowsOf(t) : rows[r].status # "overlap-skipped"}
  IN  {r \in ran : \A q \in ran : q <= r}

\* Of the successful runs, the one that started last; empty if there is none.
LastSuccessfulRun(t) ==
  LET ok == {r \in RowsOf(t) : rows[r].status = "success"}
  IN  {r \in ok : \A q \in ok : q <= r}

\* The rows once those of runs that started too long ago are closed.
Swept == [r \in Runs |-> IF rows[r].status = "started" /\ rows[r].started + MaxRuntime < now
                         THEN [rows[r] EXCEPT !.status = "error"] ELSE rows[r]]

\* The last time before the boot at which t was to run, 0 for a time before all.
PrevFire(t) ==
  LET past == {i \in Instants[t] : i <= boot.now} \cup {0}
  IN  CHOOSE i \in past : \A j \in past : j <= i

-----------------------------------------------------------------------------
(***************************************************************************)
(* Runs.                                                                   *)
(***************************************************************************)

\* recordRun up to the call of the task's function.
RecordRun(t) ==
  /\ Len(rows) < MaxRows
  /\ LET skipped == registry[t] = "exclusive" /\ HasActiveRun(t)
         run == Len(rows) + 1
     IN  /\ rows' = Append(rows, [task |-> t, started |-> now,
                                  status |-> IF skipped THEN "overlap-skipped" ELSE "started"])
         /\ live' = IF skipped THEN live ELSE live \cup {run}
         /\ active' = IF skipped THEN active ELSE [active EXCEPT ![t] = run]

\* A cron tick.
Fire(t) ==
  /\ t \in due
  /\ due' = due \ {t}
  /\ RecordRun(t)
  /\ UNCHANGED <<now, settings, registry, aborted, init, boot, crashes, changes>>

\* The run-now endpoint.
RunNow(t) ==
  /\ Up /\ registry[t] # "off"
  /\ RecordRun(t)
  /\ UNCHANGED <<now, settings, registry, due, aborted, init, boot, crashes, changes>>

\* Mutant: the entry is deleted, whosever it is.
FinishMutant(r, how) ==
  LET t == rows[r].task IN
  /\ r \in live
  /\ live' = live \ {r} /\ aborted' = aborted \ {r}
  /\ rows' = [rows EXCEPT ![r].status = IF r \in aborted THEN "error" ELSE how]
  /\ active' = [active EXCEPT ![t] = NoRun]
  /\ boot' = [boot EXCEPT !.awaits = IF @ = r THEN NoRun ELSE @]
  /\ UNCHANGED <<now, settings, registry, due, init, crashes, changes>>

\* The function of run r returns or throws; a cancelled run is an error.
Finish(r, how) ==
  LET t == rows[r].task IN
  /\ r \in live
  /\ live' = live \ {r} /\ aborted' = aborted \ {r}
  /\ rows' = [rows EXCEPT ![r].status = IF r \in aborted THEN "error" ELSE how]
  /\ active' = IF active[t] = r THEN [active EXCEPT ![t] = NoRun] ELSE active
  /\ boot' = [boot EXCEPT !.awaits = IF @ = r THEN NoRun ELSE @]
  /\ UNCHANGED <<now, settings, registry, due, init, crashes, changes>>

\* Mutant: does not look whether a run is going on.
KillRunMutant(t) ==
  /\ Up /\ registry[t] # "off"
  /\ aborted' = aborted \cup {active[t]}
  /\ UNCHANGED <<now, rows, settings, registry, due, live, active, init, boot,
                 crashes, changes>>

\* The cancel endpoint: the function may or may not listen to the signal.
KillRun(t) ==
  /\ Up /\ registry[t] # "off"
  /\ active[t] # NoRun
  /\ aborted' = aborted \cup {active[t]}
  /\ UNCHANGED <<now, rows, settings, registry, due, live, active, init, boot,
                 crashes, changes>>

\* Time goes on; node-cron calls back what is due before the next instant.
Tick ==
  /\ now < MaxTime /\ due = {}
  /\ now' = now + 1
  /\ due' = {t \in Tasks : registry[t] # "off" /\ now + 1 \in Instants[t]}
  /\ UNCHANGED <<rows, settings, registry, live, aborted, active, init, boot, crashes, changes>>

-----------------------------------------------------------------------------
(***************************************************************************)
(* Settings, boot and catch-up.                                            *)
(***************************************************************************)

\* Mutant: stale rows are swept whenever the settings change.
ChangeSettingsMutant(t, m) ==
  /\ Up /\ changes < MaxChanges /\ m # settings[t]
  /\ settings' = [settings EXCEPT ![t] = m]
  /\ registry' = settings'
  /\ due' = due \ {t}
  /\ rows' = Swept
  /\ changes' = changes + 1
  /\ UNCHANGED <<now, live, aborted, active, init, boot, crashes>>

\* A task is set up differently: reconcile drops or replaces its cron job and
\* leaves its runs alone.
ChangeSettings(t, m) ==
  /\ Up /\ changes < MaxChanges /\ m # settings[t]
  /\ settings' = [settings EXCEPT ![t] = m]
  /\ registry' = settings'
  /\ due' = due \ {t}
  /\ changes' = changes + 1
  /\ UNCHANGED <<now, rows, live, aborted, active, init, boot, crashes>>

\* Sweep, reconcile, and the list of the tasks to make up for.
StartUp ==
  /\ ~Up
  /\ rows' = Swept
  /\ registry' = settings
  /\ init' = "catchup"
  /\ boot' = [NoBoot EXCEPT !.now = now,
                            !.tasks = {t \in Tasks : settings[t] # "off"}]
  /\ UNCHANGED <<now, settings, due, live, aborted, active, crashes, changes>>

\* A task of the list that missed its last instant, and ran some time before it.
Missed(t) ==
  /\ t \in boot.tasks
  /\ t \notin NoCatchup
  /\ \E r \in LastSuccessfulRun(t) : rows[r].started < PrevFire(t)

\* catchupTask for one task after the other, each run awaited; a task that has
\* been unregistered meanwhile throws, and the rest is not looked at.
CatchupTask ==
  /\ init = "catchup" /\ boot.awaits = NoRun
  /\ boot.at <= Len(Order)
  /\ LET t == Order[boot.at]
     IN  \/ /\ ~Missed(t)
            /\ boot' = [boot EXCEPT !.at = @ + 1]
            /\ UNCHANGED <<rows, live, active, init>>
         \/ /\ Missed(t) /\ registry[t] = "off"
            /\ init' = "failed"
            /\ UNCHANGED <<rows, live, active, boot>>
         \/ /\ Missed(t) /\ registry[t] # "off"
            /\ RecordRun(t)
            /\ boot' = [boot EXCEPT !.at = @ + 1,
                                    !.awaits = IF live' = live THEN NoRun ELSE Len(rows) + 1]
            /\ UNCHANGED init
  /\ UNCHANGED <<now, settings, registry, due, aborted, crashes, changes>>

CatchupEnds ==
  /\ init = "catchup" /\ boot.awaits = NoRun
  /\ boot.at > Len(Order)
  /\ init' = "done"
  /\ UNCHANGED <<now, rows, settings, registry, due, live, aborted, active, boot,
                 crashes, changes>>

\* The server stops, by a crash or a restart: running functions die with it, and
\* nothing closes their rows.
Stop ==
  /\ Up /\ crashes < MaxCrashes
  /\ init' = "down"
  /\ registry' = [t \in Tasks |-> "off"]
  /\ active' = [t \in Tasks |-> NoRun]
  /\ due' = {} /\ live' = {} /\ aborted' = {}
  /\ boot' = NoBoot
  /\ crashes' = crashes + 1
  /\ UNCHANGED <<now, rows, settings, changes>>

Next ==
  \/ \E t \in Tasks : Fire(t) \/ RunNow(t) \/ KillRun(t)
  \/ \E r \in Runs, how \in {"success", "error"} : Finish(r, how)
  \/ Tick
  \/ \E t \in Tasks : \E m \in Setups[t] : ChangeSettings(t, m)
  \/ StartUp \/ CatchupTask \/ CatchupEnds
  \/ Stop

Spec == Init /\ [][Next]_vars

-----------------------------------------------------------------------------
(***************************************************************************)
(* What holds.                                                             *)
(***************************************************************************)

TaskOf(r) == rows[r].task

\* No run of a task that is set up with noOverlap begins while another run of
\* it is going on, whoever started that one and however the task was set up then.
NoOverlap ==
  [][\A r \in live' \ live : registry[rows'[r].task] = "exclusive" =>
       \A q \in live : TaskOf(q) # rows'[r].task]_vars

\* The run that the user sees as running, the latest of its task, can be
\* cancelled for as long as it goes on.
LatestCanBeCancelled ==
  \A t \in Tasks : LET runs == {r \in RowsOf(t) : rows[r].status # "overlap-skipped"}
                   IN  \A r \in runs \cap live :
                         (\A q \in runs : q <= r) => active[t] = r

\* A row is closed by the end of its own run, or after the death of its server:
\* what history says of a run that goes on is never changed from outside.
RowsBelongToRuns ==
  [][\A r \in Runs : rows'[r] # rows[r] =>
       /\ rows[r].status = "started"
       /\ r \notin live' /\ (Up => r \in live)]_vars

\* When the boot is through, each task it found has been started since (or was
\* skipped for overlap), or has succeeded at or after its last instant, or is one
\* that is not made up for: by its policy, or because it never succeeded.
MissedRunsAreMadeUp ==
  init = "done" =>
    \A t \in boot.tasks :
      \/ t \in NoCatchup
      \/ LastSuccessfulRun(t) = {}
      \/ \E r \in RowsOf(t) : \/ rows[r].started >= boot.now
                              \/ rows[r].status = "success" /\ rows[r].started >= PrevFire(t)

-----------------------------------------------------------------------------
(***************************************************************************)
(* What the settings' comment says and the code does not keep.             *)
(***************************************************************************)

\* "so overlap protection doesn't stay jammed after a crash": what a run is
\* skipped for is going on, or began too short a time ago to be given up.
OnlyLiveRunsBlock ==
  [][\A r \in 1..Len(rows') : r \notin Runs /\ rows'[r].status = "overlap-skipped" =>
       \E q \in RowsOf(rows'[r].task) :
         /\ rows[q].status = "started"
         /\ q \in live \/ rows[q].started + MaxRuntime >= now]_vars
=============================================================================
