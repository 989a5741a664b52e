--------------------------- MODULE TaskScheduler ---------------------------
(***************************************************************************)
(* What the conductor promises about the tasks of an approved plan, with   *)
(* no word of run.json, snapshots, passes or locks: every task is started  *)
(* at most once until it is lost to a restart, only after its dependencies *)
(* have exited cleanly and only while fewer than MaxWorkers are at work;   *)
(* the run is called done or failed only when nothing is left to start; a  *)
(* crash loses no success, a shutdown none that was settled before it.     *)
(***************************************************************************)
EXTENDS Naturals, FiniteSets

CONSTANTS Tasks, Deps, MaxWorkers

VARIABLES
  phase,  \* the status of the run, or "stopping" while the server shuts down
  job     \* the state of each task

vars == <<phase, job>>

JobState == {"idle", "active", "ending", "exited",
             "succeeded", "failed", "blocked", "lost"}

RunPhase == {"planning", "running", "done", "failed"}

TypeOK == /\ phase \in RunPhase \cup {"stopping"}
          /\ job \in [Tasks -> JobState]

Init == phase = "planning" /\ job = [t \in Tasks |-> "idle"]

In(states) == {t \in Tasks : job[t] \in states}

\* The direct dependents of t that have not been started are blocked by it.
BlockedBy(t) == {u \in In({"idle"}) : t \in Deps[u]}

Approve == phase = "planning" /\ phase' = "running" /\ UNCHANGED job

\* A clean exit of its dependencies is enough: it may precede their verdict.
Start(t) ==
  /\ phase = "running"
  /\ job[t] = "idle"
  /\ Deps[t] \subseteq In({"exited", "succeeded"})
  /\ Cardinality(In({"active"})) < MaxWorkers
  /\ job' = [job EXCEPT ![t] = "active"]
  /\ UNCHANGED phase

\* The worker stalls or fails; a stalled one can still exit cleanly.
GiveOut(t) ==
  /\ job[t] = "active"
  /\ job' = [job EXCEPT ![t] = "ending"]
  /\ UNCHANGED phase

ExitCleanly(t) ==
  /\ job[t] \in {"active", "ending"}
  /\ job' = [job EXCEPT ![t] = "exited"]
  /\ UNCHANGED phase

Succeed(t) ==
  /\ job[t] = "exited"
  /\ job' = [job EXCEPT ![t] = "succeeded"]
  /\ UNCHANGED phase

\* The failure of a task, or of its validation, blocks its dependents.
Fail(t) ==
  /\ job[t] \in {"ending", "exited"}
  /\ job' = [u \in Tasks |-> IF u = t THEN "failed"
                             ELSE IF u \in BlockedBy(t) THEN "blocked" ELSE job[u]]
  /\ UNCHANGED phase

\* The end of the run.  Verdicts that come late can turn done into failed, and
\* failed into done when a worker given up for stuck had exited cleanly.
Settle(verdict) ==
  /\ phase \in RunPhase \ {"planning"}
  /\ In({"idle", "active"}) = {}
  /\ verdict = "done" => In({"failed", "blocked", "lost"}) = {}
  /\ verdict = "failed" => In({"ending", "exited", "failed", "blocked", "lost"}) # {}
  /\ phase' = verdict
  /\ UNCHANGED job

\* A crash forgets or loses what was at work.  What a dispatch pass had already saved
\* stands: a failure it had seen, or an exit, which counts as a success without a
\* verdict.
Crash ==
  /\ phase \in RunPhase
  /\ job' \in [Tasks -> JobState]
  /\ \A t \in Tasks :
       CASE job[t] \in {"active", "ending"} -> job'[t] \in {"lost", "idle", "failed"}
         [] job[t] = "exited" -> job'[t] \in {"lost", "idle", "failed", "succeeded"}
         [] OTHER -> job'[t] = job[t]
  /\ UNCHANGED phase

\* A server that shuts down drops all but what has succeeded or failed.
Stop ==
  /\ phase \in RunPhase
  /\ phase' = "stopping"
  /\ job' = [t \in Tasks |-> IF job[t] \in {"succeeded", "failed"} THEN job[t] ELSE "lost"]

\* The new server finds that as it was, and of the rest whatever the last one saved.
StartAgain ==
  /\ phase = "stopping"
  /\ phase' \in RunPhase
  /\ job' \in [Tasks -> JobState \ {"active", "ending", "exited"}]
  /\ \A t \in In({"succeeded", "failed"}) : job'[t] = job[t]

Recover ==
  /\ phase = "running"
  /\ In({"active", "ending", "exited"}) = {} /\ In({"lost"}) # {}
  /\ phase' = "failed"
  /\ UNCHANGED job

\* What was lost, and what only waited for it, is to be started again.
Resume(S) ==
  /\ phase = "failed" /\ In({"lost"}) # {}
  /\ S \subseteq In({"blocked"})
  /\ phase' = "running"
  /\ job' = [t \in Tasks |-> IF t \in S \cup In({"lost"}) THEN "idle" ELSE job[t]]

Next ==
  \/ Approve
  \/ \E t \in Tasks : \/ Start(t) \/ GiveOut(t) \/ ExitCleanly(t)
                      \/ Succeed(t) \/ Fail(t)
  \/ \E verdict \in {"done", "failed"} : Settle(verdict)
  \/ Crash
  \/ Stop
  \/ StartAgain
  \/ Recover
  \/ \E S \in SUBSET Tasks : Resume(S)

Spec == Init /\ [][Next]_vars
=============================================================================
