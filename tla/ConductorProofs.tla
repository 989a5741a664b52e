--------------------------- MODULE ConductorProofs ---------------------------
(***************************************************************************)
(* What the conductor keeps for every plan, every limit and every number   *)
(* of clients: its type invariant, and that no snapshot of the run, stale  *)
(* or not, records more than MaxWorkers running tasks.                     *)
(***************************************************************************)
EXTENDS Conductor, FiniteSetTheorems, TLAPS

-----------------------------------------------------------------------------
(***************************************************************************)
(* The functions on runs give runs.                                        *)
(***************************************************************************)

\* A fresh run is a run.
LEMMA NewRunType == NewRun \in Run
BY DEF NewRun, Run, RunStatus, WorkerStatus

\* Recording an exit, with the blocking it entails, gives a run.
LEMMA RecordExitType ==
  ASSUME NEW run \in Run, NEW t \in Tasks, NEW st \in WorkerStatus
  PROVE  RecordExit(run, t, st) \in Run
<1>1. [run.worker EXCEPT ![t] = st] \in [Entries -> WorkerStatus]
  BY DEF Run, Entries
<1>2. PropagateBlocked([run.worker EXCEPT ![t] = st], t) \in [Entries -> WorkerStatus]
  BY <1>1 DEF PropagateBlocked, WorkerStatus
<1> QED
  BY <1>1, <1>2 DEF RecordExit, Run

\* What any of the handlers saves for a run it has loaded is a run.
LEMMA OutcomeType ==
  ASSUME NEW run \in Run, NEW op, NEW t \in Entries, NEW out, Outcome(op, t, run, out)
  PROVE  out \in Run
<1>1. CASE \E S \in Unblocked(run.worker) : out = Resume(run, S)
  BY <1>1 DEF Resume, Run, RunStatus, WorkerStatus
<1>2. CASE out = Recover(run, Alive)
  <2>1. Recover(run, Alive).status \in RunStatus
    BY DEF Recover, Run, RunStatus
  <2>2. Recover(run, Alive).worker \in [Entries -> WorkerStatus]
    BY DEF Recover, Run, WorkerStatus
  <2> QED
    BY <1>2, <2>1, <2>2 DEF Recover, Run
<1>3. CASE out = NewRun
  BY <1>3, NewRunType
<1>4. CASE \E st \in RunStatus : out = [run EXCEPT !.status = st]
  BY <1>4 DEF Run
<1>5. CASE \E e \in Entries, st \in WorkerStatus : out = [run EXCEPT !.worker[e] = st]
  BY <1>5 DEF Run
<1> QED
  BY <1>1, <1>2, <1>3, <1>4, <1>5 DEF Outcome, RunStatus, WorkerStatus, Entries, Approve, Cancel, Archive, Reopen,
        Kill, EndMerge, OpenPm, EndPm

\* What the current pass sees is a worker table.
LEMMA ViewType ==
  ASSUME TypeOK
  PROVE  View \in [Entries -> WorkerStatus]
BY DEF TypeOK, View, Pass, Run, Session, Sessions, NoSession, Entries

\* A handler that has loaded, or is through, is a request.
LEMMA LoadedType ==
  ASSUME TypeOK, NEW r \in Request
  PROVE  Loaded(r) \in Request
<1>1. NoRequest \in Request
  BY NewRunType DEF NoRequest, Request, HandlerOps, Entries
<1>2. disk \in Run
  BY DEF TypeOK
<1>3. CASE Allowed(r.op, r.task, disk)
  BY <1>2, <1>3 DEF Loaded, Request
<1>4. CASE ~Allowed(r.op, r.task, disk)
  BY <1>1, <1>4 DEF Loaded, Request, HandlerOps
<1> QED
  BY <1>3, <1>4

-----------------------------------------------------------------------------
(***************************************************************************)
(* The type invariant.  It is inductive together with two facts about the  *)
(* dispatch lock: a stage is reached only by a job that holds the lock,    *)
(* and an exit job is that of a session that has ended.                    *)
(***************************************************************************)

LockHeld == stage # "idle" => lockq # <<>>

Ended == {s \in Sessions : sess[s].phase # "unused" /\ sess[s].closure # "running"}

ExitJobsEnded ==
  \A i \in 1..Len(lockq) : lockq[i].kind = "exit" => lockq[i].sid \in Ended

BaseInv == TypeOK /\ LockHeld /\ ExitJobsEnded

\* The positions of the plan's tasks are a bounded range of numbers.
LEMMA PlanLength ==
  /\ Len(PlanOrder) \in Nat
  /\ 0 \in 0..Len(PlanOrder)
  /\ 1 \in 1..Len(PlanOrder) + 1
  /\ NoSession \in 0..MaxSessions
BY OrderAssumption, BoundsAssumption DEF NoSession

\* Between passes nothing is being dispatched.
LEMMA NoPassType == NoPass \in Pass
BY NewRunType, PlanLength DEF NoPass, Pass

\* Whatever becomes of a session, it stays a session.
LEMMA SessionsType ==
  ASSUME TypeOK, NEW s \in Sessions, NEW ph \in Phases, NEW st \in WorkerStatus
  PROVE  [sess EXCEPT ![s].phase = ph, ![s].closure = st] \in [Sessions -> Session]
<1> DEFINE known == sess
<1>1. known \in [Sessions -> Session]
  BY DEF TypeOK
<1> HIDE DEF known
<1> SUFFICES [known EXCEPT ![s].phase = ph, ![s].closure = st] \in [Sessions -> Session]
  BY DEF known
<1> QED
  BY <1>1 DEF Session

\* The state before the first request is well typed.
LEMMA InitTypeOK == Init => TypeOK
<1> SUFFICES ASSUME Init PROVE TypeOK
  OBVIOUS
<1>1. \E t \in Tasks : TRUE
  BY TasksAssumption
<1>2. Unspawned \in Session
  BY <1>1 DEF Unspawned, Session, Phases, WorkerStatus
<1>3. NoRequest \in Request
  BY NewRunType DEF NoRequest, Request, HandlerOps, Entries
<1>4. sess \in [Sessions -> Session] /\ req \in [Handlers -> Request]
  BY <1>2, <1>3 DEF Init
<1>5. disk \in Run /\ held \in Run /\ pass \in Pass
  BY NewRunType, NoPassType DEF Init
<1>6. lockq \in Seq(Job)
  BY DEF Init
<1>7. stage \in Stages /\ pmLive \in BOOLEAN
  BY DEF Init, Stages
<1>8. restarts \in 0..MaxRestarts /\ requests \in 0..MaxRequests
  BY BoundsAssumption DEF Init
<1>9. hook \in Hook
  BY DEF Init, NoHook, Hook
<1> QED
  BY <1>4, <1>5, <1>6, <1>7, <1>8, <1>9 DEF TypeOK

\* The steps of a dispatch pass.
LEMMA PassTypeOK == BaseInv /\ PassStep => TypeOK'
<1> SUFFICES ASSUME TypeOK, LockHeld, PassStep PROVE TypeOK'
  BY DEF BaseInv
<1>a. lockq \in Seq(Job)
  BY DEF TypeOK
<1>b. pass \in Pass
  BY DEF TypeOK
<1>c. ASSUME pass.next # 0 PROVE PlanOrder[pass.next] \in Tasks
  BY <1>b, <1>c, OrderAssumption DEF Pass
<1>d. [pass EXCEPT !.next = 0] \in Pass
  BY <1>b, PlanLength DEF Pass
<1>1. ASSUME AfterPass, lockq # <<>> PROVE lockq' \in Seq(Job) /\ stage' \in Stages
  BY <1>1, <1>a DEF AfterPass, Release, Stages
<1>2. CASE PassBegin
  <2>1. lockq # <<>>
    BY <1>2 DEF PassBegin, Holds
  <2>2. disk \in Run
    BY DEF TypeOK
  <2>3. pass' \in Pass
    BY <1>2, <1>b, <2>2, NoPassType DEF PassBegin, Pass
  <2>4. lockq' \in Seq(Job) /\ stage' \in Stages
    BY <1>1, <1>2, <1>a, <2>1 DEF PassBegin, Stages
  <2> QED
    BY <1>2, <2>3, <2>4 DEF PassBegin, TypeOK
<1>3. CASE PassPick
  <2>1. PICK j \in ReadyFrom(View, pass.at) : pass' = [pass EXCEPT !.next = j, !.at = j + 1]
    BY <1>3 DEF PassPick
  <2>2. j \in 0..Len(PlanOrder) /\ j + 1 \in 1..Len(PlanOrder) + 1
    BY <1>b, <2>1, PlanLength DEF ReadyFrom, Pass
  <2>3. pass' \in Pass
    BY <1>b, <2>1, <2>2 DEF Pass
  <2> QED
    BY <1>3, <2>3 DEF PassPick, TypeOK
<1>4. CASE PassSpawn
  <2>1. PICK s \in Sessions : /\ Spawned(s, PlanOrder[pass.next], "live")
                             /\ pass' = [pass EXCEPT !.mine[PlanOrder[pass.next]] = s, !.next = 0]
    BY <1>4 DEF PassSpawn
  <2>2. PlanOrder[pass.next] \in Tasks
    BY <1>4, <1>c DEF PassSpawn, Provisioning
  <2>3. sess' \in [Sessions -> Session]
    BY <2>1, <2>2 DEF Spawned, TypeOK, Session, Phases, WorkerStatus
  <2>4. s \in 0..MaxSessions
    BY BoundsAssumption DEF Sessions
  <2>5. pass' \in Pass
    BY <1>b, <2>1, <2>2, <2>4, PlanLength DEF Pass
  <2> QED
    BY <1>4, <2>3, <2>5 DEF PassSpawn, TypeOK
<1>5. CASE PassSpawnFails
  BY <1>5, <1>d DEF PassSpawnFails, TypeOK
<1>6. CASE PassSpawnTimesOut
  <2>1. PICK s \in Sessions : Spawned(s, PlanOrder[pass.next], "orphan")
    BY <1>6 DEF PassSpawnTimesOut
  <2>2. PlanOrder[pass.next] \in Tasks
    BY <1>6, <1>c DEF PassSpawnTimesOut, Provisioning
  <2>3. sess' \in [Sessions -> Session]
    BY <2>1, <2>2 DEF Spawned, TypeOK, Session, Phases, WorkerStatus
  <2> QED
    BY <1>6, <1>d, <2>3 DEF PassSpawnTimesOut, TypeOK
<1>7. CASE PassEnd
  <2>1. disk' \in Run
    BY <1>7, <1>b, ViewType DEF PassEnd, TypeOK, Pass, Run
  <2>2. lockq # <<>>
    BY <1>7 DEF PassEnd, LockHeld
  <2>3. lockq' \in Seq(Job) /\ stage' \in Stages
    BY <1>1, <1>7, <2>2 DEF PassEnd
  <2> QED
    BY <1>7, <2>1, <2>3, NoPassType DEF PassEnd, TypeOK
<1> QED
  BY <1>2, <1>3, <1>4, <1>5, <1>6, <1>7 DEF PassStep

\* The listeners of a session.
LEMMA SessionTypeOK ==
  ASSUME TypeOK, NEW s \in Sessions, SessionStep(s)
  PROVE  TypeOK'
<1>a. ExitJob(s) \in Job /\ ConflictsJob \in Job
  BY BoundsAssumption DEF ExitJob, ConflictsJob, NoSession, Job, Sessions
<1>b. lockq \in Seq(Job) /\ sess \in [Sessions -> Session]
  BY DEF TypeOK
<1>c. Append(lockq, ExitJob(s)) \in Seq(Job) /\ Append(lockq, ConflictsJob) \in Seq(Job)
  BY <1>a, <1>b
<1>1. CASE Stall(s)
  BY <1>1 DEF Stall, TypeOK, Session, WorkerStatus
<1>2. CASE ExitClean(s)
  BY <1>2 DEF ExitClean, TypeOK, Session, WorkerStatus, Phases
<1>3. CASE ExitUnclean(s)
  <2>1. PICK st \in {"stuck", "failed"} :
           sess' = [sess EXCEPT ![s].phase = "queued", ![s].closure = st]
    BY <1>3 DEF ExitUnclean
  <2>2. sess' \in [Sessions -> Session]
    BY <2>1, SessionsType DEF WorkerStatus, Phases
  <2> QED
    BY <1>c, <1>3, <2>2 DEF ExitUnclean, TypeOK
<1>4. CASE Validated(s)
  <2>1. PICK st \in {"done", "validation_failed"} :
           sess' = [sess EXCEPT ![s].phase = "queued", ![s].closure = st]
    BY <1>4 DEF Validated
  <2>2. sess' \in [Sessions -> Session]
    BY <2>1, SessionsType DEF WorkerStatus, Phases
  <2> QED
    BY <1>c, <1>4, <2>2 DEF Validated, TypeOK
<1>5. CASE OrphanExits(s)
  BY <1>5 DEF OrphanExits, TypeOK, Session, Phases
<1>6. CASE ConflictScan(s)
  <2>1. sess' \in [Sessions -> Session]
    BY <1>b, <1>6 DEF ConflictScan, Session, Phases
  <2> QED
    BY <1>b, <1>c, <1>6, <2>1 DEF ConflictScan, TypeOK
<1> QED
  BY <1>1, <1>2, <1>3, <1>4, <1>5, <1>6 DEF SessionStep

\* The session of an exit job at the head of the lock is one that has ended.
LEMMA HolderEnded ==
  ASSUME BaseInv, lockq # <<>>, Head(lockq).kind = "exit"
  PROVE  HolderSession \in Ended /\ HolderSession \in Sessions
<1>1. 1 \in 1..Len(lockq) /\ Head(lockq) = lockq[1]
  BY DEF BaseInv, TypeOK
<1> QED
  BY <1>1 DEF BaseInv, ExitJobsEnded, HolderSession, Ended

\* The steps of exit and conflicts jobs under the lock.
LEMMA JobTypeOK == BaseInv /\ JobStep => TypeOK'
<1> SUFFICES ASSUME BaseInv, JobStep PROVE TypeOK'
  OBVIOUS
<1> USE DEF BaseInv
<1>1. CASE ExitLoad
  <2>1. HolderSession \in Sessions
    BY <1>1, HolderEnded DEF ExitLoad, Holds
  <2>2. held' \in Run
    BY <1>1, <2>1, RecordExitType DEF ExitLoad, TypeOK, Session
  <2> QED
    BY <1>1, <2>2 DEF ExitLoad, TypeOK, Stages
<1>2. CASE ExitSave
  <2>1. HolderSession \in Sessions
    BY <1>2, HolderEnded DEF ExitSave, Holds
  <2>2. sess' \in [Sessions -> Session]
    BY <1>2, <2>1 DEF ExitSave, TypeOK, Session, Phases
  <2> QED
    BY <1>2, <2>2 DEF ExitSave, TypeOK, Stages
<1>3. CASE ExitFinish
  <2>1. HolderSession \in Sessions /\ lockq # <<>>
    BY <1>3, HolderEnded DEF ExitFinish, Holds
  <2>2. sess' \in [Sessions -> Session]
    BY <1>3, <2>1 DEF ExitFinish, TypeOK, Session, Phases
  <2>3. disk' \in Run
    BY <1>3 DEF ExitFinish, TypeOK, Run, RunStatus, FinalStatus
  <2> QED
    BY <1>3, <2>1, <2>2, <2>3, NewRunType DEF ExitFinish, Release, TypeOK, Stages
<1>4. CASE ConflictsLoad
  BY <1>4 DEF ConflictsLoad, TypeOK, Stages
<1>5. CASE ConflictsSave
  BY <1>5, NewRunType DEF ConflictsSave, Holds, Release, TypeOK, Stages
<1> QED
  BY <1>1, <1>2, <1>3, <1>4, <1>5 DEF JobStep

\* A handler's steps, and the arrival of a request.
LEMMA HandlerTypeOK ==
  ASSUME TypeOK, NEW h \in Handlers, HandlerStep(h)
  PROVE  TypeOK'
<1>a. req \in [Handlers -> Request] /\ req[h] \in Request
  BY DEF TypeOK
<1>b. req[h].run \in Run /\ req[h].task \in Entries
  BY <1>a DEF Request
<1>1. CASE Load(h)
  <2>1. req' = [req EXCEPT ![h] = Loaded(req[h])]
    BY <1>1 DEF Load
  <2>2. req' \in [Handlers -> Request]
    BY <1>a, <2>1, LoadedType
  <2> QED
    BY <1>1, <2>2 DEF Load, TypeOK
<1>2. CASE MergeProgress(h)
  <2>1. disk' \in Run
    BY <1>2, <1>b DEF MergeProgress, Merging, Run, RunStatus
  <2>2. req' = [req EXCEPT ![h].op = "merging"]
    BY <1>2 DEF MergeProgress
  <2>3. req' \in [Handlers -> Request]
    BY <1>a, <2>2 DEF Request, HandlerOps
  <2> QED
    BY <1>2, <2>1, <2>3 DEF MergeProgress, TypeOK
<1>3. CASE Save(h)
  <2>1. disk' \in Run
    BY <1>3, <1>b, OutcomeType DEF Save
  <2>2. NoRequest \in Request /\ [NoRequest EXCEPT !.op = "archive"] \in Request
    BY NewRunType DEF NoRequest, Request, HandlerOps, Entries
  <2>3. req' \in [Handlers -> Request]
    BY <1>3, <1>a, <2>2 DEF Save
  <2>4. lockq \in Seq(Job) /\ DispatchJob \in Job
    BY BoundsAssumption DEF TypeOK, DispatchJob, Job, NoSession
  <2>5. lockq' \in Seq(Job)
    BY <1>3, <2>4 DEF Save
  <2>6. pmLive' \in BOOLEAN
    BY <1>3 DEF Save
  <2> QED
    BY <1>3, <2>1, <2>3, <2>5, <2>6 DEF Save, TypeOK
<1> QED
  BY <1>1, <1>2, <1>3 DEF HandlerStep

\* A request that arrives holds at most a copy of run.json.
LEMMA ArriveTypeOK ==
  ASSUME TypeOK, NEW c \in Clients, NEW op \in Ops, NEW t \in Entries, Arrive(c, op, t)
  PROVE  TypeOK'
<1> DEFINE r == [NoRequest EXCEPT !.op = op, !.task = t]
<1>1. r \in Request
  BY NewRunType, OpsAssumption DEF NoRequest, Request, HandlerOps
<1>2. req' = [req EXCEPT ![c] = IF op \in {"resume", "merge"} THEN r ELSE Loaded(r)]
  BY DEF Arrive
<1> HIDE DEF r
<1>3. Loaded(r) \in Request
  BY <1>1, LoadedType
<1>4. req' \in [Handlers -> Request]
  BY <1>1, <1>2, <1>3 DEF TypeOK
<1>5. requests \in 0..MaxRequests /\ requests < MaxRequests /\ requests' = requests + 1
  BY DEF TypeOK, Arrive
<1>6. requests' \in 0..MaxRequests
  BY <1>5, BoundsAssumption
<1> QED
  BY <1>4, <1>6 DEF Arrive, TypeOK

\* The end of the PM session starts its exit listener.
LEMMA PmExitsTypeOK == TypeOK /\ PmExits => TypeOK'
<1> SUFFICES ASSUME TypeOK, PmExits PROVE TypeOK'
  OBVIOUS
<1>1. [NoRequest EXCEPT !.op = "pmExit"] \in Request
  BY NewRunType DEF NoRequest, Request, HandlerOps, Entries
<1>2. req' \in [Handlers -> Request]
  BY <1>1 DEF PmExits, TypeOK
<1> QED
  BY <1>2 DEF PmExits, TypeOK

\* The shutdown hook lists some of the entries and loads run.json for one of them.
LEMMA ShutdownTypeOK ==
  ASSUME TypeOK, ShutdownBegins \/ \E e \in Entries : ShutdownKills(e)
  PROVE  TypeOK'
<1>a. hook \in Hook /\ disk \in Run /\ req \in [Handlers -> Request]
  BY DEF TypeOK
<1>1. CASE ShutdownBegins
  <2>1. hook' \in Hook
    BY <1>1 DEF ShutdownBegins, Hook, Settled, RunningEntries
  <2> QED
    BY <1>1, <2>1 DEF ShutdownBegins, TypeOK
<1>2. ASSUME NEW e \in Entries, ShutdownKills(e) PROVE TypeOK'
  <2>1. [op |-> "kill", task |-> e, loaded |-> TRUE, run |-> disk] \in Request
    BY <1>a DEF Request, HandlerOps, AllOps
  <2>2. req' \in [Handlers -> Request]
    BY <1>a, <1>2, <2>1 DEF ShutdownKills
  <2>3. hook' \in Hook
    BY <1>a, <1>2 DEF ShutdownKills, Hook
  <2> QED
    BY <1>2, <2>2, <2>3 DEF ShutdownKills, TypeOK
<1> QED
  BY <1>1, <1>2

\* A restart, abrupt or at the end of the hook, leaves run.json alone.
LEMMA RebootTypeOK == TypeOK /\ (Crash \/ Exit) => TypeOK'
<1> SUFFICES ASSUME TypeOK, Crash \/ Exit PROVE TypeOK'
  OBVIOUS
<1>1. Reboot
  BY DEF Crash, Exit
<1>2. disk \in Run
  BY DEF TypeOK
<1>3. disk' \in Run
  BY <1>1, <1>2 DEF Reboot
<1>4. sess \in [Sessions -> Session]
  BY DEF TypeOK
<1>5. sess' \in [Sessions -> Session]
  BY <1>1, <1>4 DEF Reboot, Session, Phases
<1>6. NoRequest \in Request /\ [NoRequest EXCEPT !.op = "recover"] \in Request
  BY NewRunType DEF NoRequest, Request, HandlerOps, Entries
<1>7. req' \in [Handlers -> Request]
  BY <1>1, <1>6 DEF Reboot
<1>8. held' \in Run /\ pass' \in Pass /\ stage' \in Stages /\ pmLive' \in BOOLEAN
  BY <1>1, NewRunType, NoPassType DEF Reboot, Stages
<1>12. hook' \in Hook
  BY <1>1 DEF Reboot, NoHook, Hook
<1>9. lockq' \in Seq(Job)
  BY <1>1 DEF Reboot
<1>10. restarts \in 0..MaxRestarts /\ requests \in 0..MaxRequests
  BY DEF TypeOK
<1>11. restarts' \in 0..MaxRestarts /\ requests' \in 0..MaxRequests
  BY <1>1, <1>10, BoundsAssumption DEF Reboot
<1> QED
  BY <1>3, <1>5, <1>7, <1>8, <1>9, <1>11, <1>12 DEF TypeOK

-----------------------------------------------------------------------------
(***************************************************************************)
(* The dispatch lock.                                                      *)
(***************************************************************************)

\* The exit jobs stay those of ended sessions when sessions that have ended
\* stay so and the queue is popped, or grows by a job that fits.
LEMMA QueueKept ==
  ASSUME BaseInv, Ended \subseteq Ended',
         \/ lockq' = lockq
         \/ lockq # <<>> /\ lockq' = Tail(lockq)
         \/ \E j \in Job : lockq' = Append(lockq, j) /\ (j.kind = "exit" => j.sid \in Ended')
  PROVE  ExitJobsEnded'
<1>a. lockq \in Seq(Job)
  BY DEF BaseInv, TypeOK
<1>b. \A i \in 1..Len(lockq) : lockq[i].kind = "exit" => lockq[i].sid \in Ended'
  BY DEF BaseInv, ExitJobsEnded
<1> SUFFICES ASSUME NEW i \in 1..Len(lockq'), lockq'[i].kind = "exit"
             PROVE  lockq'[i].sid \in Ended'
  BY DEF ExitJobsEnded
<1>1. CASE lockq' = lockq
  BY <1>1, <1>b
<1>2. CASE lockq # <<>> /\ lockq' = Tail(lockq)
  <2>1. i + 1 \in 1..Len(lockq) /\ lockq'[i] = lockq[i + 1]
    BY <1>2, <1>a
  <2> QED
    BY <2>1, <1>b
<1>3. ASSUME NEW j \in Job, lockq' = Append(lockq, j), j.kind = "exit" => j.sid \in Ended'
      PROVE  lockq'[i].sid \in Ended'
  <2>1. CASE i = Len(lockq) + 1
    BY <1>3, <1>a, <2>1
  <2>2. CASE i # Len(lockq) + 1
    <3>1. i \in 1..Len(lockq) /\ lockq'[i] = lockq[i]
      BY <1>3, <1>a, <2>2
    <3> QED
      BY <3>1, <1>b
  <2> QED
    BY <2>1, <2>2
<1> QED
  BY <1>1, <1>2, <1>3

\* A dispatch pass holds the lock to its end and spawns only fresh sessions.
LEMMA PassLock == BaseInv /\ PassStep => LockHeld' /\ ExitJobsEnded'
<1> SUFFICES ASSUME BaseInv, PassStep PROVE LockHeld' /\ ExitJobsEnded'
  OBVIOUS
<1>a. stage = "passing" => lockq # <<>>
  BY DEF BaseInv, LockHeld
<1>b. ASSUME NEW s \in Sessions, NEW t, NEW ph, Fresh(s), Spawned(s, t, ph)
      PROVE  Ended \subseteq Ended'
  BY <1>b DEF Fresh, Spawned, Ended, BaseInv, TypeOK
<1>c. ASSUME AfterPass, lockq # <<>>, UNCHANGED sess PROVE LockHeld' /\ ExitJobsEnded'
  <2>1. lockq' = lockq \/ lockq' = Tail(lockq)
    BY <1>c DEF AfterPass, Release
  <2>2. Ended' = Ended
    BY <1>c DEF Ended
  <2>3. ExitJobsEnded'
    BY <1>c, <2>1, <2>2, QueueKept
  <2> QED
    BY <1>c, <2>3 DEF AfterPass, Release, LockHeld
<1>1. CASE PassBegin
  <2>1. lockq # <<>> /\ UNCHANGED sess
    BY <1>1 DEF PassBegin, Holds
  <2>2. CASE AfterPass
    BY <1>c, <2>1, <2>2
  <2>3. CASE UNCHANGED lockq
    <3>1. ExitJobsEnded'
      BY <2>1, <2>3, QueueKept DEF Ended
    <3> QED
      BY <2>1, <2>3, <3>1 DEF LockHeld
  <2> QED
    BY <1>1, <2>2, <2>3 DEF PassBegin
<1>2. CASE PassPick \/ PassSpawnFails
  <2>1. UNCHANGED <<sess, lockq, stage>>
    BY <1>2 DEF PassPick, PassSpawnFails
  <2>2. ExitJobsEnded'
    BY <2>1, QueueKept DEF Ended
  <2> QED
    BY <2>1, <2>2 DEF BaseInv, LockHeld
<1>3. CASE PassSpawn \/ PassSpawnTimesOut
  <2>1. UNCHANGED <<lockq, stage>>
    BY <1>3 DEF PassSpawn, PassSpawnTimesOut
  <2>2. Ended \subseteq Ended'
    BY <1>3, <1>b DEF PassSpawn, PassSpawnTimesOut
  <2>3. ExitJobsEnded'
    BY <2>1, <2>2, QueueKept
  <2> QED
    BY <2>1, <2>3 DEF BaseInv, LockHeld
<1>4. CASE PassEnd
  BY <1>4, <1>a, <1>c DEF PassEnd
<1> QED
  BY <1>1, <1>2, <1>3, <1>4 DEF PassStep

\* Only the listener of a session that has ended asks for an exit job.
LEMMA SessionLock ==
  ASSUME BaseInv, NEW s \in Sessions, SessionStep(s)
  PROVE  LockHeld' /\ ExitJobsEnded'
<1>a. /\ lockq \in Seq(Job) /\ sess \in [Sessions -> Session]
      /\ ExitJob(s) \in Job /\ ConflictsJob \in Job
  BY BoundsAssumption
  DEF BaseInv, TypeOK, ExitJob, ConflictsJob, NoSession, Job, Sessions
<1>1. Ended \subseteq Ended'
  BY <1>a DEF Ended, Session, SessionStep, Stall, ExitClean, ExitUnclean, Validated,
              OrphanExits, ConflictScan
<1>2. CASE lockq' = lockq
  BY <1>1, <1>2, QueueKept DEF BaseInv, LockHeld, SessionStep, Stall, ExitClean,
     OrphanExits, ExitUnclean, Validated, ConflictScan
<1>3. CASE ConflictScan(s) /\ lockq' = Append(lockq, ConflictsJob)
  <2>1. ConflictsJob.kind # "exit"
    BY DEF ConflictsJob
  <2>2. ExitJobsEnded'
    BY <1>1, <1>3, <1>a, <2>1, QueueKept
  <2> QED
    BY <1>3, <1>a, <2>2 DEF LockHeld
<1>4. CASE ExitUnclean(s) \/ Validated(s)
  <2>1. lockq' = Append(lockq, ExitJob(s)) /\ ExitJob(s).sid = s
    BY <1>4 DEF ExitUnclean, Validated, ExitJob
  <2>2. s \in Ended'
    BY <1>4, <1>a DEF ExitUnclean, Validated, Ended, Session
  <2>3. ExitJobsEnded'
    BY <1>1, <1>a, <2>1, <2>2, QueueKept
  <2> QED
    BY <1>a, <2>1, <2>3 DEF LockHeld
<1> QED
  BY <1>2, <1>3, <1>4 DEF SessionStep, Stall, ExitClean, OrphanExits, ConflictScan

\* A job under the lock marks its session, and releases the lock at its end.
LEMMA JobLock == BaseInv /\ JobStep => LockHeld' /\ ExitJobsEnded'
<1> SUFFICES ASSUME BaseInv, JobStep PROVE LockHeld' /\ ExitJobsEnded'
  OBVIOUS
<1>a. lockq # <<>> /\ (lockq' = lockq \/ (lockq' = Tail(lockq) /\ stage' = "idle"))
  BY DEF JobStep, ExitLoad, ExitSave, ExitFinish, ConflictsLoad, ConflictsSave, Holds,
         Release
<1>b. sess \in [Sessions -> Session]
  BY DEF BaseInv, TypeOK
<1>1. Ended \subseteq Ended'
  BY <1>b DEF Ended, Session, JobStep, ExitLoad, ExitSave, ExitFinish, ConflictsLoad,
              ConflictsSave
<1>2. ExitJobsEnded'
  BY <1>1, <1>a, QueueKept
<1> QED
  BY <1>2, <1>a DEF LockHeld

\* Requests and handlers ask for dispatch passes, or leave the lock alone.
LEMMA HandlerLock ==
  ASSUME BaseInv, UNCHANGED <<sess, stage>>,
         lockq' = lockq \/ lockq' = Append(lockq, DispatchJob)
  PROVE  LockHeld' /\ ExitJobsEnded'
<1>1. Ended' = Ended /\ lockq \in Seq(Job)
  BY DEF Ended, BaseInv, TypeOK
<1>2. DispatchJob \in Job /\ DispatchJob.kind # "exit"
  BY BoundsAssumption DEF DispatchJob, Job, NoSession
<1>3. ExitJobsEnded'
  BY <1>1, <1>2, QueueKept
<1> QED
  BY <1>1, <1>3 DEF BaseInv, LockHeld

\* The three facts are inductive.
LEMMA BaseStep == BaseInv /\ [Next]_vars => BaseInv'
<1> SUFFICES ASSUME BaseInv, [Next]_vars PROVE BaseInv'
  OBVIOUS
<1>a. TypeOK
  BY DEF BaseInv
<1>1. CASE PassStep
  BY <1>1, PassTypeOK, PassLock DEF BaseInv
<1>2. CASE \E s \in Sessions : SessionStep(s)
  BY <1>2, <1>a, SessionTypeOK, SessionLock DEF BaseInv
<1>3. CASE JobStep
  BY <1>3, JobTypeOK, JobLock DEF BaseInv
<1>4. ASSUME NEW c \in Clients, NEW op \in Ops, NEW t \in Entries, Arrive(c, op, t)
      PROVE  BaseInv'
  <2>1. UNCHANGED <<sess, stage, lockq>>
    BY <1>4 DEF Arrive
  <2> QED
    BY <1>4, <1>a, <2>1, ArriveTypeOK, HandlerLock DEF BaseInv
<1>5. ASSUME NEW h \in Handlers, HandlerStep(h) PROVE BaseInv'
  <2>1. UNCHANGED <<sess, stage>> /\ (lockq' = lockq \/ lockq' = Append(lockq, DispatchJob))
    BY <1>5 DEF HandlerStep, Load, MergeProgress, Save
  <2> QED
    BY <1>5, <1>a, <2>1, HandlerTypeOK, HandlerLock DEF BaseInv
<1>6. CASE PmExits
  <2>1. UNCHANGED <<sess, stage, lockq>>
    BY <1>6 DEF PmExits
  <2> QED
    BY <1>6, <1>a, <2>1, PmExitsTypeOK, HandlerLock DEF BaseInv
<1>7. CASE Crash \/ Exit
  <2>1. lockq' = <<>> /\ stage' = "idle"
    BY <1>7 DEF Crash, Exit, Reboot
  <2> QED
    BY <1>7, <1>a, <2>1, RebootTypeOK DEF BaseInv, LockHeld, ExitJobsEnded
<1>8. CASE UNCHANGED vars
  <2>1. Ended' = Ended
    BY <1>8 DEF vars, Ended
  <2> QED
    BY <1>8, <2>1 DEF BaseInv, TypeOK, LockHeld, ExitJobsEnded, vars
<1>9. CASE ShutdownBegins \/ \E e \in Entries : ShutdownKills(e)
  <2>1. UNCHANGED <<sess, stage, lockq>>
    BY <1>9 DEF ShutdownBegins, ShutdownKills
  <2> QED
    BY <1>9, <1>a, <2>1, ShutdownTypeOK, HandlerLock DEF BaseInv
<1> QED
  BY <1>1, <1>2, <1>3, <1>4, <1>5, <1>6, <1>7, <1>8, <1>9 DEF Next

\* Every reachable state is well typed, and the lock is held by whoever has
\* come anywhere with its job, for every plan and every limit.
THEOREM SpecBase == Spec => []BaseInv
<1>1. Init => BaseInv
  BY InitTypeOK DEF BaseInv, Init, LockHeld, ExitJobsEnded
<1> QED
  BY <1>1, BaseStep, PTL DEF Spec

\* The type invariant of run.json, the sessions, the lock queue, the pass and
\* the snapshots that requests hold.
THEOREM SpecTypeOK == Spec => []TypeOK
<1>1. BaseInv => TypeOK
  BY DEF BaseInv
<1> QED
  BY <1>1, SpecBase, PTL

-----------------------------------------------------------------------------
(***************************************************************************)
(* The limit on workers.  Of what is on disk and in the snapshots the      *)
(* invariant says what the property says; of a pass that is under way it   *)
(* must also count the workers it has dispatched and not yet saved, and    *)
(* the one it is provisioning, whose place was free when it was picked.    *)
(***************************************************************************)

Within(worker) == Cardinality(RunningTasks(worker)) <= MaxWorkers

SavedWithin == \A run \in Snapshots : Within(run.worker)

PassWithin ==
  /\ Within(pass.snap.worker)
  /\ Dispatched # {} => ActiveWorkerCount + Cardinality(Dispatched) <= MaxWorkers
  /\ pass.next # 0 => ActiveWorkerCount + Cardinality(Dispatched) < MaxWorkers

LimitInv == SavedWithin /\ PassWithin

\* A worker table in which no further task runs is within the limit as well.
LEMMA FewerRunning ==
  ASSUME NEW v, NEW w, RunningTasks(v) \subseteq RunningTasks(w), Within(w)
  PROVE  Within(v)
<1>1. IsFiniteSet(RunningTasks(w))
  BY TasksAssumption, FS_Subset DEF RunningTasks
<1>2. /\ Cardinality(RunningTasks(v)) <= Cardinality(RunningTasks(w))
      /\ Cardinality(RunningTasks(v)) \in Nat
      /\ Cardinality(RunningTasks(w)) \in Nat
  BY <1>1, FS_Subset, FS_CardinalityType
<1> QED
  BY <1>2, MaxWorkersAssumption DEF Within

\* A new run has no running task.
LEMMA NewRunWithin == Within(NewRun.worker)
<1>1. RunningTasks(NewRun.worker) = {}
  BY DEF RunningTasks, NewRun, Entries
<1> QED
  BY <1>1, FS_EmptySet, MaxWorkersAssumption DEF Within

\* Recording the exit of a worker that has ended adds no running task.
LEMMA RecordExitWithin ==
  ASSUME NEW run \in Run, NEW t \in Tasks, NEW st \in WorkerStatus, st # "running",
         Within(run.worker)
  PROVE  Within(RecordExit(run, t, st).worker)
<1>1. RunningTasks(RecordExit(run, t, st).worker) \subseteq RunningTasks(run.worker)
  BY DEF RecordExit, PropagateBlocked, RunningTasks, Run, Entries
<1> QED
  BY <1>1, FewerRunning

\* No handler saves a run with a task running that was not so when it loaded it.
LEMMA OutcomeWithin ==
  ASSUME NEW run \in Run, NEW op, NEW t \in Entries, NEW out, Outcome(op, t, run, out),
         Within(run.worker)
  PROVE  Within(out.worker)
<1>1. CASE out = NewRun
  BY <1>1, NewRunWithin
<1>2. CASE \E S \in Unblocked(run.worker) : out = Resume(run, S)
  <2>1. RunningTasks(out.worker) \subseteq RunningTasks(run.worker)
    BY <1>2 DEF Resume, RunningTasks, Entries
  <2> QED
    BY <2>1, FewerRunning
<1>3. CASE out = Recover(run, Alive)
  <2>1. RunningTasks(out.worker) \subseteq RunningTasks(run.worker)
    BY <1>3 DEF Recover, RunningTasks, Entries
  <2> QED
    BY <2>1, FewerRunning
<1>4. CASE \E st \in RunStatus : out = [run EXCEPT !.status = st]
  BY <1>4 DEF Run
<1>5. CASE \E st \in WorkerStatus \ {"running"} : out = [run EXCEPT !.worker[t] = st]
  <2>1. RunningTasks(out.worker) \subseteq RunningTasks(run.worker)
    BY <1>5 DEF RunningTasks, Run, Entries
  <2> QED
    BY <2>1, FewerRunning
<1>6. CASE \E st \in WorkerStatus : out = [run EXCEPT !.worker[PM] = st]
  <2>1. RunningTasks(out.worker) \subseteq RunningTasks(run.worker)
    BY <1>6, TasksAssumption DEF RunningTasks, Run, Entries
  <2> QED
    BY <2>1, FewerRunning
<1> QED
  BY <1>1, <1>2, <1>3, <1>4, <1>5, <1>6 DEF Outcome, RunStatus, WorkerStatus, Approve, Cancel, Archive, Reopen,
        Kill, EndMerge, OpenPm, EndPm

\* What a pass sees, and saves, is within the limit.
LEMMA ViewWithin == TypeOK /\ LimitInv => Within(View)
<1> SUFFICES ASSUME TypeOK, LimitInv PROVE Within(View)
  OBVIOUS
<1>a. pass.snap.worker \in [Entries -> WorkerStatus]
  BY DEF TypeOK, Pass, Run
<1>1. CASE Dispatched = {}
  <2>1. RunningTasks(View) = RunningTasks(pass.snap.worker)
    BY <1>1 DEF RunningTasks, View, Dispatched, Entries
  <2> QED
    BY <2>1 DEF Within, LimitInv, PassWithin
<1>2. CASE Dispatched # {}
  <2> DEFINE active == RunningEntries(pass.snap.worker)
  <2>1. RunningTasks(View) \subseteq active \cup Dispatched
    BY DEF RunningTasks, RunningEntries, View, Dispatched, Entries
  <2>2. IsFiniteSet(Entries)
    BY TasksAssumption, FS_AddElement DEF Entries
  <2>3. IsFiniteSet(active) /\ IsFiniteSet(Dispatched)
    BY <2>2, TasksAssumption, FS_Subset DEF RunningEntries, Dispatched
  <2>4. /\ IsFiniteSet(active \cup Dispatched)
        /\ Cardinality(active \cup Dispatched)
             = Cardinality(active) + Cardinality(Dispatched)
                 - Cardinality(active \cap Dispatched)
    BY <2>3, FS_Union
  <2>5. IsFiniteSet(active \cap Dispatched)
    BY <2>3, FS_Subset
  <2>6. Cardinality(RunningTasks(View)) <= Cardinality(active \cup Dispatched)
    BY <2>1, <2>4, FS_Subset
  <2>7. IsFiniteSet(RunningTasks(View))
    BY <2>1, <2>4, FS_Subset
  <2>8. /\ Cardinality(active) \in Nat /\ Cardinality(Dispatched) \in Nat
        /\ Cardinality(active \cap Dispatched) \in Nat
        /\ Cardinality(active \cup Dispatched) \in Nat
        /\ Cardinality(RunningTasks(View)) \in Nat
    BY <2>3, <2>4, <2>5, <2>7, FS_CardinalityType
  <2>9. Cardinality(active) + Cardinality(Dispatched) <= MaxWorkers
    BY <1>2 DEF LimitInv, PassWithin, ActiveWorkerCount
  <2> HIDE DEF active
  <2> QED
    BY <2>4, <2>6, <2>8, <2>9, MaxWorkersAssumption DEF Within
<1> QED
  BY <1>1, <1>2

\* An empty pass is within the limit.
LEMMA NoPassWithin == pass' = NoPass => PassWithin'
<1> SUFFICES ASSUME pass' = NoPass PROVE PassWithin'
  OBVIOUS
<1>1. pass'.snap = NewRun /\ pass'.next = 0 /\ Dispatched' = {}
  BY DEF NoPass, Dispatched
<1> QED
  BY <1>1, NewRunWithin DEF PassWithin, Within

\* What is saved stays within the limit when each new snapshot is.
LEMMA SavedKept ==
  ASSUME TypeOK, LimitInv,
         disk' = disk \/ Within(disk'.worker),
         held' = held \/ Within(held'.worker),
         \A h \in Handlers : \/ req'[h].run = req[h].run
                             \/ Within(req'[h].run.worker)
  PROVE  SavedWithin'
<1>1. \A run \in Snapshots : Within(run.worker)
  BY DEF LimitInv, SavedWithin
<1>2. Within(disk'.worker) /\ Within(held'.worker)
  BY <1>1 DEF Snapshots
<1>3. \A h \in Handlers : Within(req'[h].run.worker)
  BY <1>1 DEF Snapshots
<1> QED
  BY <1>2, <1>3 DEF SavedWithin, Snapshots, Within, RunningTasks

\* Where the pass is left alone its part of the invariant stays.
LEMMA PassKept == PassWithin /\ UNCHANGED pass => PassWithin'
BY DEF PassWithin, Within, RunningTasks, Dispatched, ActiveWorkerCount, RunningEntries

\* A pass dispatches a worker only into a place that was free when it picked
\* the task, and nobody else dispatches.
LEMMA PassLimit == BaseInv /\ LimitInv /\ PassStep => LimitInv'
<1> SUFFICES ASSUME TypeOK, LimitInv, PassStep PROVE LimitInv'
  BY DEF BaseInv
<1>a. pass \in Pass /\ Within(disk.worker)
  BY DEF TypeOK, LimitInv, SavedWithin, Snapshots
<1>b. PassWithin
  BY DEF LimitInv
<1>c. SavedWithin'
  <2>1. UNCHANGED <<held, req>>
    BY DEF PassStep, PassBegin, PassPick, PassSpawn, PassSpawnFails, PassSpawnTimesOut,
           PassEnd
  <2>2. disk' = disk \/ disk' = [pass.snap EXCEPT !.worker = View]
    BY DEF PassStep, PassBegin, PassPick, PassSpawn, PassSpawnFails, PassSpawnTimesOut,
           PassEnd
  <2>3. disk' = disk \/ Within(disk'.worker)
    BY <1>a, <2>2, ViewWithin DEF Pass, Run
  <2> QED
    BY <2>1, <2>3, SavedKept
<1>d. ASSUME pass'.snap = pass.snap, pass'.mine = pass.mine
      PROVE  Dispatched' = Dispatched /\ ActiveWorkerCount' = ActiveWorkerCount
  BY <1>d DEF Dispatched, ActiveWorkerCount, RunningEntries
<1>1. CASE PassBegin
  <2>1. CASE UNCHANGED pass
    BY <1>b, <1>c, <2>1, PassKept DEF LimitInv
  <2>2. CASE pass' = [NoPass EXCEPT !.snap = disk]
    <3>1. pass'.snap = disk /\ pass'.next = 0 /\ Dispatched' = {}
      BY <2>2 DEF NoPass, Dispatched
    <3> QED
      BY <1>a, <1>c, <3>1 DEF PassWithin, LimitInv, Within
  <2> QED
    BY <1>1, <1>c, <2>1, <2>2 DEF PassBegin, LimitInv
<1>2. CASE PassPick
  <2>1. pass'.snap = pass.snap /\ pass'.mine = pass.mine
    BY <1>2, <1>a DEF PassPick, Pass
  <2>2. ActiveWorkerCount + Cardinality(Dispatched) < MaxWorkers
    BY <1>2 DEF PassPick, CanPick, CanSpawnWorker
  <2> QED
    BY <1>b, <1>c, <1>d, <2>1, <2>2 DEF PassWithin, LimitInv, Within, RunningTasks
<1>3. CASE PassSpawn
  <2> DEFINE t == PlanOrder[pass.next]
  <2>1. PICK s \in Sessions : pass' = [pass EXCEPT !.mine[t] = s, !.next = 0]
    BY <1>3 DEF PassSpawn
  <2>2. t \in Tasks
    BY <1>3, <1>a, OrderAssumption DEF PassSpawn, Provisioning, Pass
  <2> HIDE DEF t
  <2>3. pass'.snap = pass.snap /\ pass'.next = 0 /\ pass'.mine = [pass.mine EXCEPT ![t] = s]
    BY <1>a, <2>1 DEF Pass
  <2>4. Dispatched' \subseteq Dispatched \cup {t}
    BY <1>a, <2>3 DEF Dispatched, Pass
  <2>5. IsFiniteSet(Dispatched)
    BY TasksAssumption, FS_Subset DEF Dispatched
  <2>6. /\ IsFiniteSet(Dispatched \cup {t})
        /\ Cardinality(Dispatched \cup {t}) <= Cardinality(Dispatched) + 1
        /\ Cardinality(Dispatched) \in Nat
    BY <2>5, FS_AddElement, FS_CardinalityType
  <2>7. /\ Cardinality(Dispatched') <= Cardinality(Dispatched \cup {t})
        /\ Cardinality(Dispatched') \in Nat
        /\ Cardinality(Dispatched \cup {t}) \in Nat
    BY <2>4, <2>6, FS_Subset, FS_CardinalityType
  <2>8. ActiveWorkerCount' = ActiveWorkerCount /\ ActiveWorkerCount \in Nat
    <3>1. IsFiniteSet(Entries)
      BY TasksAssumption, FS_AddElement DEF Entries
    <3>2. IsFiniteSet(RunningEntries(pass.snap.worker))
      BY <3>1, FS_Subset DEF RunningEntries
    <3> QED
      BY <2>3, <3>2, FS_CardinalityType DEF ActiveWorkerCount, RunningEntries
  <2>9. ActiveWorkerCount + Cardinality(Dispatched) < MaxWorkers
    BY <1>3, <1>b DEF PassSpawn, Provisioning, PassWithin
  <2>10. ActiveWorkerCount' + Cardinality(Dispatched') <= MaxWorkers
    BY <2>6, <2>7, <2>8, <2>9, MaxWorkersAssumption
  <2> QED
    BY <1>b, <1>c, <2>3, <2>10 DEF PassWithin, LimitInv, Within, RunningTasks
<1>4. CASE PassSpawnFails \/ PassSpawnTimesOut
  <2>1. pass'.snap = pass.snap /\ pass'.mine = pass.mine /\ pass'.next = 0
    BY <1>4, <1>a DEF PassSpawnFails, PassSpawnTimesOut, Pass
  <2> QED
    BY <1>b, <1>c, <1>d, <2>1 DEF PassWithin, LimitInv, Within, RunningTasks
<1>5. CASE PassEnd
  BY <1>5, <1>c, NoPassWithin DEF PassEnd, LimitInv
<1> QED
  BY <1>1, <1>2, <1>3, <1>4, <1>5 DEF PassStep

\* The exit and conflicts jobs save what they loaded, less what has ended.
LEMMA JobLimit == BaseInv /\ LimitInv /\ JobStep => LimitInv'
<1> SUFFICES ASSUME BaseInv, LimitInv, JobStep PROVE LimitInv'
  OBVIOUS
<1>a. TypeOK /\ disk \in Run /\ held \in Run /\ sess \in [Sessions -> Session]
  BY DEF BaseInv, TypeOK
<1>b. Within(disk.worker) /\ Within(held.worker)
  BY DEF LimitInv, SavedWithin, Snapshots
<1>1. UNCHANGED <<pass, req>>
  BY DEF JobStep, ExitLoad, ExitSave, ExitFinish, ConflictsLoad, ConflictsSave
<1>2. held' = held \/ Within(held'.worker)
  <2>1. CASE ExitLoad
    <3>1. HolderSession \in Ended /\ HolderSession \in Sessions
      BY <2>1, HolderEnded DEF ExitLoad, Holds
    <3>2. /\ sess[HolderSession].task \in Tasks
          /\ sess[HolderSession].closure \in WorkerStatus
          /\ sess[HolderSession].closure # "running"
      BY <1>a, <3>1 DEF Ended, Session
    <3> QED
      BY <2>1, <3>2, <1>a, <1>b, RecordExitWithin DEF ExitLoad
  <2>2. CASE ~ExitLoad
    BY <1>b, <2>2, NewRunWithin
    DEF JobStep, ExitSave, ExitFinish, ConflictsLoad, ConflictsSave
  <2> QED
    BY <2>1, <2>2
<1>3. disk' = disk \/ Within(disk'.worker)
  <2>1. [held EXCEPT !.status = FinalStatus(held)].worker = held.worker
    BY <1>a DEF Run
  <2> QED
    BY <1>b, <2>1 DEF JobStep, ExitLoad, ExitSave, ExitFinish, ConflictsLoad, ConflictsSave
<1>4. SavedWithin'
  BY <1>a, <1>1, <1>2, <1>3, SavedKept
<1> QED
  BY <1>1, <1>4, PassKept DEF LimitInv

\* The routes, the PM's listener and the recovery save, whenever they come to
\* it, a run with no more running tasks than the one they loaded.
LEMMA HandlerLimit ==
  ASSUME BaseInv, LimitInv, NEW h \in Handlers, HandlerStep(h)
  PROVE  LimitInv'
<1>a. TypeOK /\ req \in [Handlers -> Request] /\ req[h] \in Request
  BY DEF BaseInv, TypeOK
<1>b. Within(disk.worker) /\ Within(req[h].run.worker)
  BY DEF LimitInv, SavedWithin, Snapshots
<1>c. UNCHANGED <<held, pass>>
  BY DEF HandlerStep, Load, MergeProgress, Save
<1>d. req[h].run \in Run /\ req[h].task \in Entries
  BY <1>a DEF Request
<1>e. NoRequest.run = NewRun /\ [NoRequest EXCEPT !.op = "archive"].run = NewRun
  BY DEF NoRequest
<1>1. disk' = disk \/ Within(disk'.worker)
  <2>1. CASE Load(h)
    BY <2>1 DEF Load
  <2>2. CASE MergeProgress(h)
    BY <1>b, <1>d, <2>2 DEF MergeProgress, Merging, Run
  <2>3. CASE Save(h)
    BY <1>b, <1>d, <2>3, OutcomeWithin DEF Save
  <2> QED
    BY <2>1, <2>2, <2>3 DEF HandlerStep
<1>2. \A g \in Handlers : req'[g].run = req[g].run \/ Within(req'[g].run.worker)
  <2>1. CASE Load(h)
    <3>1. req' = [req EXCEPT ![h] = Loaded(req[h])]
      BY <2>1 DEF Load
    <3>2. Loaded(req[h]).run \in {disk, NewRun}
      BY <1>a, <1>e DEF Loaded, Request
    <3>3. Within(Loaded(req[h]).run.worker)
      BY <1>b, <3>2, NewRunWithin
    <3> QED
      BY <1>a, <3>1, <3>3
  <2>2. CASE MergeProgress(h)
    <3>1. req' = [req EXCEPT ![h].op = "merging"]
      BY <2>2 DEF MergeProgress
    <3> QED
      BY <1>a, <3>1 DEF Request
  <2>3. CASE Save(h)
    <3>1. req' = [req EXCEPT ![h] = NoRequest]
            \/ req' = [req EXCEPT ![h] = [NoRequest EXCEPT !.op = "archive"]]
      BY <2>3 DEF Save
    <3> QED
      BY <1>a, <1>e, <3>1, NewRunWithin
  <2> QED
    BY <2>1, <2>2, <2>3 DEF HandlerStep
<1>3. SavedWithin'
  BY <1>a, <1>c, <1>1, <1>2, SavedKept
<1> QED
  BY <1>c, <1>3, PassKept DEF LimitInv

\* A request that arrives holds at most a copy of run.json, which is within
\* the limit.
LEMMA ArriveLimit ==
  ASSUME BaseInv, LimitInv,
         NEW c \in Clients, NEW op \in Ops, NEW t \in Entries, Arrive(c, op, t)
  PROVE  LimitInv'
<1> DEFINE r == [NoRequest EXCEPT !.op = op, !.task = t]
<1>a. TypeOK /\ req \in [Handlers -> Request] /\ Within(disk.worker)
  BY DEF BaseInv, TypeOK, LimitInv, SavedWithin, Snapshots
<1>b. UNCHANGED <<disk, held, pass>>
  BY DEF Arrive
<1>1. r.run = NewRun /\ NoRequest.run = NewRun /\ [NoRequest EXCEPT !.op = "archive"].run = NewRun
  BY DEF NoRequest
<1>2. r \in Request
  BY NewRunType, OpsAssumption DEF NoRequest, Request, HandlerOps
<1>3. req' = [req EXCEPT ![c] = IF op \in {"resume", "merge"} THEN r ELSE Loaded(r)]
  BY DEF Arrive
<1> HIDE DEF r
<1>4. Loaded(r).run \in {disk, NewRun}
  BY <1>1, <1>2 DEF Loaded, Request
<1>5. Within(r.run.worker) /\ Within(Loaded(r).run.worker)
  BY <1>a, <1>1, <1>4, NewRunWithin
<1>6. \A g \in Handlers : req'[g].run = req[g].run \/ Within(req'[g].run.worker)
  BY <1>a, <1>3, <1>5
<1>7. SavedWithin'
  BY <1>a, <1>b, <1>6, SavedKept
<1> QED
  BY <1>b, <1>7, PassKept DEF LimitInv

\* The shutdown hook holds a copy of run.json, which is within the limit.
LEMMA ShutdownLimit ==
  ASSUME BaseInv, LimitInv, NEW e \in Entries, ShutdownKills(e)
  PROVE  LimitInv'
<1>a. TypeOK /\ req \in [Handlers -> Request] /\ Within(disk.worker)
  BY DEF BaseInv, TypeOK, LimitInv, SavedWithin, Snapshots
<1>1. \A g \in Handlers : req'[g].run = req[g].run \/ Within(req'[g].run.worker)
  BY <1>a DEF ShutdownKills
<1>2. SavedWithin'
  BY <1>a, <1>1, SavedKept DEF ShutdownKills
<1> QED
  BY <1>2, PassKept DEF LimitInv, ShutdownKills

\* A restart leaves nothing but run.json.
LEMMA RebootLimit == BaseInv /\ LimitInv /\ (Crash \/ Exit) => LimitInv'
<1> SUFFICES ASSUME BaseInv, LimitInv, Crash \/ Exit PROVE LimitInv'
  OBVIOUS
<1>a. TypeOK /\ Reboot /\ disk \in Run
  BY DEF BaseInv, TypeOK, Crash, Exit
<1>b. Within(disk.worker)
  BY DEF LimitInv, SavedWithin, Snapshots
<1>1. Within(disk'.worker)
  BY <1>a, <1>b DEF Reboot
<1>2. held' = NewRun /\ pass' = NoPass
  BY <1>a DEF Reboot
<1>3. \A h \in Handlers : req'[h].run = NewRun
  BY <1>a DEF Reboot, NoRequest
<1>4. SavedWithin'
  BY <1>a, <1>1, <1>2, <1>3, NewRunWithin, SavedKept
<1> QED
  BY <1>2, <1>4, NoPassWithin DEF LimitInv

\* Where neither run.json nor a snapshot changes the limit is kept.
LEMMA QuietLimit ==
  ASSUME BaseInv, LimitInv, UNCHANGED <<disk, held, pass>>,
         \A h \in Handlers : req'[h].run = req[h].run \/ req'[h].run = NewRun
  PROVE  LimitInv'
<1>1. SavedWithin'
  BY NewRunWithin, SavedKept DEF BaseInv
<1> QED
  BY <1>1, PassKept DEF LimitInv

\* The limit invariant is inductive together with the base invariant.
LEMMA LimitStep == BaseInv /\ LimitInv /\ [Next]_vars => LimitInv'
<1> SUFFICES ASSUME BaseInv, LimitInv, [Next]_vars PROVE LimitInv'
  OBVIOUS
<1>1. CASE PassStep \/ JobStep \/ Crash \/ Exit
  BY <1>1, PassLimit, JobLimit, RebootLimit
<1>2. CASE \E s \in Sessions : SessionStep(s)
  <2>1. UNCHANGED <<disk, held, pass, req>>
    BY <1>2 DEF SessionStep, Stall, ExitClean, ExitUnclean, Validated, OrphanExits,
       ConflictScan
  <2> QED
    BY <2>1, QuietLimit
<1>3. CASE \E c \in Clients, op \in Ops, t \in Entries : Arrive(c, op, t)
  BY <1>3, ArriveLimit
<1>4. CASE \E h \in Handlers : HandlerStep(h)
  BY <1>4, HandlerLimit
<1>5. CASE PmExits
  <2>1. req' = [req EXCEPT !["pmExit"] = [NoRequest EXCEPT !.op = "pmExit"]]
    BY <1>5 DEF PmExits
  <2>2. [NoRequest EXCEPT !.op = "pmExit"].run = NewRun
    BY DEF NoRequest
  <2>3. \A h \in Handlers : req'[h].run = req[h].run \/ req'[h].run = NewRun
    BY <2>1, <2>2 DEF BaseInv, TypeOK
  <2> QED
    BY <1>5, <2>3, QuietLimit DEF PmExits
<1>6. CASE UNCHANGED vars \/ ShutdownBegins
  BY <1>6, QuietLimit DEF vars, ShutdownBegins
<1>7. CASE \E e \in Entries : ShutdownKills(e)
  BY <1>7, ShutdownLimit
<1> QED
  BY <1>1, <1>2, <1>3, <1>4, <1>5, <1>6, <1>7 DEF Next

\* Nothing that is or may yet become run.json ever goes over the limit.
LEMMA SpecLimit == Spec => []LimitInv
<1>1. Init => LimitInv
  <2> SUFFICES ASSUME Init PROVE LimitInv
    OBVIOUS
  <2>1. Snapshots \subseteq {NewRun}
    BY DEF Init, Snapshots, NoRequest
  <2>2. Dispatched = {} /\ pass.next = 0 /\ pass.snap = NewRun
    BY DEF Init, NoPass, Dispatched
  <2> QED
    BY <2>1, <2>2, NewRunWithin DEF LimitInv, SavedWithin, PassWithin
<1> QED
  BY <1>1, LimitStep, SpecBase, PTL DEF Spec

\* However requests, exits and restarts interleave with the dispatch passes,
\* and however stale what they save, no run.json and no snapshot that may yet
\* become run.json has more than MaxWorkers tasks running.
THEOREM SpecRunningWithinLimit == Spec => []RunningWithinLimit
<1>1. TypeOK /\ LimitInv => RunningWithinLimit
  BY ViewWithin DEF LimitInv, SavedWithin, Within, RunningWithinLimit
<1>2. BaseInv => TypeOK
  BY DEF BaseInv
<1> QED
  BY <1>1, <1>2, SpecBase, SpecLimit, PTL
-----------------------------------------------------------------------------
(***************************************************************************)
(* What was done before.  A task is known to have succeeded when one of    *)
(* its sessions did exit cleanly; sessions are used in order, a clean one  *)
(* is over, and everything the conductor may save, or is about to start,   *)
(* rests on tasks that are known to have succeeded.                        *)
(***************************************************************************)

Over == Phases \ {"unused", "live", "orphan"}

CleanIsOver ==
  \A s \in Sessions :
    sess[s].closure \in {"done", "validation_failed"} => sess[s].phase \in Over

UsedInOrder ==
  \A r, s \in Sessions : sess[s].phase # "unused" /\ r < s => sess[r].phase # "unused"

MineFits ==
  \A t \in Dispatched : sess[pass.mine[t]].phase # "unused" /\ sess[pass.mine[t]].task = t

DoneTasks(worker) == {t \in Tasks : worker[t] = "done"}

Known == {t \in Tasks : ExitedCleanly(t) # {}}

NextIsReady == pass.next # 0 => Deps[PlanOrder[pass.next]] \subseteq Known

HistoryInv ==
  /\ CleanIsOver /\ UsedInOrder /\ MineFits /\ NextIsReady
  /\ \A run \in Snapshots : DoneTasks(run.worker) \subseteq Known
  /\ DoneTasks(pass.snap.worker) \subseteq Known
  /\ DependenciesCameFirst

\* What a step may do to session s: nothing, spawn it for the task that is
\* being provisioned, or take it on; a clean end is the end of its process.
Moves(s) ==
  \/ sess'[s] = sess[s]
  \/ /\ Fresh(s) /\ pass.next # 0
     /\ sess'[s].task = PlanOrder[pass.next]
     /\ sess'[s].phase \in {"live", "orphan"} /\ sess'[s].closure = "running"
  \/ /\ sess[s].phase # "unused" /\ sess'[s].phase # "unused"
     /\ sess'[s].task = sess[s].task
     /\ \/ sess'[s].closure = sess[s].closure /\ sess'[s].phase \in Over
        \/ sess[s].phase = "live" /\ sess'[s].closure \in {"stuck", "failed"}
        \/ sess'[s].closure \in {"done", "validation_failed"} /\ sess'[s].phase \in Over

\* Every step moves every session in one of these ways.
LEMMA SessionMoves ==
  ASSUME BaseInv, [Next]_vars, NEW s \in Sessions
  PROVE  Moves(s)
<1>a. sess \in [Sessions -> Session] /\ sess[s] \in Session
  BY DEF BaseInv, TypeOK
<1>1. CASE PassStep
  <2>1. CASE UNCHANGED sess
    BY <2>1 DEF Moves
  <2>2. CASE PassSpawn \/ PassSpawnTimesOut
    <3>1. PICK r \in Sessions, ph \in {"live", "orphan"} :
             Fresh(r) /\ Spawned(r, PlanOrder[pass.next], ph)
      BY <2>2 DEF PassSpawn, PassSpawnTimesOut
    <3>2. pass.next # 0
      BY <2>2 DEF PassSpawn, PassSpawnTimesOut, Provisioning
    <3>3. CASE r = s
      BY <3>1, <3>2, <3>3, <1>a DEF Spawned, Moves
    <3>4. CASE r # s
      BY <3>1, <3>4, <1>a DEF Spawned, Moves
    <3> QED
      BY <3>3, <3>4
  <2> QED
    BY <1>1, <2>1, <2>2 DEF PassStep, PassBegin, PassPick, PassSpawnFails, PassEnd
<1>2. ASSUME NEW r \in Sessions, SessionStep(r) PROVE Moves(s)
  <2>1. CASE r # s
    BY <1>2, <2>1, <1>a DEF Moves, SessionStep, Stall, ExitClean, ExitUnclean, Validated,
       OrphanExits, ConflictScan
  <2>2. CASE r = s
    <3>1. CASE Stall(s)
      BY <3>1, <1>a DEF Stall, Moves, Session
    <3>2. CASE ExitClean(s)
      BY <3>2, <1>a DEF ExitClean, Moves, Session, Over, Phases
    <3>3. CASE ExitUnclean(s)
      BY <3>3, <1>a DEF ExitUnclean, Moves, Session
    <3>4. CASE Validated(s)
      BY <3>4, <1>a DEF Validated, Moves, Session, Over, Phases
    <3>5. CASE OrphanExits(s) \/ ConflictScan(s)
      BY <3>5, <1>a DEF OrphanExits, ConflictScan, Moves, Session, Over, Phases
    <3> QED
      BY <1>2, <2>2, <3>1, <3>2, <3>3, <3>4, <3>5 DEF SessionStep
  <2> QED
    BY <2>1, <2>2
<1>3. CASE JobStep
  <2>1. CASE UNCHANGED sess
    BY <2>1 DEF Moves
  <2>2. CASE ExitSave \/ ExitFinish
    <3>1. HolderSession \in Ended /\ HolderSession \in Sessions
      BY <2>2, HolderEnded DEF ExitSave, ExitFinish, Holds
    <3>2. PICK ph \in {"recorded", "scanning", "gone"} :
             sess' = [sess EXCEPT ![HolderSession].phase = ph]
      BY <2>2 DEF ExitSave, ExitFinish
    <3> QED
      BY <3>1, <3>2, <1>a DEF Moves, Ended, Over, Phases, Session
  <2> QED
    BY <1>3, <2>1, <2>2 DEF JobStep, ExitLoad, ConflictsLoad, ConflictsSave
<1>4. CASE \/ \E c \in Clients, op \in Ops, t \in Entries : Arrive(c, op, t)
           \/ \E h \in Handlers : HandlerStep(h)
           \/ PmExits \/ ShutdownBegins \/ (\E e \in Entries : ShutdownKills(e))
           \/ UNCHANGED vars
  <2>1. UNCHANGED sess
    BY <1>4 DEF Arrive, HandlerStep, Load, MergeProgress, Save, PmExits, ShutdownBegins,
       ShutdownKills, vars
  <2> QED
    BY <2>1 DEF Moves
<1>5. CASE Crash \/ Exit
  <2>1. sess'[s] = IF sess[s].phase = "unused" THEN sess[s]
                   ELSE [sess[s] EXCEPT !.phase = "gone"]
    BY <1>5 DEF Crash, Exit, Reboot
  <2> QED
    BY <2>1, <1>a DEF Moves, Session, Over, Phases
<1> QED
  BY <1>1, <1>2, <1>3, <1>4, <1>5 DEF Next

\* A clean exit is never undone: what is known to have succeeded stays known.
LEMMA KnownStays ==
  ASSUME CleanIsOver, \A s \in Sessions : Moves(s)
  PROVE  /\ CleanIsOver'
         /\ \A t \in Tasks : ExitedCleanly(t) \subseteq ExitedCleanly(t)'
         /\ Known \subseteq Known'
<1>1. CleanIsOver'
  BY DEF CleanIsOver, Moves, Over
<1>2. ASSUME NEW t \in Tasks, NEW s \in ExitedCleanly(t) PROVE s \in ExitedCleanly(t)'
  <2>1. s \in Sessions /\ Moves(s)
    BY DEF ExitedCleanly
  <2> QED
    BY <2>1 DEF ExitedCleanly, Moves, Fresh, Over
<1> QED
  BY <1>1, <1>2 DEF Known

\* Sessions that are spawned come after all that were, so after the clean
\* exits of the dependencies of their task.
LEMMA OrderStays ==
  ASSUME BaseInv, HistoryInv, \A s \in Sessions : Moves(s)
  PROVE  UsedInOrder' /\ DependenciesCameFirst'
<1>a. /\ Sessions \subseteq Int /\ pass \in Pass
      /\ \A s \in Sessions : sess[s] \in Session
  BY DEF Sessions, BaseInv, TypeOK
<1>b. UsedInOrder /\ CleanIsOver /\ DependenciesCameFirst /\ NextIsReady
  BY DEF HistoryInv
<1>c. \A t \in Tasks : ExitedCleanly(t) \subseteq ExitedCleanly(t)'
  BY <1>b, KnownStays
<1>d. ASSUME NEW s \in Sessions, sess[s].phase # "unused"
      PROVE  sess'[s].phase # "unused" /\ sess'[s].task = sess[s].task
  BY <1>d DEF Moves, Fresh
<1>e. ASSUME NEW s \in Sessions, sess[s].phase = "unused", sess'[s].phase # "unused"
      PROVE  Fresh(s) /\ pass.next # 0 /\ sess'[s].task = PlanOrder[pass.next]
  BY <1>e DEF Moves
<1>1. UsedInOrder'
  <2> SUFFICES ASSUME NEW r \in Sessions, NEW s \in Sessions,
                      sess'[s].phase # "unused", r < s
               PROVE  sess'[r].phase # "unused"
    BY DEF UsedInOrder
  <2>1. CASE sess[s].phase # "unused"
    BY <2>1, <1>b, <1>d DEF UsedInOrder
  <2>2. CASE sess[s].phase = "unused"
    <3>1. ~(s <= r)
      BY <1>a
    <3> QED
      BY <2>2, <3>1, <1>d, <1>e DEF Fresh
  <2> QED
    BY <2>1, <2>2
<1>2. DependenciesCameFirst'
  <2> SUFFICES ASSUME NEW s \in Sessions, sess'[s].phase # "unused",
                      NEW d \in Deps[sess'[s].task]
               PROVE  \E r \in ExitedCleanly(d)' : r < s
    BY DEF DependenciesCameFirst
  <2>1. CASE sess[s].phase # "unused"
    <3>1. sess'[s].task = sess[s].task /\ sess[s].task \in Tasks
      BY <2>1, <1>a, <1>d DEF Session
    <3>2. PICK r \in ExitedCleanly(d) : r < s
      BY <2>1, <3>1, <1>b DEF DependenciesCameFirst
    <3>3. d \in Tasks
      BY <3>1, DepsAssumption
    <3> QED
      BY <3>2, <3>3, <1>c
  <2>2. CASE sess[s].phase = "unused"
    <3>1. Fresh(s) /\ pass.next # 0 /\ sess'[s].task = PlanOrder[pass.next]
      BY <2>2, <1>e
    <3>2. d \in Known
      BY <3>1, <1>b DEF NextIsReady
    <3>3. PICK r \in ExitedCleanly(d) : TRUE
      BY <3>2 DEF Known
    <3>4. r \in Sessions /\ sess[r].phase # "unused"
      BY DEF ExitedCleanly
    <3>5. r # s /\ ~(s < r)
      BY <2>2, <3>4, <1>b DEF UsedInOrder
    <3>6. r < s
      BY <3>4, <3>5, <1>a
    <3> QED
      BY <3>2, <3>6, <1>c DEF Known
  <2> QED
    BY <2>1, <2>2
<1> QED
  BY <1>1, <1>2

\* An exit that is recorded adds its own task, if it was a success.
LEMMA RecordExitDone ==
  ASSUME NEW run \in Run, NEW t \in Tasks, NEW st \in WorkerStatus
  PROVE  DoneTasks(RecordExit(run, t, st).worker)
           \subseteq DoneTasks(run.worker) \cup {u \in {t} : st = "done"}
BY DEF RecordExit, PropagateBlocked, DoneTasks, Run, Entries

\* No handler saves a task as done that was not so when it loaded the run.
LEMMA OutcomeDone ==
  ASSUME NEW run \in Run, NEW op, NEW t \in Entries, NEW out, Outcome(op, t, run, out)
  PROVE  DoneTasks(out.worker) \subseteq DoneTasks(run.worker)
<1>1. CASE out = NewRun
  BY <1>1 DEF NewRun, DoneTasks, Entries
<1>2. CASE \E S \in Unblocked(run.worker) : out = Resume(run, S)
  BY <1>2 DEF Resume, DoneTasks, Entries
<1>3. CASE out = Recover(run, Alive)
  BY <1>3 DEF Recover, DoneTasks, Entries
<1>4. CASE \E st \in RunStatus : out = [run EXCEPT !.status = st]
  BY <1>4 DEF Run
<1>5. CASE \E e \in Entries, st \in WorkerStatus \ {"done"} :
             out = [run EXCEPT !.worker[e] = st]
  BY <1>5 DEF DoneTasks, Run, Entries
<1> QED
  BY <1>1, <1>2, <1>3, <1>4, <1>5 DEF Outcome, RunStatus, WorkerStatus, Entries, Approve,
     Cancel, Archive, Reopen, Kill, EndMerge, OpenPm, EndPm

\* A fresh run has nothing done.
LEMMA NewRunDone == DoneTasks(NewRun.worker) = {}
BY DEF DoneTasks, NewRun, Entries

\* What a pass sees as done, in its snapshot or at its own sessions, is known.
LEMMA ViewDone == BaseInv /\ HistoryInv => DoneTasks(View) \subseteq Known
<1> SUFFICES ASSUME BaseInv, HistoryInv, NEW t \in Tasks, View[t] = "done"
             PROVE  t \in Known
  BY DEF DoneTasks
<1>1. CASE pass.mine[t] = NoSession
  BY <1>1 DEF View, Entries, HistoryInv, DoneTasks
<1>2. CASE pass.mine[t] # NoSession
  <2>1. pass.mine[t] \in Sessions /\ sess[pass.mine[t]].closure = "done"
    BY <1>2, BoundsAssumption DEF View, Entries, BaseInv, TypeOK, Pass, NoSession, Sessions
  <2>2. sess[pass.mine[t]].task = t
    BY <1>2 DEF HistoryInv, MineFits, Dispatched
  <2> QED
    BY <2>1, <2>2 DEF HistoryInv, CleanIsOver, Known, ExitedCleanly, Over
<1> QED
  BY <1>1, <1>2

\* The parts of the invariant about what is saved and about the pass.
LEMMA HistoryKept ==
  ASSUME BaseInv, HistoryInv, [Next]_vars,
         DoneTasks(disk'.worker) \subseteq Known,
         DoneTasks(held'.worker) \subseteq Known,
         \A h \in Handlers : DoneTasks(req'[h].run.worker) \subseteq Known,
         DoneTasks(pass'.snap.worker) \subseteq Known,
         NextIsReady', MineFits'
  PROVE  HistoryInv'
<1>1. \A s \in Sessions : Moves(s)
  BY SessionMoves
<1>2. CleanIsOver' /\ Known \subseteq Known'
  BY <1>1, KnownStays DEF HistoryInv
<1>3. \A run \in Snapshots' : DoneTasks(run.worker) \subseteq Known
  BY DEF Snapshots
<1>4. \A run \in Snapshots' : DoneTasks(run.worker) \subseteq Known'
  BY <1>2, <1>3
<1> QED
  BY <1>1, <1>2, <1>4, OrderStays DEF HistoryInv, DoneTasks

\* Where the pass is left alone, or is over, nothing more has to be shown of it.
LEMMA PassHistoryKept ==
  ASSUME BaseInv, HistoryInv, [Next]_vars, UNCHANGED pass \/ pass' = NoPass
  PROVE  /\ DoneTasks(pass'.snap.worker) \subseteq Known
         /\ NextIsReady' /\ MineFits'
<1>1. \A s \in Sessions : Moves(s)
  BY SessionMoves
<1>2. Known \subseteq Known'
  BY <1>1, KnownStays DEF HistoryInv
<1>3. CASE pass' = NoPass
  <2>1. pass'.snap = NewRun /\ pass'.next = 0 /\ Dispatched' = {}
    BY <1>3 DEF NoPass, Dispatched
  <2> QED
    BY <2>1, NewRunDone DEF NextIsReady, MineFits
<1>4. CASE UNCHANGED pass
  <2>1. MineFits'
    <3> SUFFICES ASSUME NEW t \in Dispatched
                 PROVE  sess'[pass.mine[t]].phase # "unused" /\ sess'[pass.mine[t]].task = t
      BY <1>4 DEF MineFits, Dispatched
    <3>1. pass.mine[t] \in Sessions
      BY BoundsAssumption DEF Dispatched, BaseInv, TypeOK, Pass, NoSession, Sessions
    <3> QED
      BY <1>1, <3>1 DEF HistoryInv, MineFits, Moves, Fresh
  <2>2. NextIsReady'
    BY <1>2, <1>4 DEF HistoryInv, NextIsReady
  <2> QED
    BY <1>4, <2>1, <2>2 DEF HistoryInv
<1> QED
  BY <1>3, <1>4

\* A pass picks a task whose dependencies it sees as done, and saves what it
\* loaded and what its own sessions have come to.
LEMMA PassHistory == BaseInv /\ HistoryInv /\ PassStep => HistoryInv'
<1> SUFFICES ASSUME BaseInv, HistoryInv, PassStep PROVE HistoryInv'
  OBVIOUS
<1>a. pass \in Pass /\ sess \in [Sessions -> Session] /\ [Next]_vars
  BY DEF BaseInv, TypeOK, Next
<1>b. /\ DoneTasks(disk.worker) \subseteq Known
      /\ DoneTasks(held.worker) \subseteq Known
      /\ \A h \in Handlers : DoneTasks(req[h].run.worker) \subseteq Known
      /\ DoneTasks(pass.snap.worker) \subseteq Known
  BY DEF HistoryInv, Snapshots
<1>c. UNCHANGED <<held, req>>
  BY DEF PassStep, PassBegin, PassPick, PassSpawn, PassSpawnFails, PassSpawnTimesOut, PassEnd
<1>d. \A s \in Sessions : Moves(s)
  BY <1>a, SessionMoves
<1>e. Known \subseteq Known'
  BY <1>d, KnownStays DEF HistoryInv
<1>f. DoneTasks(disk'.worker) \subseteq Known
  <2>1. CASE disk' = disk
    BY <1>b, <2>1
  <2>2. CASE disk' = [pass.snap EXCEPT !.worker = View]
    <3>1. disk'.worker = View
      BY <1>a, <2>2 DEF Pass, Run
    <3> QED
      BY <3>1, ViewDone
  <2> QED
    BY <2>1, <2>2 DEF PassStep, PassBegin, PassPick, PassSpawn, PassSpawnFails,
       PassSpawnTimesOut, PassEnd
<1>g. \A t \in Dispatched : /\ sess'[pass.mine[t]].phase # "unused"
                            /\ sess'[pass.mine[t]].task = t
  <2> SUFFICES ASSUME NEW t \in Dispatched
               PROVE  sess'[pass.mine[t]].phase # "unused" /\ sess'[pass.mine[t]].task = t
    OBVIOUS
  <2>1. pass.mine[t] \in Sessions
    BY <1>a, BoundsAssumption DEF Dispatched, Pass, NoSession, Sessions
  <2> QED
    BY <1>d, <2>1 DEF HistoryInv, MineFits, Moves, Fresh
<1>1. CASE UNCHANGED pass \/ pass' = NoPass
  BY <1>1, <1>a, <1>b, <1>c, <1>f, PassHistoryKept, HistoryKept
<1>2. CASE PassBegin /\ pass' = [NoPass EXCEPT !.snap = disk]
  <2>1. pass'.snap = disk /\ pass'.next = 0 /\ Dispatched' = {}
    BY <1>2 DEF NoPass, Dispatched
  <2> QED
    BY <1>a, <1>b, <1>c, <1>f, <2>1, HistoryKept DEF NextIsReady, MineFits
<1>3. CASE PassPick
  <2>1. PICK j \in ReadyFrom(View, pass.at) : pass' = [pass EXCEPT !.next = j, !.at = j + 1]
    BY <1>3 DEF PassPick
  <2>2. pass'.snap = pass.snap /\ pass'.mine = pass.mine /\ pass'.next = j
    BY <1>a, <2>1 DEF Pass
  <2>3. j \in 1..Len(PlanOrder)
    BY <1>a, PlanLength DEF ReadyFrom, Pass
  <2>4. PlanOrder[j] \in Tasks /\ Deps[PlanOrder[j]] \subseteq Tasks
    BY <2>3, OrderAssumption, DepsAssumption
  <2>5. Deps[PlanOrder[j]] \subseteq DoneTasks(View)
    BY <2>4 DEF ReadyFrom, DepsReady, DoneTasks
  <2>6. Deps[PlanOrder[j]] \subseteq Known'
    BY <1>e, <2>5, ViewDone
  <2>7. NextIsReady' /\ MineFits'
    BY <1>g, <2>2, <2>6 DEF NextIsReady, MineFits, Dispatched
  <2> QED
    BY <1>a, <1>b, <1>c, <1>f, <2>2, <2>7, HistoryKept
<1>4. CASE PassSpawn
  <2> DEFINE t == PlanOrder[pass.next]
  <2>1. PICK s \in Sessions : /\ Spawned(s, t, "live")
                             /\ pass' = [pass EXCEPT !.mine[t] = s, !.next = 0]
    BY <1>4 DEF PassSpawn
  <2>2. t \in Tasks
    BY <1>4, <1>a, OrderAssumption DEF PassSpawn, Provisioning, Pass
  <2>3. sess'[s].task = t /\ sess'[s].phase # "unused"
    BY <1>a, <2>1 DEF Spawned
  <2> HIDE DEF t
  <2>4. pass'.snap = pass.snap /\ pass'.next = 0 /\ pass'.mine = [pass.mine EXCEPT ![t] = s]
    BY <1>a, <2>1 DEF Pass
  <2>5. MineFits'
    BY <1>a, <1>g, <2>2, <2>3, <2>4 DEF MineFits, Dispatched, Pass
  <2> QED
    BY <1>a, <1>b, <1>c, <1>f, <2>4, <2>5, HistoryKept DEF NextIsReady
<1>5. CASE PassSpawnFails \/ PassSpawnTimesOut
  <2>1. pass'.snap = pass.snap /\ pass'.mine = pass.mine /\ pass'.next = 0
    BY <1>5, <1>a DEF PassSpawnFails, PassSpawnTimesOut, Pass
  <2>2. NextIsReady' /\ MineFits'
    BY <1>g, <2>1 DEF NextIsReady, MineFits, Dispatched
  <2> QED
    BY <1>a, <1>b, <1>c, <1>f, <2>1, <2>2, HistoryKept
<1> QED
  BY <1>1, <1>2, <1>3, <1>4, <1>5 DEF PassStep, PassBegin, PassEnd

\* An exit job records a success only of the session that ended with it.
LEMMA JobHistory == BaseInv /\ HistoryInv /\ JobStep => HistoryInv'
<1> SUFFICES ASSUME BaseInv, HistoryInv, JobStep PROVE HistoryInv'
  OBVIOUS
<1>a. /\ disk \in Run /\ held \in Run /\ sess \in [Sessions -> Session]
      /\ [Next]_vars /\ UNCHANGED <<pass, req>>
  BY DEF BaseInv, TypeOK, Next, JobStep, ExitLoad, ExitSave, ExitFinish, ConflictsLoad,
         ConflictsSave
<1>b. /\ DoneTasks(disk.worker) \subseteq Known
      /\ DoneTasks(held.worker) \subseteq Known
      /\ \A h \in Handlers : DoneTasks(req[h].run.worker) \subseteq Known
  BY DEF HistoryInv, Snapshots
<1>1. DoneTasks(held'.worker) \subseteq Known
  <2>1. CASE ExitLoad
    <3>1. HolderSession \in Sessions
      BY <2>1, HolderEnded DEF ExitLoad, Holds
    <3>2. sess[HolderSession].task \in Tasks /\ sess[HolderSession].closure \in WorkerStatus
      BY <1>a, <3>1 DEF Session
    <3>3. sess[HolderSession].closure = "done" => sess[HolderSession].task \in Known
      BY <3>1, <3>2 DEF HistoryInv, CleanIsOver, Over, Known, ExitedCleanly
    <3>4. held' = RecordExit(disk, sess[HolderSession].task, sess[HolderSession].closure)
      BY <2>1 DEF ExitLoad
    <3> DEFINE t == sess[HolderSession].task
               st == sess[HolderSession].closure
    <3> HIDE DEF t, st
    <3>5. DoneTasks(RecordExit(disk, t, st).worker)
            \subseteq DoneTasks(disk.worker) \cup {u \in {t} : st = "done"}
      BY <1>a, <3>2, RecordExitDone DEF t, st
    <3> QED
      BY <1>b, <3>3, <3>4, <3>5 DEF t, st
  <2>2. CASE ~ExitLoad
    BY <1>b, <2>2, NewRunDone
    DEF JobStep, ExitSave, ExitFinish, ConflictsLoad, ConflictsSave
  <2> QED
    BY <2>1, <2>2
<1>2. DoneTasks(disk'.worker) \subseteq Known
  <2>1. [held EXCEPT !.status = FinalStatus(held)].worker = held.worker
    BY <1>a DEF Run
  <2> QED
    BY <1>b, <2>1 DEF JobStep, ExitLoad, ExitSave, ExitFinish, ConflictsLoad, ConflictsSave
<1> QED
  BY <1>a, <1>b, <1>1, <1>2, PassHistoryKept, HistoryKept

\* The handlers save, at any time, successes that were known when they loaded.
LEMMA HandlerHistory ==
  ASSUME BaseInv, HistoryInv, NEW h \in Handlers, HandlerStep(h)
  PROVE  HistoryInv'
<1>a. /\ req \in [Handlers -> Request] /\ req[h] \in Request
      /\ [Next]_vars /\ UNCHANGED <<held, pass>>
  BY DEF BaseInv, TypeOK, Next, HandlerStep, Load, MergeProgress, Save
<1>b. /\ DoneTasks(disk.worker) \subseteq Known
      /\ DoneTasks(held.worker) \subseteq Known
      /\ \A g \in Handlers : DoneTasks(req[g].run.worker) \subseteq Known
  BY DEF HistoryInv, Snapshots
<1>c. req[h].run \in Run /\ req[h].task \in Entries
  BY <1>a DEF Request
<1>d. NoRequest.run = NewRun /\ [NoRequest EXCEPT !.op = "archive"].run = NewRun
  BY DEF NoRequest
<1>1. DoneTasks(disk'.worker) \subseteq Known
  <2>1. CASE disk' = disk
    BY <1>b, <2>1
  <2>2. CASE MergeProgress(h)
    BY <1>b, <1>c, <2>2 DEF MergeProgress, Merging, Run
  <2>3. CASE Save(h)
    BY <1>b, <1>c, <2>3, OutcomeDone DEF Save
  <2> QED
    BY <2>1, <2>2, <2>3 DEF HandlerStep, Load
<1>2. \A g \in Handlers : DoneTasks(req'[g].run.worker) \subseteq Known
  <2>1. CASE Load(h)
    <3>1. req' = [req EXCEPT ![h] = Loaded(req[h])]
      BY <2>1 DEF Load
    <3>2. Loaded(req[h]).run \in {disk, NewRun}
      BY <1>a, <1>d DEF Loaded, Request
    <3>3. DoneTasks(Loaded(req[h]).run.worker) \subseteq Known
      BY <1>b, <3>2, NewRunDone
    <3> QED
      BY <1>a, <1>b, <3>1, <3>3
  <2>2. CASE MergeProgress(h)
    <3>1. req' = [req EXCEPT ![h].op = "merging"]
      BY <2>2 DEF MergeProgress
    <3>2. \A g \in Handlers : req'[g].run = req[g].run
      BY <1>a, <3>1 DEF Request
    <3> QED
      BY <1>b, <3>2
  <2>3. CASE Save(h)
    <3>1. req' = [req EXCEPT ![h] = NoRequest]
            \/ req' = [req EXCEPT ![h] = [NoRequest EXCEPT !.op = "archive"]]
      BY <2>3 DEF Save
    <3>2. \A g \in Handlers : req'[g].run = req[g].run \/ req'[g].run = NewRun
      BY <1>a, <1>d, <3>1
    <3> QED
      BY <1>b, <3>2, NewRunDone
  <2> QED
    BY <2>1, <2>2, <2>3 DEF HandlerStep
<1> QED
  BY <1>a, <1>b, <1>1, <1>2, PassHistoryKept, HistoryKept

\* A request that arrives holds nothing but a copy of run.json.
LEMMA ArriveHistory ==
  ASSUME BaseInv, HistoryInv,
         NEW c \in Clients, NEW op \in Ops, NEW t \in Entries, Arrive(c, op, t)
  PROVE  HistoryInv'
<1> DEFINE r == [NoRequest EXCEPT !.op = op, !.task = t]
<1>a. req \in [Handlers -> Request] /\ [Next]_vars /\ UNCHANGED <<disk, held, pass>>
  BY DEF BaseInv, TypeOK, Next, Arrive
<1>b. /\ DoneTasks(disk.worker) \subseteq Known
      /\ DoneTasks(held.worker) \subseteq Known
      /\ \A g \in Handlers : DoneTasks(req[g].run.worker) \subseteq Known
  BY DEF HistoryInv, Snapshots
<1>1. r.run = NewRun /\ NoRequest.run = NewRun /\ [NoRequest EXCEPT !.op = "archive"].run = NewRun
  BY DEF NoRequest
<1>2. r \in Request
  BY NewRunType, OpsAssumption DEF NoRequest, Request, HandlerOps
<1>3. req' = [req EXCEPT ![c] = IF op \in {"resume", "merge"} THEN r ELSE Loaded(r)]
  BY DEF Arrive
<1> HIDE DEF r
<1>4. Loaded(r).run \in {disk, NewRun}
  BY <1>1, <1>2 DEF Loaded, Request
<1>5. \A g \in Handlers : req'[g].run \in {req[g].run, disk, NewRun}
  BY <1>a, <1>1, <1>3, <1>4
<1>6. \A g \in Handlers : DoneTasks(req'[g].run.worker) \subseteq Known
  BY <1>b, <1>5, NewRunDone
<1> QED
  BY <1>a, <1>b, <1>6, PassHistoryKept, HistoryKept

\* The shutdown hook holds nothing but a copy of run.json.
LEMMA ShutdownHistory ==
  ASSUME BaseInv, HistoryInv, NEW e \in Entries, ShutdownKills(e)
  PROVE  HistoryInv'
<1>a. /\ req \in [Handlers -> Request]
      /\ [Next]_vars /\ UNCHANGED <<disk, held, pass>>
  BY DEF BaseInv, TypeOK, Next, ShutdownKills
<1>b. /\ DoneTasks(disk.worker) \subseteq Known
      /\ DoneTasks(held.worker) \subseteq Known
      /\ \A g \in Handlers : DoneTasks(req[g].run.worker) \subseteq Known
  BY DEF HistoryInv, Snapshots
<1>1. \A g \in Handlers : req'[g].run \in {req[g].run, disk}
  BY <1>a DEF ShutdownKills
<1>2. \A g \in Handlers : DoneTasks(req'[g].run.worker) \subseteq Known
  BY <1>b, <1>1
<1> QED
  BY <1>a, <1>b, <1>2, PassHistoryKept, HistoryKept

\* A restart keeps run.json and all clean exits.
LEMMA RebootHistory == BaseInv /\ HistoryInv /\ (Crash \/ Exit) => HistoryInv'
<1> SUFFICES ASSUME BaseInv, HistoryInv, Crash \/ Exit PROVE HistoryInv'
  OBVIOUS
<1>a. Reboot /\ disk \in Run /\ [Next]_vars
  BY DEF BaseInv, TypeOK, Crash, Exit, Next
<1>b. DoneTasks(disk.worker) \subseteq Known
  BY DEF HistoryInv, Snapshots
<1>1. DoneTasks(disk'.worker) \subseteq DoneTasks(disk.worker)
  BY <1>a DEF Reboot
<1>2. held' = NewRun /\ pass' = NoPass
  BY <1>a DEF Reboot
<1>3. \A h \in Handlers : req'[h].run = NewRun
  BY <1>a DEF Reboot, NoRequest
<1> QED
  BY <1>a, <1>b, <1>1, <1>2, <1>3, NewRunDone, PassHistoryKept, HistoryKept

\* The history is kept by every step.
LEMMA HistoryStep == BaseInv /\ HistoryInv /\ [Next]_vars => HistoryInv'
<1> SUFFICES ASSUME BaseInv, HistoryInv, [Next]_vars PROVE HistoryInv'
  OBVIOUS
<1>a. /\ DoneTasks(disk.worker) \subseteq Known
      /\ DoneTasks(held.worker) \subseteq Known
      /\ \A h \in Handlers : DoneTasks(req[h].run.worker) \subseteq Known
  BY DEF HistoryInv, Snapshots
<1>1. CASE PassStep \/ JobStep \/ Crash \/ Exit
  BY <1>1, PassHistory, JobHistory, RebootHistory
<1>2. CASE \E c \in Clients, op \in Ops, t \in Entries : Arrive(c, op, t)
  BY <1>2, ArriveHistory
<1>3. CASE \E h \in Handlers : HandlerStep(h)
  BY <1>3, HandlerHistory
<1>4. CASE (\E s \in Sessions : SessionStep(s)) \/ ShutdownBegins \/ UNCHANGED vars
  <2>1. UNCHANGED <<disk, held, pass, req>>
    BY <1>4 DEF SessionStep, Stall, ExitClean, ExitUnclean, Validated, OrphanExits,
       ConflictScan, ShutdownBegins, vars
  <2> QED
    BY <1>a, <2>1, PassHistoryKept, HistoryKept
<1>5. CASE PmExits
  <2>1. req' = [req EXCEPT !["pmExit"] = [NoRequest EXCEPT !.op = "pmExit"]]
    BY <1>5 DEF PmExits
  <2>2. [NoRequest EXCEPT !.op = "pmExit"].run = NewRun
    BY DEF NoRequest
  <2>3. \A h \in Handlers : req'[h].run = req[h].run \/ req'[h].run = NewRun
    BY <2>1, <2>2 DEF BaseInv, TypeOK
  <2>4. UNCHANGED <<disk, held, pass>>
    BY <1>5 DEF PmExits
  <2> QED
    BY <1>a, <2>3, <2>4, NewRunDone, PassHistoryKept, HistoryKept
<1>6. CASE \E e \in Entries : ShutdownKills(e)
  BY <1>6, ShutdownHistory
<1> QED
  BY <1>1, <1>2, <1>3, <1>4, <1>5, <1>6 DEF Next

\* Before the first request there is no history.
LEMMA InitHistory == Init => HistoryInv
<1> SUFFICES ASSUME Init PROVE HistoryInv
  OBVIOUS
<1>1. Snapshots \subseteq {NewRun} /\ pass.snap = NewRun
  BY DEF Init, Snapshots, NoRequest, NoPass
<1>2. Dispatched = {} /\ pass.next = 0
  BY DEF Init, NoPass, Dispatched
<1>3. \A s \in Sessions : sess[s].phase = "unused" /\ sess[s].closure = "none"
  BY DEF Init, Unspawned
<1> QED
  BY <1>1, <1>2, <1>3, NewRunDone
  DEF HistoryInv, CleanIsOver, UsedInOrder, MineFits, NextIsReady, DependenciesCameFirst

\* The invariant under the two properties that follow.
THEOREM SpecHistory == Spec => []HistoryInv
BY InitHistory, HistoryStep, SpecBase, PTL DEF Spec

\* Whatever requests, stale saves, exits and restarts interleave, no run.json
\* and no snapshot that may become run.json calls a task done of which no
\* session has exited cleanly.
THEOREM SpecDoneWasEarned == Spec => []DoneWasEarned
<1>1. HistoryInv => DoneWasEarned
  BY DEF HistoryInv, DoneWasEarned, DoneTasks, Known
<1> QED
  BY <1>1, SpecHistory, PTL

\* And every session was spawned after a clean exit of a session of each of
\* the dependencies of its task.
THEOREM SpecDependenciesCameFirst == Spec => []DependenciesCameFirst
<1>1. HistoryInv => DependenciesCameFirst
  BY DEF HistoryInv
<1> QED
  BY <1>1, SpecHistory, PTL
=============================================================================
