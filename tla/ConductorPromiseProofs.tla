----------------------- MODULE ConductorPromiseProofs -----------------------
(***************************************************************************)
(* The conductor implements TaskScheduler when approve and resume come one *)
(* at a time: its initial state maps to one of the promise's, and each of  *)
(* its steps to a step of the promise or to none.                          *)
(***************************************************************************)
EXTENDS ConductorSerialProofs

\* What a session at work, and the entry of a task without one, say of a task.
Work(s) ==
  IF sess[s].phase = "live" /\ sess[s].closure = "running" THEN "active"
  ELSE IF sess[s].closure \in {"stuck", "failed"} THEN "ending" ELSE "exited"

Rest(w) ==
  IF w = "none" THEN "idle" ELSE IF w = "done" THEN "succeeded"
  ELSE IF w = "blocked" THEN "blocked"
  ELSE IF w \in {"running", "interrupted"} THEN "lost" ELSE "failed"

\* While the server is not shutting down the promise speaks of the run as it is.
Awake == PromisedPhase = disk.status /\ PromisedJob = [t \in Tasks |-> JobOf(t)]

Free(t) == \A s \in AtWork : sess[s].task # t

\* The mapping of the refinement, read off the sessions and the entries.
Shape ==
  /\ \A s \in AtWork : sess[s].task \in Tasks /\ JobOf(sess[s].task) = Work(s)
  /\ \A t \in Tasks : Free(t) => JobOf(t) = Rest(disk.worker[t])

\* The mapping is what it looks like: each job is that of the one session at
\* work on the task, or the rest that the entry tells.
LEMMA JobShape == BaseInv /\ SerialInv => Shape
<1> SUFFICES ASSUME BaseInv, SerialInv PROVE Shape
  OBVIOUS
<1>1. ASSUME NEW s \in AtWork
      PROVE  sess[s].task \in Tasks /\ JobOf(sess[s].task) = Work(s)
  <2>1. sess[s].task \in Tasks
    BY DEF AtWork, BaseInv, TypeOK, Session
  <2>2. {r \in AtWork : sess[r].task = sess[s].task} = {s}
    BY DEF SerialInv, OneWorker
  <2>3. (CHOOSE r \in {s} : TRUE) = s
    OBVIOUS
  <2> QED
    BY <2>1, <2>2, <2>3 DEF JobOf, Work
<1>2. ASSUME NEW t \in Tasks, Free(t) PROVE JobOf(t) = Rest(disk.worker[t])
  <2>1. {r \in AtWork : sess[r].task = t} = {}
    BY <1>2 DEF Free
  <2> QED
    BY <2>1 DEF JobOf, Rest
<1> QED
  BY <1>1, <1>2 DEF Shape

\* The state the promise sees, by whether the server is shutting down.
LEMMA WhatIsPromised ==
  /\ ~hook.stopping => Awake
  /\ hook.stopping => /\ PromisedPhase = "stopping"
                      /\ \A t \in Tasks : PromisedJob[t] = IF t \notin hook.settled THEN "lost"
                                                           ELSE JobOf(t)
BY DEF Awake, PromisedPhase, PromisedJob

-----------------------------------------------------------------------------
(***************************************************************************)
(* The steps of the promise, by what they do to the jobs.                  *)
(***************************************************************************)

PromisedStep == [Promise!Next]_(Promise!vars)

\* Nothing that the promise speaks of has changed.
LEMMA Stutters ==
  ASSUME Awake, Awake', disk'.status = disk.status, \A t \in Tasks : JobOf(t)' = JobOf(t)
  PROVE  PromisedStep
<1>1. [t \in Tasks |-> JobOf(t)]' = [t \in Tasks |-> JobOf(t)]
  OBVIOUS
<1> QED
  BY <1>1 DEF Awake, PromisedStep, Promise!vars

\* The sessions and the entries of one task at most have changed.
LEMMA JobsKept ==
  ASSUME Shape, Shape', AtWork' = AtWork,
         \A s \in AtWork : sess'[s].task = sess[s].task /\ Work(s)' = Work(s),
         \A t \in Tasks : Free(t) => Rest(disk'.worker[t]) = Rest(disk.worker[t])
  PROVE  \A t \in Tasks : JobOf(t)' = JobOf(t)
<1> SUFFICES ASSUME NEW t \in Tasks PROVE JobOf(t)' = JobOf(t)
  OBVIOUS
<1>1. CASE Free(t)
  <2>1. Free(t)'
    BY <1>1 DEF Free
  <2>2. JobOf(t) = Rest(disk.worker[t]) /\ JobOf(t)' = Rest(disk'.worker[t])
    BY <1>1, <2>1 DEF Shape, Rest
  <2> QED
    BY <1>1, <2>2
<1>2. CASE ~Free(t)
  <2>1. PICK s \in AtWork : sess[s].task = t
    BY <1>2 DEF Free
  <2> QED
    BY <2>1 DEF Shape
<1> QED
  BY <1>1, <1>2

\* One job has changed.
LEMMA OneJobMoves ==
  ASSUME Awake, Awake', disk'.status = disk.status, NEW t \in Tasks,
         \A u \in Tasks \ {t} : JobOf(u)' = JobOf(u),
         \/ JobOf(t) = "active" /\ JobOf(t)' = "ending"
         \/ JobOf(t) \in {"active", "ending"} /\ JobOf(t)' = "exited"
         \/ JobOf(t) = "exited" /\ JobOf(t)' = "succeeded"
         \/ JobOf(t)' = JobOf(t)
  PROVE  PromisedStep
<1> DEFINE jobs == [u \in Tasks |-> JobOf(u)]
<1>1. jobs' = [jobs EXCEPT ![t] = JobOf(t)']
  OBVIOUS
<1>2. jobs[t] = JobOf(t)
  OBVIOUS
<1> HIDE DEF jobs
<1>3. CASE JobOf(t) = "active" /\ JobOf(t)' = "ending"
  <2>1. Promise!GiveOut(t)
    BY <1>1, <1>2, <1>3 DEF Awake, Promise!GiveOut, jobs
  <2> QED
    BY <2>1 DEF PromisedStep, Promise!Next
<1>4. CASE JobOf(t) \in {"active", "ending"} /\ JobOf(t)' = "exited"
  <2>1. Promise!ExitCleanly(t)
    BY <1>1, <1>2, <1>4 DEF Awake, Promise!ExitCleanly, jobs
  <2> QED
    BY <2>1 DEF PromisedStep, Promise!Next
<1>5. CASE JobOf(t) = "exited" /\ JobOf(t)' = "succeeded"
  <2>1. Promise!Succeed(t)
    BY <1>1, <1>2, <1>5 DEF Awake, Promise!Succeed, jobs
  <2> QED
    BY <2>1 DEF PromisedStep, Promise!Next
<1>6. CASE JobOf(t)' = JobOf(t)
  BY <1>6, Stutters
<1> QED
  BY <1>3, <1>4, <1>5, <1>6

-----------------------------------------------------------------------------
(***************************************************************************)
(* The pass.                                                               *)
(***************************************************************************)

\* The promise counts as the conductor does.
LEMMA SameCardinality == \A S : Promise!Cardinality(S) = Cardinality(S)
BY DEF Awake, Promise!Cardinality, Cardinality

\* Fewer tasks are active than the pass has counted.
LEMMA ActiveCounted ==
  ASSUME Awake, BaseInv, SerialInv, LimitInv, Provisioning
  PROVE  Promise!Cardinality(Promise!In({"active"})) < MaxWorkers
<1> DEFINE active == Promise!In({"active"})
           running == RunningEntries(pass.snap.worker)
<1>1. stage = "passing" /\ pass.snap = disk /\ pass.next # 0
  BY InPass DEF Provisioning
<1>2. active \subseteq running \cup Dispatched
  <2> SUFFICES ASSUME NEW t \in Tasks, JobOf(t) = "active", pass.mine[t] = NoSession
               PROVE  disk.worker[t] = "running"
    BY <1>1 DEF Awake, Promise!In, RunningEntries, Dispatched, Entries
  <2>1. ~Free(t)
    BY JobShape DEF Shape, Rest
  <2>2. PICK s \in AtWork : sess[s].task = t
    BY <2>1 DEF Free
  <2>3. Work(s) = "active" /\ s # NoSession
    BY <2>2, JobShape, BoundsAssumption DEF Shape, AtWork, Sessions, NoSession
  <2> QED
    BY <2>2, <2>3 DEF SerialInv, Books, EntryFits, Work
<1>3. IsFiniteSet(running) /\ IsFiniteSet(Dispatched)
  <2>1. IsFiniteSet(Entries)
    BY TasksAssumption, FS_AddElement DEF Entries
  <2> QED
    BY <2>1, TasksAssumption, FS_Subset DEF RunningEntries, Dispatched
<1>4. Cardinality(running) + Cardinality(Dispatched) < MaxWorkers
  BY <1>1 DEF LimitInv, PassWithin, ActiveWorkerCount
<1> HIDE DEF active, running
<1>5. /\ IsFiniteSet(running \cup Dispatched)
      /\ Cardinality(running \cup Dispatched) <= Cardinality(running) + Cardinality(Dispatched)
  <2>1. /\ IsFiniteSet(running \cup Dispatched)
        /\ Cardinality(running \cup Dispatched) =
             Cardinality(running) + Cardinality(Dispatched) - Cardinality(running \cap Dispatched)
    BY <1>3, FS_Union
  <2>2. IsFiniteSet(running \cap Dispatched)
    BY <1>3, FS_Subset
  <2>3. /\ Cardinality(running \cap Dispatched) \in Nat
        /\ Cardinality(running) \in Nat /\ Cardinality(Dispatched) \in Nat
    BY <1>3, <2>2, FS_CardinalityType
  <2> QED
    BY <2>1, <2>3
<1>6. Cardinality(active) <= Cardinality(running \cup Dispatched) /\ IsFiniteSet(active)
  BY <1>2, <1>5, FS_Subset
<1>7. /\ Cardinality(active) \in Nat /\ Cardinality(running \cup Dispatched) \in Nat
      /\ Cardinality(running) \in Nat /\ Cardinality(Dispatched) \in Nat
  BY <1>3, <1>5, <1>6, FS_CardinalityType
<1>8. Cardinality(active) < MaxWorkers
  BY <1>4, <1>5, <1>6, <1>7, MaxWorkersAssumption
<1> QED
  BY <1>8, SameCardinality DEF active

\* The dependencies of the task being provisioned have exited or succeeded.
LEMMA DepsExited ==
  ASSUME Awake, BaseInv, SerialInv, Provisioning
  PROVE  Deps[PlanOrder[pass.next]] \subseteq Promise!In({"exited", "succeeded"})
<1> SUFFICES ASSUME NEW d \in Deps[PlanOrder[pass.next]]
             PROVE  d \in Tasks /\ JobOf(d) \in {"exited", "succeeded"}
  BY DEF Awake, Promise!In
<1>1. d \in Tasks
  BY NextIsFree, DepsAssumption
<1>2. pass.snap = disk /\ pass.next # 0
  BY InPass DEF Provisioning
<1>3. \A s \in AtWork : sess[s].closure \in {"done", "validation_failed"} => Work(s) = "exited"
  BY DEF SerialInv, Books, Work
<1>4. CASE pass.mine[d] # NoSession
  <2>1. /\ pass.mine[d] \in AtWork /\ sess[pass.mine[d]].task = d
        /\ sess[pass.mine[d]].closure \in {"done", "validation_failed"}
    BY <1>1, <1>2, <1>4 DEF SerialInv, PassFits, PickIsReady, Dispatched
  <2> QED
    BY <1>1, <1>3, <2>1, JobShape DEF Shape
<1>5. CASE pass.mine[d] = NoSession
  <2>1. disk.worker[d] = "done"
    BY <1>2, <1>5 DEF SerialInv, PickIsReady
  <2>2. CASE Free(d)
    BY <1>1, <2>1, <2>2, JobShape DEF Shape, Rest
  <2>3. CASE ~Free(d)
    <3>1. PICK s \in AtWork : sess[s].task = d
      BY <2>3 DEF Free
    <3>2. s # NoSession
      BY BoundsAssumption DEF AtWork, Sessions, NoSession
    <3>3. sess[s].closure \in {"done", "validation_failed"}
      BY <1>5, <2>1, <3>1, <3>2 DEF SerialInv, Books, EntryFits
    <3> QED
      BY <1>1, <1>3, <3>1, <3>3, JobShape DEF Shape
  <2> QED
    BY <2>2, <2>3
<1> QED
  BY <1>1, <1>4, <1>5

\* The spawn of a worker is the start of its task.
LEMMA SpawnStarts ==
  ASSUME Awake, Awake', BaseInv, SerialInv, LimitInv, Shape', PassSpawn
  PROVE  PromisedStep
<1> DEFINE jobs == [u \in Tasks |-> JobOf(u)]
<1>1. Provisioning /\ UNCHANGED disk /\ sess \in [Sessions -> Session]
  BY DEF PassSpawn, BaseInv, TypeOK
<1>a. PICK t \in Tasks : t = PlanOrder[pass.next]
  BY <1>1, NextIsFree
<1>2. disk.worker[t] = "none" /\ Free(t) /\ disk.status = "running"
  BY <1>1, <1>a, NextIsFree, InPass DEF Free, Provisioning
<1>3. PICK s \in Sessions : Fresh(s) /\ Spawned(s, t, "live")
  BY <1>a DEF PassSpawn
<1>4. /\ AtWork' = AtWork \cup {s}
      /\ sess'[s] = [task |-> t, phase |-> "live", closure |-> "running"]
      /\ \A r \in AtWork : sess'[r] = sess[r]
  BY <1>1, <1>3 DEF Fresh, Spawned, AtWork
<1>5. JobOf(t) = "idle"
  BY <1>2, JobShape DEF Shape, Rest
<1>6. JobOf(t)' = "active"
  BY <1>4 DEF Shape, Work
<1>7. ASSUME NEW u \in Tasks, u # t PROVE JobOf(u)' = JobOf(u)
  <2>1. CASE Free(u)
    <3>1. Free(u)'
      BY <1>4, <1>7, <2>1 DEF Free
    <3>2. JobOf(u)' = Rest(disk.worker[u])'
      BY <3>1 DEF Shape
    <3> QED
      BY <1>1, <2>1, <3>2, JobShape DEF Shape, Rest
  <2>2. CASE ~Free(u)
    <3>1. PICK r \in AtWork : sess[r].task = u
      BY <2>2 DEF Free
    <3>2. Work(r)' = Work(r) /\ sess'[r].task = u /\ r \in AtWork'
      BY <1>4, <3>1 DEF Work
    <3> QED
      BY <3>1, <3>2, JobShape DEF Shape
  <2> QED
    BY <2>1, <2>2
<1>8. jobs' = [jobs EXCEPT ![t] = "active"] /\ jobs[t] = "idle"
  BY <1>2, <1>5, <1>6, <1>7
<1>9. /\ Deps[t] \subseteq Promise!In({"exited", "succeeded"})
      /\ Promise!Cardinality(Promise!In({"active"})) < MaxWorkers
  BY <1>1, <1>a, DepsExited, ActiveCounted
<1> HIDE DEF jobs
<1>10. Promise!Start(t)
  BY <1>1, <1>2, <1>8, <1>9 DEF Awake, Promise!Start, jobs
<1> QED
  BY <1>2, <1>10 DEF PromisedStep, Promise!Next

\* A pass that moves on otherwise, and its save, are of no consequence to the jobs.
LEMMA PassRefines ==
  ASSUME Awake, Awake', BaseInv, SerialInv, LimitInv, Shape', PassStep
  PROVE  PromisedStep
<1>a. /\ sess \in [Sessions -> Session] /\ disk \in Run /\ pass \in Pass
      /\ Shape
  BY JobShape DEF BaseInv, TypeOK
<1>1. CASE PassSpawn
  BY <1>1, SpawnStarts
<1>2. CASE PassBegin \/ PassPick \/ PassSpawnFails \/ PassSpawnTimesOut
  <2>1. UNCHANGED disk
    BY <1>2 DEF PassBegin, PassPick, PassSpawnFails, PassSpawnTimesOut
  <2>2. \A s \in Sessions : \/ sess'[s] = sess[s]
                            \/ sess[s].phase = "unused" /\ sess'[s].phase = "orphan"
    <3>1. CASE PassSpawnTimesOut
      BY <3>1, <1>a DEF PassSpawnTimesOut, Fresh, Spawned
    <3>2. CASE UNCHANGED sess
      BY <3>2
    <3> QED
      BY <1>2, <3>1, <3>2 DEF PassBegin, PassPick, PassSpawnFails
  <2>3. AtWork' = AtWork /\ \A s \in AtWork : sess'[s] = sess[s]
    BY <2>2 DEF AtWork
  <2>4. \A s \in AtWork : sess'[s].task = sess[s].task /\ Work(s)' = Work(s)
    BY <2>3 DEF Work
  <2>5. \A t \in Tasks : JobOf(t)' = JobOf(t)
    BY <1>a, <2>1, <2>3, <2>4, JobsKept
  <2> QED
    BY <2>1, <2>5, Stutters
<1>3. CASE PassEnd
  <2>1. /\ stage = "passing" /\ UNCHANGED sess
        /\ disk' = IF Dispatched # {} THEN [pass.snap EXCEPT !.worker = View] ELSE disk
    BY <1>3 DEF PassEnd
  <2>2. pass.snap = disk
    BY <2>1, InPass
  <2>3. disk'.status = disk.status
    BY <1>a, <2>1, <2>2 DEF Run
  <2>4. ASSUME NEW t \in Tasks, Free(t) PROVE disk'.worker[t] = disk.worker[t]
    <3>1. pass.mine[t] = NoSession
      BY <2>4 DEF SerialInv, PassFits, Dispatched, Free
    <3>2. View[t] = disk.worker[t]
      BY <2>2, <3>1, ViewOf
    <3> QED
      BY <1>a, <2>1, <2>2, <3>2 DEF Run
  <2>5. AtWork' = AtWork /\ \A s \in AtWork : sess'[s].task = sess[s].task /\ Work(s)' = Work(s)
    BY <2>1 DEF AtWork, Work
  <2>6. \A t \in Tasks : JobOf(t)' = JobOf(t)
    BY <1>a, <2>4, <2>5, JobsKept
  <2> QED
    BY <2>3, <2>6, Stutters
<1> QED
  BY <1>1, <1>2, <1>3 DEF PassStep

-----------------------------------------------------------------------------
(***************************************************************************)
(* The sessions and their exits.                                           *)
(***************************************************************************)

\* An event of a session moves the job of its task only.
LEMMA OthersJobs ==
  ASSUME Awake, Awake', Shape, Shape', NEW s \in Sessions, s \in AtWork, s \in AtWork',
         sess'[s].task = sess[s].task,
         \A r \in Sessions \ {s} : sess'[r] = sess[r], UNCHANGED disk,
         \/ Work(s) = "active" /\ Work(s)' = "ending"
         \/ Work(s) \in {"active", "ending"} /\ Work(s)' = "exited"
         \/ Work(s)' = Work(s)
  PROVE  PromisedStep
<1>1. PICK t \in Tasks : t = sess[s].task
  BY DEF Shape
<1>2. JobOf(t) = Work(s) /\ JobOf(t)' = Work(s)'
  BY <1>1 DEF Shape
<1>3. AtWork' = AtWork /\ AtWork \subseteq Sessions
  BY DEF AtWork
<1>4. ASSUME NEW u \in Tasks, u # t PROVE JobOf(u)' = JobOf(u)
  <2>1. CASE Free(u)
    <3>1. Free(u)'
      BY <1>1, <1>3, <1>4, <2>1 DEF Free
    <3>2. JobOf(u)' = Rest(disk.worker[u])'
      BY <3>1 DEF Shape
    <3> QED
      BY <2>1, <3>2 DEF Shape, Rest
  <2>2. CASE ~Free(u)
    <3>1. PICK r \in AtWork : sess[r].task = u
      BY <2>2 DEF Free
    <3>2. Work(r)' = Work(r) /\ sess'[r].task = u /\ r \in AtWork'
      BY <1>1, <1>3, <1>4, <3>1 DEF Work
    <3> QED
      BY <3>1, <3>2 DEF Shape
  <2> QED
    BY <2>1, <2>2
<1> QED
  BY <1>2, <1>4, OneJobMoves

\* A stall and an unclean exit give the task up, a clean exit ends it.
LEMMA SessionRefines ==
  ASSUME Awake, Awake', BaseInv, SerialInv, Shape', NEW s \in Sessions, SessionStep(s)
  PROVE  PromisedStep
<1>a. sess \in [Sessions -> Session] /\ sess[s] \in Session /\ UNCHANGED disk /\ Shape
  BY JobShape DEF BaseInv, TypeOK, SessionStep, Stall, ExitClean, ExitUnclean, Validated,
     OrphanExits, ConflictScan
<1>b. /\ \A r \in Sessions \ {s} : sess'[r] = sess[r]
      /\ sess'[s].task = sess[s].task
  BY <1>a DEF SessionStep, Stall, ExitClean, ExitUnclean, Validated, OrphanExits, ConflictScan,
     Session
<1>1. CASE OrphanExits(s) \/ ConflictScan(s)
  <2>1. sess[s].phase \in {"orphan", "scanning"}
    BY <1>1 DEF OrphanExits, ConflictScan
  <2>2. sess' = [sess EXCEPT ![s].phase = "gone"]
    BY <1>1 DEF OrphanExits, ConflictScan
  <2>3. sess'[s].phase = "gone"
    BY <1>a, <2>2 DEF Session
  <2>4. AtWork' = AtWork /\ \A r \in AtWork : sess'[r] = sess[r]
    BY <1>b, <2>1, <2>3 DEF AtWork
  <2>5. \A r \in AtWork : sess'[r].task = sess[r].task /\ Work(r)' = Work(r)
    BY <2>4 DEF Work
  <2>6. \A t \in Tasks : JobOf(t)' = JobOf(t)
    BY <1>a, <2>4, <2>5, JobsKept
  <2> QED
    BY <1>a, <2>6, Stutters
<1>2. CASE Stall(s) \/ ExitClean(s) \/ ExitUnclean(s) \/ Validated(s)
  <2>1. s \in AtWork
    BY <1>2 DEF Stall, ExitClean, ExitUnclean, Validated, AtWork
  <2>2. sess[s].phase = "live" => sess[s].closure \in {"running", "stuck"}
    BY <2>1 DEF SerialInv, Books
  <2>3. Work(s) \in {"active", "ending", "exited"}
    BY DEF Work
  <2>4. /\ s \in AtWork'
        /\ \/ Work(s) = "active" /\ Work(s)' = "ending"
           \/ Work(s) \in {"active", "ending"} /\ Work(s)' = "exited"
           \/ Work(s)' = Work(s)
    <3>1. CASE Stall(s)
      BY <1>a, <3>1 DEF Stall, AtWork, Work
    <3>2. CASE ExitClean(s)
      <4>1. sess'[s].phase = "checking" /\ sess'[s].closure = "done" /\ sess[s].phase = "live"
        BY <1>a, <3>2 DEF ExitClean
      <4> QED
        BY <2>2, <4>1 DEF AtWork, Work
    <3>3. CASE ExitUnclean(s)
      <4>1. /\ sess'[s].phase = "queued" /\ sess[s].phase = "live"
            /\ sess'[s].closure = IF sess[s].closure = "stuck" THEN "stuck" ELSE "failed"
        BY <1>a, <3>3 DEF ExitUnclean
      <4> QED
        BY <2>2, <4>1 DEF AtWork, Work
    <3>4. CASE Validated(s)
      <4>1. /\ sess'[s].phase = "queued" /\ sess[s].phase = "checking"
            /\ sess'[s].closure \in {"done", "validation_failed"}
        BY <1>a, <3>4 DEF Validated
      <4> QED
        BY <2>3, <4>1 DEF AtWork, Work
    <3> QED
      BY <1>2, <3>1, <3>2, <3>3, <3>4
  <2> QED
    BY <1>a, <1>b, <2>1, <2>4, OthersJobs
<1> QED
  BY <1>1, <1>2 DEF SessionStep

\* A recorded exit is the success of the task, or its failure with its dependents.
LEMMA ExitSaveRefines ==
  ASSUME Awake, Awake', BaseInv, SerialInv, Shape', ExitSave
  PROVE  PromisedStep
<1>1. /\ stage = "loaded" /\ lockq # <<>> /\ Head(lockq).kind = "exit" /\ disk' = held
      /\ sess' = [sess EXCEPT ![HolderSession].phase = "recorded"]
      /\ disk \in Run /\ sess \in [Sessions -> Session] /\ Shape
  BY JobShape DEF ExitSave, Holds, BaseInv, TypeOK
<1>2. PICK s \in Sessions : s = HolderSession
  BY <1>1, HolderPhase
<1>3. /\ sess[s].phase = "queued"
      /\ sess[s].task \in Tasks /\ sess[s].closure \in WorkerStatus \ {"running"}
      /\ held = RecordExit(disk, sess[s].task, sess[s].closure)
  BY <1>1, <1>2, HolderPhase DEF Recorded, SerialInv, HolderFits
<1>4. PICK t \in Tasks, st \in WorkerStatus : t = sess[s].task /\ st = sess[s].closure
  BY <1>3
<1>5. s \in AtWork /\ st \in Closures \ {"running"}
  BY <1>3, <1>4 DEF AtWork, SerialInv, Books
<1>6. /\ sess'[s].phase = "recorded"
      /\ \A r \in Sessions \ {s} : sess'[r] = sess[r]
  BY <1>1, <1>2 DEF Session
<1>7. AtWork' = AtWork \ {s} /\ AtWork \subseteq Sessions
  BY <1>6 DEF AtWork
<1>8. /\ disk'.status = disk.status /\ disk'.worker[t] = st
      /\ \A u \in Tasks \ {t} : disk'.worker[u] =
           IF st \in Unsuccessful /\ disk.worker[u] = "none" /\ t \in Deps[u]
           THEN "blocked" ELSE disk.worker[u]
  BY <1>1, <1>3, <1>4, RecordExitEntries
<1>9. JobOf(t) = IF st \in {"stuck", "failed"} THEN "ending" ELSE "exited"
  BY <1>3, <1>4, <1>5, <1>1 DEF Shape, Work
<1>10. JobOf(t)' = IF st = "done" THEN "succeeded" ELSE "failed"
  <2>1. Free(t)'
    BY <1>4, <1>5, <1>6, <1>7 DEF Free, SerialInv, OneWorker
  <2>2. JobOf(t)' = Rest(disk.worker[t])'
    BY <2>1 DEF Shape
  <2> QED
    BY <1>5, <1>8, <2>2 DEF Rest, Closures
<1>11. ASSUME NEW u \in Tasks, u # t
       PROVE  JobOf(u)' = IF st \in Unsuccessful /\ JobOf(u) = "idle" /\ t \in Deps[u]
                          THEN "blocked" ELSE JobOf(u)
  <2>1. CASE Free(u)
    <3>1. Free(u)'
      BY <1>6, <1>7, <2>1 DEF Free
    <3>2. JobOf(u)' = Rest(disk.worker[u])' /\ JobOf(u) = Rest(disk.worker[u])
      BY <1>1, <2>1, <3>1 DEF Shape
    <3>3. disk.worker[u] = "none" <=> JobOf(u) = "idle"
      BY <3>2 DEF Rest
    <3> QED
      BY <1>8, <1>11, <3>2, <3>3 DEF Rest
  <2>2. CASE ~Free(u)
    <3>1. PICK r \in AtWork : sess[r].task = u
      BY <2>2 DEF Free
    <3>2. r # s
      BY <1>4, <1>11, <3>1
    <3>3. Work(r)' = Work(r) /\ sess'[r].task = u /\ r \in AtWork'
      BY <1>6, <1>7, <3>1, <3>2 DEF Work
    <3>4. JobOf(u)' = Work(r) /\ JobOf(u) = Work(r)
      BY <1>1, <3>1, <3>3 DEF Shape
    <3> QED
      BY <3>4 DEF Work
  <2> QED
    BY <2>1, <2>2
<1>12. CASE st \notin Unsuccessful
  <2>1. st = "done"
    BY <1>5, <1>12 DEF Closures, Unsuccessful
  <2> QED
    BY <1>8, <1>9, <1>10, <1>11, <1>12, <2>1, OneJobMoves
<1>13. CASE st \in Unsuccessful
  <2> DEFINE jobs == [u \in Tasks |-> JobOf(u)]
  <2>1. jobs' = [u \in Tasks |-> IF u = t THEN "failed"
                                 ELSE IF u \in Promise!BlockedBy(t) THEN "blocked" ELSE jobs[u]]
    <3>1. \A u \in Tasks : u \in Promise!BlockedBy(t) <=> JobOf(u) = "idle" /\ t \in Deps[u]
      BY DEF Awake, Promise!BlockedBy, Promise!In
    <3>2. st # "done"
      BY <1>13 DEF Unsuccessful
    <3>3. JobOf(t)' = "failed"
      BY <1>10, <3>2
    <3>4. ASSUME NEW u \in Tasks
          PROVE  JobOf(u)' = IF u = t THEN "failed"
                             ELSE IF u \in Promise!BlockedBy(t) THEN "blocked" ELSE jobs[u]
      BY <1>11, <1>13, <3>1, <3>3
    <3> QED
      BY <3>4
  <2>2. jobs[t] \in {"ending", "exited"}
    BY <1>9
  <2> HIDE DEF jobs
  <2>3. Promise!Fail(t)
    BY <1>8, <2>1, <2>2 DEF Awake, Promise!Fail, jobs
  <2> QED
    BY <2>3 DEF PromisedStep, Promise!Next
<1> QED
  BY <1>12, <1>13

\* The end of the run is called when nothing is left to start.
LEMMA ExitFinishRefines ==
  ASSUME Awake, Awake', BaseInv, SerialInv, Shape', ExitFinish
  PROVE  PromisedStep
<1>1. /\ lockq # <<>> /\ Head(lockq).kind = "exit" /\ stage = "finishing"
      /\ disk' = IF AllResolved(held) THEN [held EXCEPT !.status = FinalStatus(held)] ELSE disk
      /\ disk \in Run /\ sess \in [Sessions -> Session] /\ Shape
  BY JobShape DEF ExitFinish, Holds, BaseInv, TypeOK
<1>2. PICK s \in Sessions : s = HolderSession
  BY <1>1, HolderPhase
<1>3. sess[s].phase = "recorded"
  BY <1>1, <1>2, HolderPhase DEF Recorded
<1>4. /\ sess'[s].phase \in {"scanning", "gone"}
      /\ \A r \in Sessions \ {s} : sess'[r] = sess[r]
  BY <1>1, <1>2 DEF ExitFinish, Session
<1>5. AtWork' = AtWork /\ \A r \in AtWork : sess'[r].task = sess[r].task /\ Work(r)' = Work(r)
  BY <1>3, <1>4 DEF AtWork, Work
<1>6. pass = NoPass /\ (held = disk \/ ~AllResolved(held))
  BY <1>1 DEF SerialInv, HolderFits
<1>7. disk'.worker = disk.worker
  BY <1>1, <1>6 DEF Run
<1>8. \A t \in Tasks : JobOf(t)' = JobOf(t)
  BY <1>1, <1>5, <1>7, JobsKept
<1>9. CASE ~AllResolved(held)
  BY <1>1, <1>8, <1>9, Stutters
<1>10. CASE AllResolved(held)
  <2>1. /\ AllResolved(disk) /\ disk'.status = FinalStatus(disk)
        /\ disk.status \in {"running", "done", "failed"}
    <3>1. disk.status \in {"running", "done", "failed"}
      BY <1>1, InJob, BusyAlone
    <3> QED
      BY <1>1, <1>6, <1>10, <3>1 DEF Run
  <2>2. \A r \in AtWork : EntryFits(r, disk.worker[sess[r].task])
    <3> SUFFICES ASSUME NEW r \in AtWork PROVE EntryFits(r, disk.worker[sess[r].task])
      OBVIOUS
    <3>1. r # NoSession /\ sess[r].task \in Tasks
      BY <1>1, BoundsAssumption DEF AtWork, Shape, Sessions, NoSession
    <3>2. pass.mine[sess[r].task] = NoSession
      BY <1>6, <3>1 DEF NoPass
    <3> QED
      BY <3>1, <3>2 DEF SerialInv, Books
  <2>3. ASSUME NEW t \in Tasks PROVE JobOf(t) \notin {"idle", "active"}
    <3>1. CASE Free(t)
      BY <1>1, <2>1, <3>1 DEF Shape, Rest, AllResolved, Resolved
    <3>2. CASE ~Free(t)
      <4>1. PICK r \in AtWork : sess[r].task = t
        BY <3>2 DEF Free
      <4>2. sess[r].closure # "running"
        BY <2>1, <2>2, <4>1 DEF EntryFits, AllResolved, Resolved
      <4> QED
        BY <1>1, <4>1, <4>2 DEF Shape, Work
    <3> QED
      BY <3>1, <3>2
  <2>4. ASSUME FinalStatus(disk) = "done", NEW t \in Tasks
        PROVE  JobOf(t) \notin {"failed", "blocked", "lost"}
    <3>1. disk.worker[t] = "done"
      BY <2>1, <2>4 DEF FinalStatus, AllResolved
    <3>2. CASE Free(t)
      BY <1>1, <3>1, <3>2 DEF Shape, Rest
    <3>3. CASE ~Free(t)
      <4>1. PICK r \in AtWork : sess[r].task = t
        BY <3>3 DEF Free
      <4> QED
        BY <1>1, <4>1 DEF Shape, Work
    <3> QED
      BY <3>2, <3>3
  <2>5. ASSUME FinalStatus(disk) = "failed"
        PROVE  \E t \in Tasks : JobOf(t) \in {"ending", "exited", "failed", "blocked", "lost"}
    <3>1. PICK t \in Tasks : disk.worker[t] \in Resolved \ {"done"}
      BY <2>5 DEF FinalStatus
    <3>2. CASE Free(t)
      BY <1>1, <3>1, <3>2 DEF Shape, Rest, Resolved
    <3>3. CASE ~Free(t)
      <4>1. PICK r \in AtWork : sess[r].task = t
        BY <3>3 DEF Free
      <4>2. JobOf(t) \in {"ending", "exited"}
        BY <1>1, <2>3, <4>1 DEF Shape, Work
      <4> QED
        BY <4>2
    <3> QED
      BY <3>2, <3>3
  <2>6. PICK verdict \in {"done", "failed"} : FinalStatus(disk) = verdict
    BY DEF FinalStatus
  <2> DEFINE jobs == [t \in Tasks |-> JobOf(t)]
  <2>7. jobs' = jobs
    BY <1>8
  <2>8. Promise!In({"idle", "active"}) = {}
    BY <2>3 DEF Awake, Promise!In
  <2>9. verdict = "done" => Promise!In({"failed", "blocked", "lost"}) = {}
    BY <2>4, <2>6 DEF Awake, Promise!In
  <2>10. verdict = "failed" =>
           Promise!In({"ending", "exited", "failed", "blocked", "lost"}) # {}
    BY <2>5, <2>6 DEF Awake, Promise!In
  <2> HIDE DEF jobs
  <2>11. Promise!Settle(verdict)
    BY <2>1, <2>6, <2>7, <2>8, <2>9, <2>10 DEF Awake, Promise!Settle, Promise!RunPhase, jobs
  <2> QED
    BY <2>11 DEF PromisedStep, Promise!Next
<1> QED
  BY <1>9, <1>10

\* What a job does under the lock is a step of the promise or of no consequence.
LEMMA JobRefines ==
  ASSUME Awake, Awake', BaseInv, SerialInv, Shape', JobStep
  PROVE  PromisedStep
<1>1. CASE ExitLoad \/ ConflictsLoad \/ ConflictsSave
  <2>1. UNCHANGED <<disk, sess>>
    BY <1>1 DEF ExitLoad, ConflictsLoad, ConflictsSave, Holds, SerialInv, HolderFits
  <2>2. AtWork' = AtWork /\ \A s \in AtWork : sess'[s].task = sess[s].task /\ Work(s)' = Work(s)
    BY <2>1 DEF AtWork, Work
  <2>3. \A t \in Tasks : JobOf(t)' = JobOf(t)
    BY <2>1, <2>2, JobShape, JobsKept
  <2> QED
    BY <2>1, <2>3, Stutters
<1> QED
  BY <1>1, ExitSaveRefines, ExitFinishRefines DEF JobStep

-----------------------------------------------------------------------------
(***************************************************************************)
(* Approve, resume, the recovery and restarts.                             *)
(***************************************************************************)

\* Where nobody is at work the entries say all.
LEMMA QuietJobs ==
  ASSUME Shape, Shape', Quiet, UNCHANGED sess, NEW t \in Tasks
  PROVE  JobOf(t) = Rest(disk.worker[t]) /\ JobOf(t)' = Rest(disk'.worker[t])
<1>1. Free(t) /\ Free(t)'
  BY DEF Free, AtWork, Quiet
<1>2. JobOf(t)' = Rest(disk.worker[t])'
  BY <1>1 DEF Shape
<1> QED
  BY <1>1, <1>2 DEF Shape, Rest

\* What a request or the recovery does is a step of the promise or of no
\* consequence.
LEMMA HandlerRefines ==
  ASSUME Awake, Awake', BaseInv, SerialInv, Shape', NEW h \in Handlers, HandlerStep(h)
  PROVE  PromisedStep
<1>a. disk \in Run /\ UNCHANGED sess /\ Shape
  BY JobShape DEF BaseInv, TypeOK, HandlerStep, Load, MergeProgress, Save
<1>b. req[h].op \in {"idle", "approve", "resume", "recover"}
  BY DEF SerialInv, RequestsFit, ClientFits, RecoveryFits, Handlers, Internal
<1>1. CASE Load(h)
  <2>1. UNCHANGED disk
    BY <1>1 DEF Load
  <2>2. AtWork' = AtWork /\ \A s \in AtWork : sess'[s].task = sess[s].task /\ Work(s)' = Work(s)
    BY <1>a DEF AtWork, Work
  <2>3. \A t \in Tasks : JobOf(t)' = JobOf(t)
    BY <1>a, <2>1, <2>2, JobsKept
  <2> QED
    BY <2>1, <2>3, Stutters
<1>2. CASE Save(h)
  <2>1. /\ req[h].run = disk /\ Outcome(req[h].op, req[h].task, disk, disk')
        /\ req[h].op = "approve" => disk.status = "planning" /\ disk = NewRun
        /\ req[h].op = "resume" => disk.status = "failed" /\ InterruptedTasks(disk) # {}
        /\ req[h].op = "recover" => disk.status = "running" /\ RunningEntries(disk.worker) # {}
        /\ req[h].op # "idle" /\ Quiet
    <3>1. /\ req[h].loaded /\ req[h].run = disk
          /\ req[h].op = "approve" => disk.status = "planning" /\ disk = NewRun
          /\ req[h].op = "resume" => disk.status = "failed" /\ InterruptedTasks(disk) # {}
          /\ req[h].op = "recover" => disk.status = "running" /\ RunningEntries(disk.worker) # {}
          /\ req[h].op # "idle"
      BY <1>2 DEF Save, SerialInv, RequestsFit, ClientFits, RecoveryFits, DiskFits, Handlers,
         Internal
    <3>2. Quiet
      BY <1>2, <1>b, <3>1 DEF SerialInv, RequestsFit, ClientFits, RecoveryFits, DiskFits, Handlers,
         Internal, Untouched, Quiet
    <3> QED
      BY <1>2, <3>1, <3>2 DEF Save
  <2> DEFINE jobs == [t \in Tasks |-> JobOf(t)]
  <2>2. \A t \in Tasks : JobOf(t) = Rest(disk.worker[t]) /\ JobOf(t)' = Rest(disk'.worker[t])
    BY <1>a, <2>1, QuietJobs
  <2>3. CASE req[h].op = "approve"
    <3>1. disk' = Approve(disk)
      BY <2>1, <2>3 DEF Outcome
    <3>2. disk'.status = "running" /\ disk'.worker = disk.worker
      BY <1>a, <3>1 DEF Approve, Run
    <3>3. jobs' = jobs
      BY <2>2, <3>2
    <3> HIDE DEF jobs
    <3>4. Promise!Approve
      BY <2>1, <2>3, <3>2, <3>3 DEF Awake, Promise!Approve, jobs
    <3> QED
      BY <3>4 DEF PromisedStep, Promise!Next
  <2>4. CASE req[h].op = "resume"
    <3>1. PICK S \in Unblocked(disk.worker) : disk' = Resume(disk, S)
      BY <2>1, <2>4 DEF Outcome
    <3>2. S \in SUBSET Tasks /\ \A t \in S : disk.worker[t] = "blocked"
      BY DEF Unblocked
    <3>3. /\ disk'.status = "running"
          /\ \A t \in Tasks : disk'.worker[t] = IF disk.worker[t] = "interrupted" \/ t \in S
                                                THEN "none" ELSE disk.worker[t]
      BY <3>1 DEF Resume, InterruptedTasks, Entries
    <3>4. \A t \in Tasks : disk.worker[t] # "running"
      BY <2>1, <2>4 DEF SerialInv, DiskFits, RunningEntries, Entries
    <3>5. \A t \in Tasks : t \in Promise!In({"lost"}) <=> disk.worker[t] = "interrupted"
      BY <2>2, <3>4 DEF Awake, Promise!In, Rest
    <3>6. Promise!In({"lost"}) # {} /\ S \subseteq Promise!In({"blocked"})
      <4>1. PICK t \in Tasks : disk.worker[t] = "interrupted"
        BY <2>1, <2>4 DEF InterruptedTasks
      <4> QED
        BY <2>2, <3>2, <3>5, <4>1 DEF Awake, Promise!In, Rest
    <3>7. jobs' = [t \in Tasks |-> IF t \in S \cup Promise!In({"lost"}) THEN "idle" ELSE jobs[t]]
      <4>1. ASSUME NEW t \in Tasks
            PROVE  JobOf(t)' = IF t \in S \cup Promise!In({"lost"}) THEN "idle" ELSE JobOf(t)
        BY <2>2, <3>3, <3>5 DEF Rest
      <4> QED
        BY <4>1
    <3> HIDE DEF jobs
    <3>8. Promise!Resume(S)
      BY <2>1, <2>4, <3>3, <3>6, <3>7 DEF Awake, Promise!Resume, jobs
    <3> QED
      BY <3>2, <3>8 DEF PromisedStep, Promise!Next
  <2>5. CASE req[h].op = "recover"
    <3>1. disk' = Recover(disk, Alive)
      BY <2>1, <2>5 DEF Outcome
    <3>2. /\ disk'.status \in {"running", "failed"}
          /\ \A t \in Tasks : \/ disk'.worker[t] = disk.worker[t]
                              \/ disk.worker[t] = "running" /\ disk'.worker[t] = "interrupted"
      BY <2>1, <2>5, <3>1 DEF Recover, RunningEntries, Entries
    <3>3. \A t \in Tasks : JobOf(t)' = JobOf(t)
      BY <2>2, <3>2 DEF Rest
    <3>4. CASE disk'.status = "running"
      BY <2>1, <2>5, <3>3, <3>4, Stutters
    <3>5. CASE disk'.status = "failed"
      <4>1. jobs' = jobs
        BY <3>3
      <4>2. Promise!In({"active", "ending", "exited"}) = {}
        BY <2>2 DEF Awake, Promise!In, Rest
      <4>3. Promise!In({"lost"}) # {}
        <5>1. PICK t \in Tasks : disk.worker[t] = "running"
          BY <2>1, <2>5 DEF SerialInv, DiskFits, RunningEntries, Entries
        <5> QED
          BY <2>2, <5>1 DEF Awake, Promise!In, Rest
      <4> HIDE DEF jobs
      <4>4. Promise!Recover
        BY <2>1, <2>5, <3>5, <4>1, <4>2, <4>3 DEF Awake, Promise!Recover, jobs
      <4> QED
        BY <4>4 DEF PromisedStep, Promise!Next
    <3> QED
      BY <3>2, <3>4, <3>5
  <2> QED
    BY <1>b, <2>1, <2>3, <2>4, <2>5
<1> QED
  BY <1>b, <1>1, <1>2 DEF HandlerStep, MergeProgress

\* The promise's jobs when no session is at work are what the entries tell.
LEMMA RebootJobs ==
  ASSUME BaseInv, Reboot, Shape'
  PROVE  UNCHANGED disk /\ \A t \in Tasks : JobOf(t)' = Rest(disk.worker[t])
<1>1. UNCHANGED disk /\ sess \in [Sessions -> Session]
  BY DEF Reboot, BaseInv, TypeOK
<1>2. \A s \in Sessions : sess'[s].phase \in {"unused", "gone"}
  BY <1>1 DEF Reboot, Session
<1>3. \A t \in Tasks : Free(t)'
  BY <1>2 DEF AtWork, Free
<1>4. \A t \in Tasks : JobOf(t)' = Rest(disk.worker[t])'
  BY <1>3 DEF Shape
<1> QED
  BY <1>1, <1>4 DEF Rest

\* A crash loses or forgets what was at work.
LEMMA CrashRefines ==
  ASSUME Awake, Awake', BaseInv, SerialInv, Shape', Crash
  PROVE  PromisedStep
<1>1. Reboot /\ Shape
  BY JobShape DEF Crash
<1>2. UNCHANGED disk /\ \A t \in Tasks : JobOf(t)' = Rest(disk.worker[t])
  BY <1>1, RebootJobs
<1>3. ASSUME NEW t \in Tasks, NEW s \in AtWork, sess[s].task = t
      PROVE  disk.worker[t] = "none" \/ EntryFits(s, disk.worker[t])
  <2>1. s # NoSession
    BY BoundsAssumption DEF AtWork, Sessions, NoSession
  <2>2. CASE pass.mine[t] = s
    <3>1. t \in Dispatched
      BY <2>1, <2>2 DEF Dispatched
    <3>2. pass # NoPass
      BY <2>1, <2>2 DEF NoPass
    <3> QED
      BY <3>1, <3>2 DEF SerialInv, PassFits, HolderFits
  <2>3. CASE pass.mine[t] # s
    BY <1>3, <2>3 DEF SerialInv, Books
  <2> QED
    BY <2>2, <2>3
<1>4. ASSUME NEW t \in Tasks
      PROVE  CASE JobOf(t) \in {"active", "ending"} -> JobOf(t)' \in {"lost", "idle", "failed"}
               [] JobOf(t) = "exited" -> JobOf(t)' \in {"lost", "idle", "failed", "succeeded"}
               [] OTHER -> JobOf(t)' = JobOf(t)
  <2>1. CASE Free(t)
    <3>1. JobOf(t) = Rest(disk.worker[t]) /\ JobOf(t)' = JobOf(t)
      BY <1>1, <1>2, <2>1 DEF Shape
    <3>2. JobOf(t) \in {"idle", "succeeded", "blocked", "lost", "failed"}
      BY <3>1 DEF Rest
    <3> QED
      BY <3>1, <3>2
  <2>2. CASE ~Free(t)
    <3>1. PICK s \in AtWork : sess[s].task = t
      BY <2>2 DEF Free
    <3>2. JobOf(t) = Work(s)
      BY <1>1, <3>1 DEF Shape
    <3>3. /\ disk.worker[t] \in Closures \cup {"none"}
          /\ disk.worker[t] = "done" => sess[s].closure \in {"done", "validation_failed"}
      BY <1>3, <3>1 DEF EntryFits
    <3>4. JobOf(t)' \in {"lost", "idle", "failed", "succeeded"}
      BY <1>2, <3>3 DEF Rest, Closures
    <3>5. JobOf(t) \in {"active", "ending"} => JobOf(t)' \in {"lost", "idle", "failed"}
      BY <1>2, <3>2, <3>3 DEF Rest, Closures, Work
    <3>6. JobOf(t) \in {"active", "ending", "exited"}
      BY <3>2 DEF Work
    <3> QED
      BY <3>4, <3>5, <3>6
  <2> QED
    BY <2>1, <2>2
<1>5. \A t \in Tasks : JobOf(t)' \in Promise!JobState
  BY <1>2 DEF Rest, Promise!JobState
<1>6. disk.status \in Promise!RunPhase
  BY DEF SerialInv, DiskFits, Promise!RunPhase
<1>7. Promise!Crash
  <2> DEFINE jobs == [t \in Tasks |-> JobOf(t)]
  <2>1. jobs' \in [Tasks -> Promise!JobState]
    BY <1>5
  <2> QED
    BY <1>2, <1>4, <1>6, <2>1 DEF Awake, Promise!Crash
<1> QED
  BY <1>7 DEF PromisedStep, Promise!Next

-----------------------------------------------------------------------------
(***************************************************************************)
(* The end of the server.                                                  *)
(***************************************************************************)

\* What was not settled when the hook began is lost to the promise.
LEMMA StopRefines ==
  ASSUME Awake, BaseInv, SerialInv, ShutdownBegins
  PROVE  PromisedStep
<1>1. /\ UNCHANGED <<disk, sess>> /\ hook'.stopping /\ hook'.settled = Settled /\ Shape
      /\ disk \in Run
  BY JobShape DEF ShutdownBegins, BaseInv, TypeOK
<1>2. /\ PromisedPhase' = "stopping"
      /\ PromisedJob' = [t \in Tasks |-> IF t \notin Settled THEN "lost" ELSE JobOf(t)']
  BY <1>1 DEF PromisedPhase, PromisedJob
<1>3. ASSUME NEW t \in Tasks
      PROVE  /\ JobOf(t)' = JobOf(t)
             /\ t \in Settled <=> JobOf(t) \in {"succeeded", "failed"}
  <2>1. JobOf(t)' = JobOf(t)
    BY <1>1 DEF JobOf, AtWork
  <2>2. CASE Free(t)
    <3>1. JobOf(t) = Rest(disk.worker[t]) /\ disk.worker[t] \in WorkerStatus
      BY <1>1, <2>2 DEF Shape, Run, Entries
    <3>2. t \in Settled <=> disk.worker[t] \in {"done"} \cup Unsuccessful
      BY <2>2 DEF Settled, Free
    <3> QED
      BY <2>1, <3>1, <3>2 DEF Rest, WorkerStatus, Unsuccessful
  <2>3. CASE ~Free(t)
    <3>1. PICK s \in AtWork : sess[s].task = t
      BY <2>3 DEF Free
    <3>2. JobOf(t) = Work(s)
      BY <1>1, <3>1 DEF Shape
    <3> QED
      BY <2>1, <3>1, <3>2 DEF Work, Settled
  <2> QED
    BY <2>2, <2>3
<1>4. PromisedJob' = [t \in Tasks |-> IF PromisedJob[t] \in {"succeeded", "failed"}
                                      THEN PromisedJob[t] ELSE "lost"]
  BY <1>2, <1>3 DEF Awake
<1>5. PromisedPhase \in Promise!RunPhase
  BY DEF Awake, SerialInv, DiskFits, Promise!RunPhase
<1>6. Promise!Stop
  BY <1>2, <1>4, <1>5 DEF Promise!Stop
<1> QED
  BY <1>6 DEF PromisedStep, Promise!Next

\* The job of a task on which nobody works is what its entry says.
LEMMA FreeJob == \A t \in Tasks : Free(t) => JobOf(t) = Rest(disk.worker[t])
<1> SUFFICES ASSUME NEW t \in Tasks, Free(t) PROVE JobOf(t) = Rest(disk.worker[t])
  OBVIOUS
<1>1. {r \in AtWork : sess[r].task = t} = {}
  BY DEF Free
<1> QED
  BY <1>1 DEF JobOf, Rest

\* And as long as the hook is at work nothing changes for the promise.
LEMMA StoppingStutters ==
  ASSUME BaseInv, StopInv, [Next]_vars, ~Exit
  PROVE  PromisedStep
<1>a. (\A t \in Tasks : Free(t) => JobOf(t) = Rest(disk.worker[t]))'
  BY FreeJob, PTL
<1>1. StopInv' /\ SettledIsKept
  BY StopStep
<1>2. hook'.stopping /\ hook.stopping /\ hook'.settled = hook.settled
  <2>1. hook' = hook \/ \E e \in Entries : hook' = [hook EXCEPT !.doomed = @ \ {e}]
    BY <1>1 DEF Next, vars, PassStep, PassBegin, PassPick, PassSpawn, PassSpawnFails,
       PassSpawnTimesOut, PassEnd, SessionStep, Stall, ExitClean, ExitUnclean, Validated,
       OrphanExits, ConflictScan, JobStep, ExitLoad, ExitSave, ExitFinish, ConflictsLoad,
       ConflictsSave, Arrive, HandlerStep, Load, MergeProgress, Save, PmExits, ShutdownBegins,
       ShutdownKills, Crash, StopInv
  <2> QED
    BY <1>1, <2>1 DEF StopInv, BaseInv, TypeOK, Hook
<1>3. ASSUME NEW t \in Tasks, t \in hook.settled PROVE JobOf(t)' = JobOf(t)
  <2>1. Free(t)
    BY <1>3 DEF StopInv, StopWork, Free
  <2>2. Free(t)'
    BY <1>1, <1>2, <1>3 DEF StopInv, StopWork, Free
  <2>3. JobOf(t)' = Rest(disk.worker[t])'
    BY <1>a, <2>2
  <2>4. disk'.worker[t] = disk.worker[t]
    BY <1>1, <1>3 DEF SettledIsKept, Agree
  <2> QED
    BY <2>1, <2>3, <2>4, FreeJob DEF Rest
<1>4. /\ PromisedPhase' = PromisedPhase
      /\ PromisedJob' = PromisedJob
  BY <1>2, <1>3 DEF PromisedPhase, PromisedJob
<1> QED
  BY <1>4 DEF PromisedStep, Promise!vars

\* The new server finds what was settled as it was.
LEMMA ExitRefines ==
  ASSUME Awake', BaseInv, StopInv, Shape', Exit
  PROVE  PromisedStep
<1>1. Reboot /\ hook.stopping
  BY DEF Exit
<1>2. UNCHANGED disk /\ \A t \in Tasks : JobOf(t)' = Rest(disk.worker[t])
  BY <1>1, RebootJobs
<1>3. disk.status \in Promise!RunPhase
  BY DEF StopInv, StopDisk, RunFits, Promise!RunPhase
<1>4. \A t \in Tasks : JobOf(t)' \in Promise!JobState \ {"active", "ending", "exited"}
  BY <1>2 DEF Rest, Promise!JobState
<1>5. ASSUME NEW t \in Tasks, PromisedJob[t] \in {"succeeded", "failed"}
      PROVE  JobOf(t)' = PromisedJob[t]
  <2>1. t \in hook.settled /\ PromisedJob[t] = JobOf(t)
    BY <1>1, <1>5, WhatIsPromised
  <2>2. Free(t)
    BY <2>1 DEF StopInv, StopWork, Free
  <2> QED
    BY <1>2, <2>1, <2>2, FreeJob
<1>6. Promise!StartAgain
  <2> DEFINE jobs == [t \in Tasks |-> JobOf(t)]
  <2>1. jobs' \in [Tasks -> Promise!JobState \ {"active", "ending", "exited"}]
    BY <1>4
  <2>2. PromisedPhase = "stopping"
    BY <1>1, WhatIsPromised
  <2>3. \A t \in Promise!In({"succeeded", "failed"}) : jobs'[t] = PromisedJob[t]
    BY <1>5 DEF Promise!In
  <2> QED
    BY <1>2, <1>3, <2>1, <2>2, <2>3 DEF Awake, Promise!StartAgain
<1> QED
  BY <1>6 DEF PromisedStep, Promise!Next

-----------------------------------------------------------------------------
(***************************************************************************)
(* The refinement.                                                         *)
(***************************************************************************)

\* Every step of a server that is up maps to a step of the promise or to a stutter.
LEMMA AwakeStepRefines ==
  ASSUME Awake, Awake', BaseInv, SerialInv, LimitInv, Shape', [Next]_vars, ~ShutdownBegins
  PROVE  PromisedStep
<1>1. CASE PassStep
  BY <1>1, PassRefines
<1>2. ASSUME NEW s \in Sessions, SessionStep(s) PROVE PromisedStep
  BY <1>2, SessionRefines
<1>3. CASE JobStep
  BY <1>3, JobRefines
<1>4. ASSUME NEW h \in Handlers, HandlerStep(h) PROVE PromisedStep
  BY <1>4, HandlerRefines
<1>5. CASE Crash
  BY <1>5, CrashRefines
<1>6. CASE \/ \E c \in Clients, op \in Ops, t \in Entries : Arrive(c, op, t)
           \/ PmExits \/ UNCHANGED vars
  <2>1. UNCHANGED <<disk, sess>>
    BY <1>6 DEF Arrive, PmExits, vars
  <2>2. AtWork' = AtWork /\ \A s \in AtWork : sess'[s].task = sess[s].task /\ Work(s)' = Work(s)
    BY <2>1 DEF AtWork, Work
  <2>3. \A t \in Tasks : JobOf(t)' = JobOf(t)
    BY <2>1, <2>2, JobShape, JobsKept
  <2> QED
    BY <2>1, <2>3, Stutters
<1>7. ~Exit /\ ~\E e \in Entries : ShutdownKills(e)
  BY DEF Exit, ShutdownKills, SerialInv, RequestsFit, NoHook
<1> QED
  BY <1>1, <1>2, <1>3, <1>4, <1>5, <1>6, <1>7 DEF Next

\* And so does every step.
LEMMA StepRefines ==
  BaseInv /\ WorkInv /\ LimitInv /\ BaseInv' /\ [Next]_vars => PromisedStep
<1> SUFFICES ASSUME BaseInv, WorkInv, LimitInv, BaseInv', [Next]_vars PROVE PromisedStep
  OBVIOUS
<1>1. /\ SerialInv => Awake
      /\ SerialInv' => Awake' /\ Shape'
  <2>1. /\ SerialInv => ~hook.stopping
        /\ SerialInv' => ~hook'.stopping
    BY DEF SerialInv, RequestsFit, NoHook
  <2>2. SerialInv' => Shape'
    BY JobShape, PTL
  <2>3. ~hook'.stopping => Awake'
    BY DEF Awake, PromisedPhase, PromisedJob
  <2> QED
    BY <2>1, <2>2, <2>3, WhatIsPromised
<1>2. CASE SerialInv /\ ShutdownBegins
  BY <1>1, <1>2, StopRefines
<1>3. CASE SerialInv /\ ~ShutdownBegins
  BY <1>1, <1>3, SerialStep, AwakeStepRefines
<1>4. CASE StopInv /\ Exit
  BY <1>1, <1>4, ExitSerial, ExitRefines
<1>5. CASE StopInv /\ ~Exit
  BY <1>5, StoppingStutters
<1> QED
  BY <1>2, <1>3, <1>4, <1>5 DEF WorkInv

\* The initial state maps to the initial state of the promise.
LEMMA InitRefines == Serial /\ Init => Promise!Init
<1> SUFFICES ASSUME Serial, Init PROVE Promise!Init
  OBVIOUS
<1>1. disk.status = "planning" /\ \A t \in Tasks : disk.worker[t] = "none"
  BY DEF Init, NewRun, Entries
<1>2. Awake
  BY WhatIsPromised DEF Init, NoHook
<1>3. \A t \in Tasks : Free(t)
  BY DEF Free, AtWork, Init, Unspawned
<1>4. \A t \in Tasks : JobOf(t) = "idle"
  BY <1>1, <1>3, FreeJob DEF Rest
<1> QED
  BY <1>1, <1>2, <1>4 DEF Awake, Promise!Init

\* The conductor, with its passes, locks and snapshots, keeps the promise of
\* TaskScheduler: every start, exit, verdict, settlement, crash, shutdown and
\* resume of it is one that the promise allows.
THEOREM SpecKeepsPromise == Serial /\ Spec => KeepsPromise
<1>1. Serial /\ Init => Promise!Init
  BY InitRefines
<1>2. BaseInv /\ WorkInv /\ LimitInv /\ BaseInv' /\ [Next]_vars =>
        [Promise!Next]_(Promise!vars)
  BY StepRefines DEF PromisedStep
<1> QED
  BY <1>1, <1>2, SpecBase, SpecSerial, SpecLimit, PTL
  DEF Spec, KeepsPromise, Promise!Spec
=============================================================================
