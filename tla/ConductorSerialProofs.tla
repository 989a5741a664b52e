------------------------ MODULE ConductorSerialProofs ------------------------
(***************************************************************************)
(* What the conductor keeps when approve and resume come one at a time and *)
(* recovery is over before a worker of the new server ends, for every plan *)
(* and limit and with every other fault: until the server shuts down a     *)
(* task has one worker and a run that is settled is quiet; a recorded      *)
(* success is never lost, to a shutdown none that was settled before it.   *)
(***************************************************************************)
EXTENDS ConductorProofs

Serial ==
  /\ Ops \subseteq {"approve", "resume"}
  /\ "slow_recovery" \notin Faults
  /\ \A c, d \in Clients : c = d

-----------------------------------------------------------------------------
(***************************************************************************)
(* Until the hook begins nobody writes run.json from outside of the lock   *)
(* while it is held: an approve is at work only before there has been any  *)
(* worker, a resume and the recovery only when all workers are gone.       *)
(***************************************************************************)

Untouched == lockq = <<>> /\ stage = "idle" /\ \A s \in Sessions : sess[s].phase = "unused"

Quiet ==
  /\ lockq = <<>> /\ stage = "idle"
  /\ \A s \in Sessions : sess[s].phase \in {"unused", "gone"}

\* A new server is at work before its recovery has looked at the run.
Booting ==
  /\ \A i \in 1..Len(lockq) : lockq[i].kind = "dispatch"
  /\ \A s \in Sessions : \/ sess[s].phase \in {"unused", "gone", "orphan"}
                         \/ sess[s].phase = "live" /\ sess[s].closure = "running"
  /\ RunningEntries(disk.worker) \subseteq LiveTasks

ClientFits(c) ==
  LET r == req[c] IN
  /\ r.op \in {"idle", "approve", "resume"}
  /\ r.op = "idle" => ~r.loaded
  /\ r.op = "approve" => r.loaded /\ disk.status = "planning"
  /\ r.op = "resume" => Quiet /\ disk.status = "failed" /\ InterruptedTasks(disk) # {}
  /\ r.loaded => r.run = disk

RecoveryFits ==
  LET r == req["recovery"] IN
  /\ r.op \in {"idle", "recover"}
  /\ r.loaded => /\ r.op = "recover" /\ Quiet /\ r.run = disk
                 /\ disk.status = "running" /\ RunningEntries(disk.worker) # {}
  /\ r.op = "recover" => Quiet \/ Booting

RequestsFit ==
  /\ \A c \in Clients : ClientFits(c)
  /\ RecoveryFits
  /\ req["pmExit"].op = "idle" /\ ~req["pmExit"].loaded /\ ~pmLive
  /\ req["shutdown"].op = "idle" /\ ~req["shutdown"].loaded /\ hook = NoHook

DiskFits ==
  /\ disk.status \in {"planning", "running", "done", "failed"}
  /\ disk.status = "planning" => disk = NewRun /\ Untouched
  /\ disk.status \in {"done", "failed"} => RunningEntries(disk.worker) = {}
  /\ disk.worker[PM] = "none"
  /\ InterruptedTasks(disk) # {} => Quiet

-----------------------------------------------------------------------------
(***************************************************************************)
(* What the job that holds the lock has in hand, and the exits that queue. *)
(***************************************************************************)

HolderFits ==
  /\ stage # "passing" => pass = NoPass
  /\ stage = "passing" =>
       /\ Head(lockq).kind \in {"dispatch", "exit"}
       /\ pass.snap = disk /\ disk.status = "running"
       /\ Head(lockq).kind = "exit" => held = disk
  /\ stage = "loaded" =>
       \/ /\ Head(lockq).kind = "exit"
          /\ held = RecordExit(disk, sess[HolderSession].task, sess[HolderSession].closure)
       \/ Head(lockq).kind = "conflicts" /\ held = disk
  /\ stage = "saved" => Head(lockq).kind = "exit" /\ held = disk
  /\ stage = "finishing" =>
       Head(lockq).kind = "exit" /\ (held = disk \/ ~AllResolved(held))

\* The exit of the job at the head has been recorded.
Recorded == stage \in {"saved", "passing", "finishing"}

QueueFits ==
  /\ \A i \in 1..Len(lockq) : lockq[i].kind = "exit" =>
       sess[lockq[i].sid].phase = IF i = 1 /\ Recorded THEN "recorded" ELSE "queued"
  /\ \A i, j \in 1..Len(lockq) :
       lockq[i].kind = "exit" /\ lockq[j].kind = "exit" /\ i # j => lockq[i].sid # lockq[j].sid

-----------------------------------------------------------------------------
(***************************************************************************)
(* The books: run.json, or the pass under way, has an entry for each task  *)
(* that is worked on, and it is at most as far as the session.             *)
(***************************************************************************)

Closures == {"running", "stuck", "done", "failed", "validation_failed"}

EntryFits(s, entry) ==
  /\ entry \in Closures
  /\ sess[s].closure = "running" => entry = "running"
  /\ entry = "done" => sess[s].closure \in {"done", "validation_failed"}

Books ==
  \A s \in AtWork :
    /\ sess[s].closure \in Closures
    /\ sess[s].phase = "live" => sess[s].closure \in {"running", "stuck"}
    /\ pass.mine[sess[s].task] = s \/ EntryFits(s, disk.worker[sess[s].task])

PassFits ==
  /\ \A t \in Dispatched : /\ pass.mine[t] \in AtWork /\ sess[pass.mine[t]].task = t
                           /\ pass.snap.worker[t] = "none"
  /\ pass.next # 0 => LET t == PlanOrder[pass.next]
                      IN  pass.mine[t] = NoSession /\ pass.snap.worker[t] = "none"

\* The dependencies of the task being provisioned have exited cleanly, by this
\* pass's own session or by what it read.
PickIsReady ==
  pass.next # 0 => \A d \in Deps[PlanOrder[pass.next]] :
    IF pass.mine[d] = NoSession THEN pass.snap.worker[d] = "done"
    ELSE sess[pass.mine[d]].closure \in {"done", "validation_failed"}

SerialInv ==
  /\ Serial /\ RequestsFit /\ DiskFits /\ HolderFits /\ QueueFits
  /\ Books /\ PassFits /\ PickIsReady /\ OneWorker

-----------------------------------------------------------------------------
(***************************************************************************)
(* While there is work, nobody is about to save from outside of the lock.  *)
(***************************************************************************)

\* When jobs wait or sessions are up, no request and no recovery holds a snapshot.
LEMMA BusyAlone ==
  ASSUME SerialInv, ~Quiet
  PROVE  /\ \A c \in Clients : req[c].op = "idle" /\ ~req[c].loaded
         /\ ~req["recovery"].loaded
         /\ req["recovery"].op \in {"idle", "recover"}
         /\ req["recovery"].op = "recover" => Booting
         /\ disk.status \in {"running", "done", "failed"}
         /\ InterruptedTasks(disk) = {}
<1>1. disk.status # "planning"
  BY DEF SerialInv, DiskFits, Untouched, Quiet
<1> QED
  BY <1>1 DEF SerialInv, RequestsFit, ClientFits, RecoveryFits, DiskFits

\* And so it stays until the work is done.
LEMMA BusyRequests ==
  ASSUME SerialInv, ~Quiet, UNCHANGED <<req, pmLive, hook>>, Booting => Booting'
  PROVE  RequestsFit'
<1>1. \A c \in Clients : ClientFits(c)'
  BY BusyAlone DEF ClientFits
<1>2. RecoveryFits'
  BY BusyAlone DEF RecoveryFits
<1> QED
  BY <1>1, <1>2 DEF SerialInv, RequestsFit

\* run.json fits when the work leaves the project manager and the
\* interrupted tasks alone and a settled run without running workers.
LEMMA BusyDisk ==
  ASSUME SerialInv, ~Quiet,
         disk'.status \in {"running", "done", "failed"},
         disk'.status \in {"done", "failed"} => RunningEntries(disk'.worker) = {},
         disk'.worker[PM] = "none",
         InterruptedTasks(disk') = {}
  PROVE  DiskFits'
BY DEF DiskFits, RunningEntries, InterruptedTasks

\* While there is work and run.json is not written, it keeps its shape.
LEMMA BusyDiskKept == SerialInv /\ ~Quiet /\ UNCHANGED disk => DiskFits'
<1> SUFFICES ASSUME SerialInv, ~Quiet, UNCHANGED disk PROVE DiskFits'
  OBVIOUS
<1>1. /\ disk.status \in {"done", "failed"} => RunningEntries(disk.worker) = {}
      /\ disk.worker[PM] = "none"
  BY DEF SerialInv, DiskFits
<1> QED
  BY <1>1, BusyAlone, BusyDisk

-----------------------------------------------------------------------------
(***************************************************************************)
(* The queue of the dispatch lock.                                         *)
(***************************************************************************)

\* It fits when nobody joins or leaves it and what is recorded does not change.
LEMMA QueueStays ==
  ASSUME BaseInv, QueueFits, UNCHANGED lockq,
         \A s \in Sessions : sess'[s].phase = sess[s].phase \/ sess[s].phase \notin {"queued", "recorded"},
         Recorded' = Recorded \/ lockq = <<>> \/ Head(lockq).kind # "exit"
  PROVE  QueueFits'
<1>1. \A i \in 1..Len(lockq) : lockq[i].kind = "exit" =>
        /\ lockq[i].sid \in Sessions
        /\ sess[lockq[i].sid].phase \in {"queued", "recorded"}
  BY DEF BaseInv, ExitJobsEnded, Ended, QueueFits
<1>2. Len(lockq) > 0 => lockq[1] = Head(lockq)
  BY DEF BaseInv, TypeOK
<1>3. ASSUME NEW i \in 1..Len(lockq), lockq[i].kind = "exit", i = 1 PROVE Recorded' = Recorded
  BY <1>2, <1>3 DEF BaseInv, TypeOK
<1>4. ASSUME NEW i \in 1..Len(lockq), lockq[i].kind = "exit"
      PROVE  sess'[lockq[i].sid].phase = IF i = 1 /\ Recorded' THEN "recorded" ELSE "queued"
  BY <1>1, <1>3, <1>4 DEF QueueFits
<1> QED
  BY <1>4 DEF QueueFits

\* It fits when the head is through and passes the lock on.
LEMMA QueueMovesUp ==
  ASSUME BaseInv, QueueFits, lockq # <<>>, Release,
         \A s \in Sessions : sess'[s].phase = sess[s].phase \/ sess[s].phase # "queued"
  PROVE  QueueFits'
<1>a. lockq \in Seq(Job)
  BY DEF BaseInv, TypeOK
<1>b. ~Recorded' /\ lockq' = Tail(lockq)
  BY DEF Recorded, Release
<1>1. ASSUME NEW i \in 1..Len(lockq')
      PROVE  i + 1 \in 2..Len(lockq) /\ lockq'[i] = lockq[i + 1]
  BY <1>a, <1>b
<1>2. ASSUME NEW i \in 1..Len(lockq'), lockq'[i].kind = "exit"
      PROVE  sess'[lockq'[i].sid].phase = "queued"
  <2>1. lockq[i + 1].sid \in Sessions /\ sess[lockq[i + 1].sid].phase = "queued"
    BY <1>1, <1>2, <1>a DEF BaseInv, ExitJobsEnded, Ended, QueueFits
  <2> QED
    BY <1>1, <2>1
<1>3. ASSUME NEW i \in 1..Len(lockq'), NEW j \in 1..Len(lockq'),
             lockq'[i].kind = "exit", lockq'[j].kind = "exit", i # j
      PROVE  lockq'[i].sid # lockq'[j].sid
  BY <1>1, <1>3, <1>a DEF QueueFits
<1> QED
  BY <1>b, <1>2, <1>3 DEF QueueFits

\* It fits when a session that was not in it queues its exit.
LEMMA QueueGrows ==
  ASSUME BaseInv, QueueFits, UNCHANGED stage, NEW s \in Sessions,
         sess[s].phase \notin {"queued", "recorded"}, sess'[s].phase = "queued",
         \A r \in Sessions \ {s} : sess'[r] = sess[r],
         lockq' = Append(lockq, ExitJob(s))
  PROVE  QueueFits'
<1>a. lockq \in Seq(Job) /\ Recorded' = Recorded /\ (Recorded => lockq # <<>>)
  BY DEF BaseInv, TypeOK, LockHeld, Recorded
<1>b. ExitJob(s) = [kind |-> "exit", sid |-> s] /\ ExitJob(s) \in Job
  BY BoundsAssumption DEF ExitJob, Job, Sessions
<1>1. \A i \in 1..Len(lockq) : lockq[i].kind = "exit" =>
        /\ lockq[i].sid \in Sessions \ {s}
        /\ sess[lockq[i].sid].phase = IF i = 1 /\ Recorded THEN "recorded" ELSE "queued"
  BY DEF BaseInv, ExitJobsEnded, Ended, QueueFits
<1>2. ASSUME NEW i \in 1..Len(lockq')
      PROVE  \/ i \in 1..Len(lockq) /\ lockq'[i] = lockq[i]
             \/ i = Len(lockq) + 1 /\ lockq'[i] = ExitJob(s) /\ i \notin 1..Len(lockq)
  BY <1>a, <1>b
<1>3. ASSUME NEW i \in 1..Len(lockq'), lockq'[i].kind = "exit"
      PROVE  sess'[lockq'[i].sid].phase = IF i = 1 /\ Recorded' THEN "recorded" ELSE "queued"
  <2>1. CASE i \in 1..Len(lockq) /\ lockq'[i] = lockq[i]
    BY <1>1, <1>3, <1>a, <2>1
  <2>2. CASE i = Len(lockq) + 1 /\ lockq'[i] = ExitJob(s)
    <3>1. i = 1 => lockq = <<>>
      BY <1>a, <2>2
    <3> QED
      BY <1>a, <1>b, <2>2, <3>1
  <2> QED
    BY <1>2, <2>1, <2>2
<1>4. ASSUME NEW i \in 1..Len(lockq'), NEW j \in 1..Len(lockq'),
             lockq'[i].kind = "exit", lockq'[j].kind = "exit", i # j
      PROVE  lockq'[i].sid # lockq'[j].sid
  BY <1>1, <1>2, <1>4, <1>b DEF QueueFits
<1> QED
  BY <1>3, <1>4 DEF QueueFits
-----------------------------------------------------------------------------
(***************************************************************************)
(* The dispatch pass.                                                      *)
(***************************************************************************)

\* While a server boots, what runs is what the new server has started.
LEMMA BootingStays ==
  ASSUME BaseInv, Booting,
         lockq' = lockq \/ (lockq # <<>> /\ lockq' = Tail(lockq)),
         \A s \in Sessions : \/ sess'[s].phase \in {"unused", "gone", "orphan"}
                             \/ sess'[s].phase = "live" /\ sess'[s].closure = "running",
         RunningEntries(disk'.worker) \subseteq LiveTasks'
  PROVE  Booting'
<1>a. lockq \in Seq(Job)
  BY DEF BaseInv, TypeOK
<1>1. ASSUME NEW i \in 1..Len(lockq') PROVE lockq'[i].kind = "dispatch"
  <2>1. CASE lockq' = lockq
    BY <2>1, <1>1 DEF Booting
  <2>2. CASE lockq # <<>> /\ lockq' = Tail(lockq)
    <3>1. i + 1 \in 1..Len(lockq) /\ lockq'[i] = lockq[i + 1]
      BY <2>2, <1>a, <1>1
    <3> QED
      BY <3>1 DEF Booting
  <2> QED
    BY <2>1, <2>2
<1> QED
  BY <1>1 DEF Booting

\* In a pass nobody else is at the lock, and the pass has read what is on disk.
LEMMA InPass ==
  ASSUME BaseInv, SerialInv, stage = "passing"
  PROVE  /\ ~Quiet /\ lockq # <<>> /\ pass \in Pass /\ sess \in [Sessions -> Session]
         /\ pass.snap = disk /\ disk.status = "running"
         /\ Head(lockq).kind \in {"dispatch", "exit"}
         /\ Head(lockq).kind = "exit" => held = disk
BY DEF BaseInv, TypeOK, LockHeld, SerialInv, HolderFits, Quiet

\* The pass of a job that finds the run under way reads it and has done nothing yet.
LEMMA PassBeginSerial == BaseInv /\ SerialInv /\ PassBegin => SerialInv'
<1> SUFFICES ASSUME BaseInv, SerialInv, PassBegin PROVE SerialInv'
  OBVIOUS
<1>a. /\ ~Quiet /\ lockq # <<>> /\ lockq \in Seq(Job) /\ stage # "passing"
      /\ UNCHANGED <<disk, sess, held, req, pmLive, hook>>
      /\ Head(lockq).kind \in {"dispatch", "exit"}
      /\ Head(lockq).kind = "exit" => stage = "saved" /\ held.status = "running"
  BY DEF PassBegin, Holds, Quiet, BaseInv, TypeOK
<1>b. \/ /\ disk.status = "running" /\ pass' = [NoPass EXCEPT !.snap = disk]
         /\ stage' = "passing" /\ UNCHANGED lockq
      \/ disk.status # "running" /\ AfterPass /\ UNCHANGED pass
  BY DEF PassBegin
<1>c. pass = NoPass /\ (Head(lockq).kind = "exit" => held = disk)
  BY <1>a DEF SerialInv, HolderFits
<1>d. pass'.mine = pass.mine /\ pass'.next = 0 /\ pass.next = 0
  BY <1>b, <1>c, NoPassType DEF NoPass, Pass
<1>e. \A t \in Tasks : pass'.mine[t] = NoSession
  BY <1>c, <1>d DEF NoPass
<1>f. lockq' = lockq \/ lockq' = Tail(lockq)
  BY <1>b DEF AfterPass, Release
<1>1. RequestsFit'
  <2>1. LiveTasks' = LiveTasks /\ RunningEntries(disk'.worker) = RunningEntries(disk.worker)
    BY <1>a DEF LiveTasks, RunningEntries
  <2>2. Booting => Booting'
    BY <1>a, <1>f, <2>1, BootingStays DEF Booting
  <2> QED
    BY <1>a, <2>2, BusyRequests
<1>2. DiskFits'
  BY <1>a, BusyDiskKept
<1>3. HolderFits'
  <2>1. CASE disk.status = "running"
    <3>1. pass'.snap = disk
      BY <1>b, <2>1 DEF NoPass
    <3> QED
      BY <1>a, <1>b, <1>c, <2>1, <3>1 DEF HolderFits
  <2>2. CASE disk.status # "running"
    BY <1>a, <1>b, <1>c, <2>2 DEF HolderFits, AfterPass, Release
  <2> QED
    BY <2>1, <2>2
<1>4. QueueFits'
  <2>1. CASE UNCHANGED lockq
    <3>1. Head(lockq).kind = "exit" => Recorded /\ Recorded'
      BY <1>a, <1>b, <2>1 DEF Recorded, AfterPass, Release
    <3> QED
      BY <1>a, <2>1, <3>1, QueueStays DEF SerialInv
  <2>2. CASE Release
    BY <1>a, <2>2, QueueMovesUp DEF SerialInv
  <2> QED
    BY <1>b, <2>1, <2>2 DEF AfterPass
<1>5. Books'
  BY <1>a, <1>d DEF SerialInv, Books, AtWork, EntryFits
<1>6. PassFits' /\ PickIsReady'
  BY <1>d, <1>e DEF PassFits, PickIsReady, Dispatched
<1>7. OneWorker'
  BY <1>a DEF SerialInv, OneWorker, AtWork
<1> QED
  BY <1>1, <1>2, <1>3, <1>4, <1>5, <1>6, <1>7 DEF SerialInv, Serial

\* What does not depend on the pass stays as it is when only the pass moves on.
LEMMA PassMoves ==
  ASSUME BaseInv, SerialInv, stage = "passing", pass'.snap = pass.snap,
         UNCHANGED <<disk, lockq, stage, held, req, pmLive, hook>>,
         \A s \in Sessions : \/ sess'[s] = sess[s]
                             \/ /\ sess[s].phase = "unused"
                                /\ sess'[s].phase \in {"live", "orphan"}
                                /\ sess'[s].closure = "running"
  PROVE  RequestsFit' /\ DiskFits' /\ HolderFits' /\ QueueFits'
<1>a. ~Quiet /\ lockq # <<>>
  BY InPass
<1>1. RequestsFit'
  <2>1. RunningEntries(disk'.worker) = RunningEntries(disk.worker)
    BY DEF RunningEntries
  <2>2. LiveTasks \subseteq LiveTasks'
    BY DEF LiveTasks
  <2>3. Booting => RunningEntries(disk.worker) \subseteq LiveTasks
    BY DEF Booting
  <2>4. Booting => Booting'
    <3> SUFFICES ASSUME Booting PROVE Booting'
      OBVIOUS
    <3>1. lockq' = lockq /\ RunningEntries(disk'.worker) \subseteq LiveTasks'
      BY <2>1, <2>2, <2>3
    <3>2. \A s \in Sessions : \/ sess'[s].phase \in {"unused", "gone", "orphan"}
                              \/ sess'[s].phase = "live" /\ sess'[s].closure = "running"
      BY DEF Booting
    <3> QED
      BY <3>1, <3>2, BootingStays DEF Booting
  <2> QED
    BY <1>a, <2>4, BusyRequests
<1>2. DiskFits'
  BY <1>a, BusyDiskKept
<1>3. HolderFits'
  BY InPass DEF HolderFits
<1>4. QueueFits'
  <2>1. Recorded' = Recorded
    BY DEF Recorded
  <2> QED
    BY <2>1, QueueStays DEF SerialInv
<1> QED
  BY <1>1, <1>2, <1>3, <1>4

\* The next task has no session, and its dependencies have exited cleanly.
LEMMA PassPickSerial == BaseInv /\ SerialInv /\ PassPick => SerialInv'
<1> SUFFICES ASSUME BaseInv, SerialInv, PassPick PROVE SerialInv'
  OBVIOUS
<1>a. /\ stage = "passing" /\ pass \in Pass
      /\ UNCHANGED <<disk, sess, lockq, stage, held, req, pmLive, hook>>
  BY DEF PassPick, BaseInv, TypeOK
<1>b. PICK j \in ReadyFrom(View, pass.at) : pass' = [pass EXCEPT !.next = j, !.at = j + 1]
  BY DEF PassPick
<1>c. pass'.snap = pass.snap /\ pass'.mine = pass.mine /\ pass'.next = j
  BY <1>a, <1>b DEF Pass
<1>d. j \in 1..Len(PlanOrder) /\ PlanOrder[j] \in Tasks
  BY <1>a, <1>b, OrderAssumption DEF ReadyFrom, Pass
<1>e. View[PlanOrder[j]] = "none" /\ \A d \in Deps[PlanOrder[j]] : View[d] = "done"
  BY <1>b DEF ReadyFrom, DepsReady
<1>f. \A t \in Tasks : View[t] = IF pass.mine[t] # NoSession THEN sess[pass.mine[t]].closure
                                 ELSE pass.snap.worker[t]
  BY DEF View, Entries
<1>1. RequestsFit' /\ DiskFits' /\ HolderFits' /\ QueueFits'
  BY <1>a, <1>c, PassMoves
<1>2. Books' /\ OneWorker'
  BY <1>a, <1>c DEF SerialInv, Books, OneWorker, AtWork, EntryFits
<1>3. PassFits'
  <2>1. \A t \in Dispatched' : /\ pass'.mine[t] \in AtWork' /\ sess'[pass'.mine[t]].task = t
                               /\ pass'.snap.worker[t] = "none"
    BY <1>a, <1>c DEF SerialInv, PassFits, Dispatched, AtWork
  <2>2. pass.mine[PlanOrder[j]] = NoSession
    <3> SUFFICES ASSUME pass.mine[PlanOrder[j]] # NoSession PROVE FALSE
      OBVIOUS
    <3>1. pass.mine[PlanOrder[j]] \in AtWork
      BY <1>d DEF SerialInv, PassFits, Dispatched
    <3>2. sess[pass.mine[PlanOrder[j]]].closure \in Closures
      BY <3>1 DEF SerialInv, Books
    <3> QED
      BY <1>d, <1>e, <1>f, <3>2 DEF Closures
  <2>3. pass.snap.worker[PlanOrder[j]] = "none"
    BY <1>d, <1>e, <1>f, <2>2
  <2> QED
    BY <1>c, <2>1, <2>2, <2>3 DEF PassFits
<1>4. PickIsReady'
  <2>1. Deps[PlanOrder[j]] \subseteq Tasks
    BY <1>d, DepsAssumption
  <2> QED
    BY <1>a, <1>c, <1>e, <1>f, <2>1 DEF PickIsReady
<1> QED
  BY <1>1, <1>2, <1>3, <1>4 DEF SerialInv, Serial

\* The task being provisioned has nobody at work on it.
LEMMA NextIsFree ==
  ASSUME BaseInv, SerialInv, Provisioning
  PROVE  /\ PlanOrder[pass.next] \in Tasks
         /\ disk.worker[PlanOrder[pass.next]] = "none"
         /\ pass.mine[PlanOrder[pass.next]] = NoSession
         /\ \A r \in AtWork : sess[r].task # PlanOrder[pass.next]
<1>1. PlanOrder[pass.next] \in Tasks
  BY OrderAssumption DEF Provisioning, BaseInv, TypeOK, Pass
<1>2. /\ disk.worker[PlanOrder[pass.next]] = "none"
      /\ pass.mine[PlanOrder[pass.next]] = NoSession
  BY InPass DEF Provisioning, SerialInv, PassFits
<1>3. ASSUME NEW r \in AtWork, sess[r].task = PlanOrder[pass.next] PROVE FALSE
  <2>1. pass.mine[sess[r].task] # r
    BY <1>2, <1>3, BoundsAssumption DEF AtWork, Sessions, NoSession
  <2>2. disk.worker[sess[r].task] \in Closures
    BY <1>3, <2>1 DEF SerialInv, Books, EntryFits
  <2> QED
    BY <1>2, <1>3, <2>2 DEF Closures
<1> QED
  BY <1>1, <1>2, <1>3

\* The pass enters the new session in its books.
LEMMA PassSpawnSerial == BaseInv /\ SerialInv /\ PassSpawn => SerialInv'
<1> SUFFICES ASSUME BaseInv, SerialInv, PassSpawn PROVE SerialInv'
  OBVIOUS
<1> DEFINE t == PlanOrder[pass.next]
<1>a. /\ stage = "passing" /\ pass \in Pass /\ sess \in [Sessions -> Session]
      /\ UNCHANGED <<disk, lockq, stage, held, req, pmLive, hook>>
  BY DEF PassSpawn, Provisioning, BaseInv, TypeOK
<1>b. /\ t \in Tasks /\ disk.worker[t] = "none" /\ pass.mine[t] = NoSession
      /\ \A r \in AtWork : sess[r].task # t
  BY NextIsFree DEF PassSpawn
<1>c. PICK s \in Sessions : /\ Fresh(s) /\ Spawned(s, t, "live")
                            /\ pass' = [pass EXCEPT !.mine[t] = s, !.next = 0]
  BY DEF PassSpawn
<1> HIDE DEF t
<1>d. /\ pass'.snap = pass.snap /\ pass'.next = 0
      /\ pass'.mine = [pass.mine EXCEPT ![t] = s]
      /\ pass.mine \in [Tasks -> 0..MaxSessions]
  BY <1>a, <1>c DEF Pass
<1>e. /\ s \notin AtWork /\ s # NoSession /\ sess[s].phase = "unused"
      /\ sess'[s] = [task |-> t, phase |-> "live", closure |-> "running"]
      /\ \A r \in Sessions \ {s} : sess'[r] = sess[r]
  BY <1>a, <1>c, BoundsAssumption DEF Fresh, Spawned, AtWork, Sessions, NoSession
<1>f. AtWork' = AtWork \cup {s} /\ AtWork \subseteq Sessions
  BY <1>e DEF AtWork
<1>1. RequestsFit' /\ DiskFits' /\ HolderFits' /\ QueueFits'
  BY <1>a, <1>d, <1>e, PassMoves
<1>2. Books'
  <2>1. ASSUME NEW r \in AtWork
        PROVE  /\ sess'[r] = sess[r] /\ sess[r].task \in Tasks
               /\ pass'.mine[sess[r].task] = pass.mine[sess[r].task]
    BY <1>a, <1>b, <1>d, <1>e, <1>f DEF Session
  <2>2. /\ sess'[s].closure = "running" /\ sess'[s].task = t /\ pass'.mine[t] = s
        /\ sess'[s].closure \in Closures
    BY <1>b, <1>d, <1>e DEF Closures
  <2>3. ASSUME NEW r \in AtWork
        PROVE  /\ sess'[r].closure \in Closures
               /\ sess'[r].phase = "live" => sess'[r].closure \in {"running", "stuck"}
               /\ pass'.mine[sess'[r].task] = r \/ EntryFits(r, disk.worker[sess[r].task])
    BY <2>1 DEF SerialInv, Books
  <2>4. ASSUME NEW r \in AtWork, EntryFits(r, disk.worker[sess[r].task])
        PROVE  EntryFits(r, disk.worker[sess[r].task])'
    BY <1>a, <2>1, <2>4 DEF EntryFits
  <2> QED
    BY <1>f, <2>2, <2>3, <2>4 DEF Books
<1>3. PassFits' /\ PickIsReady'
  <2>1. ASSUME NEW u \in Dispatched'
        PROVE  /\ pass'.mine[u] \in AtWork' /\ sess'[pass'.mine[u]].task = u
               /\ pass'.snap.worker[u] = "none"
    <3>1. CASE u = t
      BY <1>a, <1>b, <1>d, <1>e, <1>f, <3>1, InPass
    <3>2. CASE u # t
      <4>1. u \in Dispatched /\ pass'.mine[u] = pass.mine[u]
        BY <1>d, <2>1, <3>2 DEF Dispatched
      <4>2. /\ pass.mine[u] \in AtWork /\ sess[pass.mine[u]].task = u
            /\ pass.snap.worker[u] = "none"
        BY <4>1 DEF SerialInv, PassFits
      <4> QED
        BY <1>d, <1>e, <1>f, <4>1, <4>2
    <3> QED
      BY <3>1, <3>2
  <2> QED
    BY <1>d, <2>1 DEF PassFits, PickIsReady
<1>4. OneWorker'
  <2>1. ASSUME NEW r \in AtWork PROVE sess'[r] = sess[r] /\ sess[r].task # t
    BY <1>b, <1>e, <1>f
  <2> QED
    BY <1>e, <1>f, <2>1 DEF SerialInv, OneWorker
<1> QED
  BY <1>1, <1>2, <1>3, <1>4 DEF SerialInv, Serial

\* A session nobody listens to is in nobody's books.
LEMMA PassGivesUpSerial ==
  BaseInv /\ SerialInv /\ (PassSpawnFails \/ PassSpawnTimesOut) => SerialInv'
<1> SUFFICES ASSUME BaseInv, SerialInv, PassSpawnFails \/ PassSpawnTimesOut PROVE SerialInv'
  OBVIOUS
<1>a. /\ stage = "passing" /\ pass \in Pass /\ sess \in [Sessions -> Session]
      /\ UNCHANGED <<disk, lockq, stage, held, req, pmLive, hook>>
      /\ pass' = [pass EXCEPT !.next = 0]
  BY DEF PassSpawnFails, PassSpawnTimesOut, Provisioning, BaseInv, TypeOK
<1>b. pass'.snap = pass.snap /\ pass'.mine = pass.mine /\ pass'.next = 0
  BY <1>a DEF Pass
<1>c. \A s \in Sessions : \/ sess'[s] = sess[s]
                          \/ /\ sess[s].phase = "unused"
                             /\ sess'[s].phase = "orphan" /\ sess'[s].closure = "running"
  BY <1>a DEF PassSpawnFails, PassSpawnTimesOut, Fresh, Spawned
<1>d. AtWork' = AtWork /\ \A r \in AtWork : sess'[r] = sess[r]
  BY <1>c DEF AtWork
<1>1. RequestsFit' /\ DiskFits' /\ HolderFits' /\ QueueFits'
  BY <1>a, <1>b, <1>c, PassMoves
<1>2. Books'
  BY <1>a, <1>b, <1>d DEF SerialInv, Books, EntryFits
<1>3. PassFits' /\ PickIsReady'
  BY <1>b, <1>d DEF SerialInv, PassFits, PickIsReady, Dispatched
<1>4. OneWorker'
  BY <1>d DEF SerialInv, OneWorker
<1> QED
  BY <1>1, <1>2, <1>3, <1>4 DEF SerialInv, Serial

\* What the pass shows of a task is the status of its session, if it has one.
LEMMA ViewOf ==
  ASSUME NEW t \in Tasks
  PROVE  View[t] = IF pass.mine[t] # NoSession THEN sess[pass.mine[t]].closure
                   ELSE pass.snap.worker[t]
BY DEF View, Entries

\* The save at the end of a pass replaces entries that are still missing only.
LEMMA PassEndSerial == BaseInv /\ SerialInv /\ PassEnd => SerialInv'
<1> SUFFICES ASSUME BaseInv, SerialInv, PassEnd PROVE SerialInv'
  OBVIOUS
<1>a. /\ stage = "passing" /\ pass \in Pass /\ disk \in Run
      /\ UNCHANGED <<sess, held, req, pmLive, hook>>
      /\ pass' = NoPass /\ AfterPass
      /\ disk' = IF Dispatched # {} THEN [pass.snap EXCEPT !.worker = View] ELSE disk
  BY DEF PassEnd, BaseInv, TypeOK
<1>b. /\ ~Quiet /\ lockq # <<>> /\ pass.snap = disk /\ disk.status = "running"
      /\ Head(lockq).kind \in {"dispatch", "exit"}
      /\ Head(lockq).kind = "exit" => held = disk
  BY <1>a, InPass
<1>c. disk'.status = "running"
  BY <1>a, <1>b DEF Run
<1>d. \A t \in Tasks : /\ pass.mine[t] # NoSession => disk'.worker[t] = sess[pass.mine[t]].closure
                       /\ pass.mine[t] = NoSession => disk'.worker[t] = disk.worker[t]
  <2>1. CASE Dispatched # {}
    <3>1. disk'.worker = View
      BY <1>a, <1>b, <2>1 DEF Run
    <3> QED
      BY <1>b, <3>1, ViewOf
  <2>2. CASE Dispatched = {}
    BY <1>a, <2>2 DEF Dispatched
  <2> QED
    BY <2>1, <2>2
<1>e. disk'.worker[PM] = "none"
  <2>1. View[PM] = pass.snap.worker[PM]
    BY TasksAssumption DEF View, Entries
  <2> QED
    BY <1>a, <1>b, <2>1 DEF SerialInv, DiskFits, Run
<1>f. \A t \in Tasks : pass.mine[t] # NoSession =>
        /\ pass.mine[t] \in AtWork /\ sess[pass.mine[t]].task = t
        /\ disk.worker[t] = "none" /\ sess[pass.mine[t]].closure \in Closures
  BY <1>b DEF SerialInv, PassFits, Books, Dispatched
<1>g. lockq' = lockq \/ lockq' = Tail(lockq)
  BY <1>a DEF AfterPass, Release
<1>1. RequestsFit'
  <2>1. ASSUME Booting PROVE Booting'
    <3>1. RunningEntries(disk'.worker) \subseteq LiveTasks
      <4> SUFFICES ASSUME NEW e \in Entries, disk'.worker[e] = "running" PROVE e \in LiveTasks
        BY DEF RunningEntries
      <4>1. e \in Tasks
        BY <1>e DEF Entries
      <4>2. CASE pass.mine[e] # NoSession
        <5>1. pass.mine[e] \in AtWork /\ sess[pass.mine[e]].task = e
          BY <1>f, <4>1, <4>2
        <5>2. sess[pass.mine[e]].phase = "live" /\ pass.mine[e] \in Sessions
          BY <2>1, <5>1 DEF Booting, AtWork
        <5> QED
          BY <5>1, <5>2 DEF LiveTasks
      <4>3. CASE pass.mine[e] = NoSession
        BY <1>d, <2>1, <4>1, <4>3 DEF Booting, RunningEntries, Entries
      <4> QED
        BY <4>2, <4>3
    <3>2. LiveTasks' = LiveTasks
      BY <1>a DEF LiveTasks
    <3>3. \A s \in Sessions : \/ sess'[s].phase \in {"unused", "gone", "orphan"}
                              \/ sess'[s].phase = "live" /\ sess'[s].closure = "running"
      BY <1>a, <2>1 DEF Booting
    <3> QED
      BY <1>b, <1>g, <2>1, <3>1, <3>2, <3>3, BootingStays DEF Booting
  <2> QED
    BY <1>a, <1>b, <2>1, BusyRequests
<1>2. DiskFits'
  <2>1. InterruptedTasks(disk') = {}
    <3>1. InterruptedTasks(disk) = {}
      BY <1>b, BusyAlone
    <3>2. ASSUME NEW t \in Tasks, disk'.worker[t] = "interrupted" PROVE FALSE
      BY <1>d, <1>f, <3>1, <3>2 DEF InterruptedTasks, Closures
    <3> QED
      BY <3>2 DEF InterruptedTasks
  <2> QED
    BY <1>b, <1>c, <1>e, <2>1, BusyDisk
<1>3. HolderFits'
  <2>1. CASE Head(lockq).kind = "exit"
    <3>1. stage' = "finishing" /\ lockq' = lockq
      BY <1>a, <2>1 DEF AfterPass
    <3>2. held = disk' \/ ~AllResolved(held)
      <4>1. CASE Dispatched = {}
        BY <1>a, <1>b, <2>1, <4>1
      <4>2. CASE Dispatched # {}
        <5>1. PICK t \in Tasks : pass.mine[t] # NoSession
          BY <4>2 DEF Dispatched
        <5>2. held.worker[t] = "none"
          BY <1>b, <1>f, <2>1, <5>1
        <5> QED
          BY <5>2 DEF AllResolved, Resolved
      <4> QED
        BY <4>1, <4>2
    <3> QED
      BY <1>a, <2>1, <3>1, <3>2 DEF HolderFits, AllResolved
  <2>2. CASE Head(lockq).kind # "exit"
    BY <1>a, <2>2 DEF HolderFits, AfterPass, Release
  <2> QED
    BY <2>1, <2>2
<1>4. QueueFits'
  <2>1. CASE Head(lockq).kind = "exit"
    <3>1. UNCHANGED lockq /\ Recorded' = Recorded
      BY <1>a, <2>1 DEF AfterPass, Recorded
    <3> QED
      BY <1>a, <3>1, QueueStays DEF SerialInv
  <2>2. CASE Head(lockq).kind # "exit"
    <3>1. Release
      BY <1>a, <2>2 DEF AfterPass
    <3> QED
      BY <1>a, <1>b, <3>1, QueueMovesUp DEF SerialInv
  <2> QED
    BY <2>1, <2>2
<1>5. Books'
  <2> SUFFICES ASSUME NEW s \in AtWork
               PROVE  EntryFits(s, disk'.worker[sess[s].task])
    BY <1>a DEF SerialInv, Books, AtWork, EntryFits
  <2> DEFINE t == sess[s].task
  <2>1. t \in Tasks /\ s \in Sessions
    BY DEF AtWork, BaseInv, TypeOK, Session
  <2>2. sess[s].closure \in Closures /\ (pass.mine[t] = s \/ EntryFits(s, disk.worker[t]))
    BY DEF SerialInv, Books
  <2>3. s # NoSession
    BY <2>1, BoundsAssumption DEF Sessions, NoSession
  <2>4. CASE pass.mine[t] # NoSession
    <3>1. pass.mine[t] = s
      BY <1>f, <2>1, <2>4 DEF SerialInv, OneWorker
    <3> QED
      BY <1>d, <2>1, <2>2, <2>4, <3>1 DEF EntryFits
  <2>5. CASE pass.mine[t] = NoSession
    BY <1>d, <2>1, <2>2, <2>3, <2>5
  <2> QED
    BY <2>4, <2>5
<1>6. PassFits' /\ PickIsReady'
  BY <1>a DEF PassFits, PickIsReady, Dispatched, NoPass
<1>7. OneWorker'
  BY <1>a DEF SerialInv, OneWorker, AtWork
<1> QED
  BY <1>1, <1>2, <1>3, <1>4, <1>5, <1>6, <1>7 DEF SerialInv, Serial

\* The pass as a whole.
LEMMA PassSerial == BaseInv /\ SerialInv /\ PassStep => SerialInv'
BY PassBeginSerial, PassPickSerial, PassSpawnSerial, PassGivesUpSerial, PassEndSerial
DEF PassStep

-----------------------------------------------------------------------------
(***************************************************************************)
(* The sessions.                                                           *)
(***************************************************************************)

\* The queue fits when a job other than an exit joins it.
LEMMA QueueGrowsByOther ==
  ASSUME BaseInv, QueueFits, UNCHANGED stage, NEW j \in Job, j.kind # "exit",
         lockq' = Append(lockq, j),
         \A s \in Sessions : sess'[s].phase = sess[s].phase \/ sess[s].phase \notin {"queued", "recorded"}
  PROVE  QueueFits'
<1>a. lockq \in Seq(Job) /\ Recorded' = Recorded
  BY DEF BaseInv, TypeOK, Recorded
<1>1. \A i \in 1..Len(lockq) : lockq[i].kind = "exit" =>
        /\ lockq[i].sid \in Sessions
        /\ sess[lockq[i].sid].phase = IF i = 1 /\ Recorded THEN "recorded" ELSE "queued"
  BY DEF BaseInv, ExitJobsEnded, Ended, QueueFits
<1>2. ASSUME NEW i \in 1..Len(lockq'), lockq'[i].kind = "exit"
      PROVE  i \in 1..Len(lockq) /\ lockq'[i] = lockq[i]
  BY <1>a, <1>2
<1>3. ASSUME NEW i \in 1..Len(lockq'), lockq'[i].kind = "exit"
      PROVE  sess'[lockq'[i].sid].phase = IF i = 1 /\ Recorded' THEN "recorded" ELSE "queued"
  <2>1. i \in 1..Len(lockq) /\ lockq'[i] = lockq[i]
    BY <1>2, <1>3
  <2>2. sess[lockq[i].sid].phase = IF i = 1 /\ Recorded THEN "recorded" ELSE "queued"
    BY <1>1, <1>3, <2>1
  <2>3. sess'[lockq[i].sid].phase = sess[lockq[i].sid].phase
    BY <1>1, <1>3, <2>1, <2>2
  <2> QED
    BY <1>a, <2>1, <2>2, <2>3
<1>4. ASSUME NEW i \in 1..Len(lockq'), NEW k \in 1..Len(lockq'),
             lockq'[i].kind = "exit", lockq'[k].kind = "exit", i # k
      PROVE  lockq'[i].sid # lockq'[k].sid
  BY <1>2, <1>4 DEF QueueFits
<1> QED
  BY <1>3, <1>4 DEF QueueFits

\* What a session that has not been queued does is no business of the job at the head.
LEMMA SessionMovesAlone ==
  ASSUME BaseInv, SerialInv, NEW s \in Sessions,
         sess[s].phase \notin {"unused", "gone", "queued", "recorded"},
         \A r \in Sessions \ {s} : sess'[r] = sess[r],
         lockq' = lockq \/ \E j \in Job : lockq' = Append(lockq, j),
         UNCHANGED <<disk, stage, held, pass, req, pmLive, hook>>
  PROVE  DiskFits' /\ HolderFits'
<1>a. lockq \in Seq(Job) /\ ~Quiet
  BY DEF BaseInv, TypeOK, Quiet
<1>1. DiskFits'
  BY <1>a, BusyDiskKept
<1>2. stage # "idle" => lockq # <<>> /\ Head(lockq') = Head(lockq)
  <2>1. stage # "idle" => lockq # <<>>
    BY DEF BaseInv, LockHeld
  <2> QED
    BY <1>a, <2>1
<1>3. stage = "loaded" /\ Head(lockq).kind = "exit" =>
        sess'[HolderSession] = sess[HolderSession]
  <2> SUFFICES ASSUME stage = "loaded", Head(lockq).kind = "exit"
               PROVE  sess'[HolderSession] = sess[HolderSession]
    OBVIOUS
  <2>1. lockq # <<>> /\ lockq[1] = Head(lockq) /\ 1 \in 1..Len(lockq)
    BY <1>a, <1>2
  <2>2. HolderSession \in Sessions
    BY <2>1, HolderEnded
  <2>3. sess[HolderSession].phase \in {"queued", "recorded"}
    BY <2>1 DEF SerialInv, QueueFits, HolderSession
  <2> QED
    BY <2>2, <2>3
<1>4. stage # "idle" => HolderSession' = HolderSession
  BY <1>2 DEF HolderSession
<1>5. HolderFits
  BY DEF SerialInv
<1>6. HolderFits'
  <2>1. stage' \in Stages
    BY DEF BaseInv, TypeOK
  <2>2. CASE stage = "idle"
    BY <1>5, <2>2 DEF HolderFits
  <2>3. CASE stage = "loaded"
    BY <1>2, <1>3, <1>4, <1>5, <2>3 DEF HolderFits
  <2>4. CASE stage \in {"saved", "passing", "finishing"}
    BY <1>2, <1>5, <2>4 DEF HolderFits, AllResolved
  <2> QED
    BY <2>1, <2>2, <2>3, <2>4 DEF Stages
<1> QED
  BY <1>1, <1>6

\* A worker at work stays in the books of run.json or of the pass.
LEMMA WorkerStaysInBooks ==
  ASSUME BaseInv, SerialInv, NEW s \in Sessions, s \in AtWork, s \in AtWork',
         sess'[s].task = sess[s].task,
         \A r \in Sessions \ {s} : sess'[r] = sess[r],
         sess'[s].closure \in Closures,
         sess'[s].phase = "live" => sess'[s].closure = "stuck",
         sess'[s].closure # "running",
         sess[s].closure \in {"done", "validation_failed"} =>
           sess'[s].closure \in {"done", "validation_failed"},
         UNCHANGED <<disk, pass>>
  PROVE  Books' /\ PassFits' /\ PickIsReady' /\ OneWorker'
<1>a. AtWork' = AtWork /\ AtWork \subseteq Sessions
  BY DEF AtWork
<1>b. \A r \in AtWork : sess'[r].task = sess[r].task
  BY <1>a
<1>1. Books'
  <2>1. ASSUME NEW r \in AtWork, r # s
        PROVE  sess'[r] = sess[r]
    BY <1>a, <2>1
  <2>2. ASSUME NEW r \in AtWork, EntryFits(r, disk.worker[sess[r].task])
        PROVE  EntryFits(r, disk.worker[sess[r].task])'
    BY <1>b, <2>1, <2>2 DEF EntryFits
  <2>3. ASSUME NEW r \in AtWork
        PROVE  /\ sess'[r].closure \in Closures
               /\ sess'[r].phase = "live" => sess'[r].closure \in {"running", "stuck"}
               /\ pass.mine[sess'[r].task] = r \/ EntryFits(r, disk.worker[sess[r].task])
    BY <1>b, <2>1 DEF SerialInv, Books
  <2> QED
    BY <1>a, <2>2, <2>3 DEF Books
<1>2. PassFits'
  BY <1>a, <1>b DEF SerialInv, PassFits, Dispatched
<1>3. PickIsReady'
  <2> SUFFICES ASSUME pass.next # 0, NEW d \in Deps[PlanOrder[pass.next]]
               PROVE  IF pass.mine[d] = NoSession THEN pass.snap.worker[d] = "done"
                      ELSE sess'[pass.mine[d]].closure \in {"done", "validation_failed"}
    BY DEF PickIsReady
  <2>1. PlanOrder[pass.next] \in Tasks
    BY OrderAssumption DEF BaseInv, TypeOK, Pass
  <2>2. d \in Tasks
    BY <2>1, DepsAssumption
  <2>3. pass.mine[d] # NoSession => pass.mine[d] \in AtWork
    BY <2>2 DEF SerialInv, PassFits, Dispatched
  <2> QED
    BY <1>a, <2>3 DEF SerialInv, PickIsReady
<1>4. OneWorker'
  BY <1>a, <1>b DEF SerialInv, OneWorker
<1> QED
  BY <1>1, <1>2, <1>3, <1>4

\* Nor do sessions that are not at work matter to the books.
LEMMA OthersAreNotInBooks ==
  ASSUME BaseInv, SerialInv, NEW s \in Sessions, s \notin AtWork, s \notin AtWork',
         \A r \in Sessions \ {s} : sess'[r] = sess[r],
         UNCHANGED <<disk, pass>>
  PROVE  Books' /\ PassFits' /\ PickIsReady' /\ OneWorker'
<1>a. AtWork' = AtWork /\ AtWork \subseteq Sessions
  BY DEF AtWork
<1>b. \A r \in AtWork : sess'[r] = sess[r]
  BY <1>a
<1>1. Books'
  BY <1>a, <1>b DEF SerialInv, Books, EntryFits
<1>2. PassFits'
  BY <1>a, <1>b DEF SerialInv, PassFits, Dispatched
<1>3. PickIsReady'
  <2> SUFFICES ASSUME pass.next # 0, NEW d \in Deps[PlanOrder[pass.next]]
               PROVE  IF pass.mine[d] = NoSession THEN pass.snap.worker[d] = "done"
                      ELSE sess'[pass.mine[d]].closure \in {"done", "validation_failed"}
    BY DEF PickIsReady
  <2>1. PlanOrder[pass.next] \in Tasks
    BY OrderAssumption DEF BaseInv, TypeOK, Pass
  <2>2. d \in Tasks
    BY <2>1, DepsAssumption
  <2>3. pass.mine[d] # NoSession => pass.mine[d] \in AtWork
    BY <2>2 DEF SerialInv, PassFits, Dispatched
  <2> QED
    BY <1>b, <2>3 DEF SerialInv, PickIsReady
<1>4. OneWorker'
  BY <1>a, <1>b DEF SerialInv, OneWorker
<1> QED
  BY <1>1, <1>2, <1>3, <1>4

\* While the server boots no worker ends: the recovery is over before.
LEMMA NobodyEndsAtBoot ==
  ASSUME SerialInv, NEW s \in Sessions, ~Quiet,
         Stall(s) \/ ExitClean(s) \/ ExitUnclean(s) \/ Validated(s) \/ ConflictScan(s)
  PROVE  req["recovery"].op = "idle"
<1>1. "slow_recovery" \notin Faults
  BY DEF SerialInv, Serial
<1>2. CASE Stall(s) \/ ExitClean(s) \/ ExitUnclean(s)
  BY <1>1, <1>2 DEF Stall, ExitClean, ExitUnclean, BootIsOver
<1>3. CASE Validated(s) \/ ConflictScan(s)
  <2>1. sess[s].phase \in {"checking", "scanning"}
    BY <1>3 DEF Validated, ConflictScan
  <2>2. ~Booting
    BY <2>1 DEF Booting
  <2> QED
    BY <2>2, BusyAlone
<1> QED
  BY <1>2, <1>3

\* Nothing is asked of the requests and of the recovery once that is over.
LEMMA BusyNoRecovery ==
  ASSUME SerialInv, ~Quiet, req["recovery"].op = "idle", UNCHANGED <<req, pmLive, hook>>
  PROVE  RequestsFit'
<1>1. \A c \in Clients : ClientFits(c)'
  BY BusyAlone DEF ClientFits
<1>2. RecoveryFits'
  BY BusyAlone DEF RecoveryFits
<1> QED
  BY <1>1, <1>2 DEF SerialInv, RequestsFit

\* Every event of a session, seen from its books.
LEMMA SessionSerial ==
  ASSUME BaseInv, SerialInv, NEW s \in Sessions, SessionStep(s)
  PROVE  SerialInv'
<1>a. /\ sess \in [Sessions -> Session] /\ sess[s] \in Session
      /\ UNCHANGED <<disk, stage, held, pass, req, pmLive, hook>>
  BY DEF BaseInv, TypeOK, SessionStep, Stall, ExitClean, ExitUnclean, Validated,
     OrphanExits, ConflictScan
<1>b. sess[s].phase \in {"live", "checking", "orphan", "scanning"}
  BY DEF SessionStep, Stall, ExitClean, ExitUnclean, Validated, OrphanExits, ConflictScan
<1>c. ~Quiet
  BY <1>b DEF Quiet
<1>d. /\ \A r \in Sessions \ {s} : sess'[r] = sess[r]
      /\ sess'[s].task = sess[s].task
  BY <1>a DEF SessionStep, Stall, ExitClean, ExitUnclean, Validated, OrphanExits, ConflictScan,
     Session
<1>e. ExitJob(s) \in Job /\ ConflictsJob \in Job /\ ConflictsJob.kind # "exit"
  BY BoundsAssumption DEF ExitJob, ConflictsJob, Job, Sessions, NoSession
<1>f. lockq' = lockq \/ \E j \in Job : lockq' = Append(lockq, j)
  BY <1>e DEF SessionStep, Stall, ExitClean, ExitUnclean, Validated, OrphanExits, ConflictScan
<1>1. DiskFits' /\ HolderFits'
  BY <1>a, <1>b, <1>d, <1>f, SessionMovesAlone
<1>2. RequestsFit'
  <2>1. CASE OrphanExits(s)
    <3>1. sess'[s].phase = "gone" /\ UNCHANGED lockq
      BY <1>a, <2>1 DEF OrphanExits
    <3>2. LiveTasks \subseteq LiveTasks'
      BY <1>d, <1>a, <2>1 DEF LiveTasks, OrphanExits
    <3>3. RunningEntries(disk'.worker) = RunningEntries(disk.worker)
      BY <1>a DEF RunningEntries
    <3>4. ASSUME Booting PROVE Booting'
      <4>1. RunningEntries(disk'.worker) \subseteq LiveTasks'
        BY <3>2, <3>3, <3>4 DEF Booting
      <4>2. \A r \in Sessions : \/ sess'[r].phase \in {"unused", "gone", "orphan"}
                                \/ sess'[r].phase = "live" /\ sess'[r].closure = "running"
        BY <1>d, <3>1, <3>4 DEF Booting
      <4> QED
        BY <3>1, <3>4, <4>1, <4>2, BootingStays DEF Booting
    <3> QED
      BY <1>a, <1>c, <3>4, BusyRequests
  <2>2. CASE ~OrphanExits(s)
    BY <1>a, <1>c, <2>2, NobodyEndsAtBoot, BusyNoRecovery DEF SessionStep
  <2> QED
    BY <2>1, <2>2
<1>3. QueueFits'
  <2>1. CASE Stall(s) \/ ExitClean(s) \/ OrphanExits(s)
    <3>1. UNCHANGED lockq /\ Recorded' = Recorded
      BY <1>a, <2>1 DEF Stall, ExitClean, OrphanExits, Recorded
    <3> QED
      BY <1>b, <1>d, <3>1, QueueStays DEF SerialInv
  <2>2. CASE ExitUnclean(s) \/ Validated(s)
    <3>1. lockq' = Append(lockq, ExitJob(s))
      BY <2>2 DEF ExitUnclean, Validated
    <3>2. ExitUnclean(s) => sess'[s].phase = "queued"
      BY <1>a DEF ExitUnclean, Session
    <3>3. Validated(s) => sess'[s].phase = "queued"
      BY <1>a DEF Validated, Session
    <3> QED
      BY <1>a, <1>b, <1>d, <2>2, <3>1, <3>2, <3>3, QueueGrows DEF SerialInv
  <2>3. CASE ConflictScan(s)
    <3>1. CASE UNCHANGED lockq
      <4>1. Recorded' = Recorded
        BY <1>a DEF Recorded
      <4> QED
        BY <1>b, <1>d, <3>1, <4>1, QueueStays DEF SerialInv
    <3>2. CASE lockq' = Append(lockq, ConflictsJob)
      BY <1>a, <1>b, <1>d, <1>e, <3>2, QueueGrowsByOther DEF SerialInv
    <3> QED
      BY <2>3, <3>1, <3>2 DEF ConflictScan
  <2> QED
    BY <2>1, <2>2, <2>3 DEF SessionStep
<1>4. Books' /\ PassFits' /\ PickIsReady' /\ OneWorker'
  <2>1. CASE OrphanExits(s) \/ ConflictScan(s)
    <3>1. sess[s].phase \in {"orphan", "scanning"}
      BY <2>1 DEF OrphanExits, ConflictScan
    <3>2. sess' = [sess EXCEPT ![s].phase = "gone"]
      BY <2>1 DEF OrphanExits, ConflictScan
    <3>3. sess'[s].phase = "gone"
      BY <1>a, <3>2 DEF Session
    <3>4. s \notin AtWork /\ s \notin AtWork'
      BY <3>1, <3>3 DEF AtWork
    <3> QED
      BY <1>a, <1>d, <3>4, OthersAreNotInBooks
  <2>2. CASE Stall(s) \/ ExitClean(s) \/ ExitUnclean(s) \/ Validated(s)
    <3>1. s \in AtWork
      BY <2>2 DEF Stall, ExitClean, ExitUnclean, Validated, AtWork
    <3>2. sess[s].phase = "live" => sess[s].closure \in {"running", "stuck"}
      BY <3>1 DEF SerialInv, Books
    <3>3. /\ s \in AtWork'
          /\ sess'[s].closure \in Closures \ {"running"}
          /\ sess'[s].phase = "live" => sess'[s].closure = "stuck"
          /\ sess[s].closure \in {"done", "validation_failed"} =>
               sess'[s].closure \in {"done", "validation_failed"}
      <4>1. CASE Stall(s)
        BY <1>a, <4>1 DEF Stall, AtWork, Closures
      <4>2. CASE ExitClean(s)
        BY <1>a, <4>2 DEF ExitClean, AtWork, Closures
      <4>3. CASE ExitUnclean(s)
        BY <1>a, <3>2, <4>3 DEF ExitUnclean, AtWork, Closures
      <4>4. CASE Validated(s)
        BY <1>a, <4>4 DEF Validated, AtWork, Closures
      <4> QED
        BY <2>2, <4>1, <4>2, <4>3, <4>4
    <3> QED
      BY <1>a, <1>d, <3>1, <3>3, WorkerStaysInBooks
  <2> QED
    BY <2>1, <2>2 DEF SessionStep
<1> QED
  BY <1>1, <1>2, <1>3, <1>4 DEF SerialInv, Serial

-----------------------------------------------------------------------------
(***************************************************************************)
(* The exit jobs and the conflicts jobs.                                   *)
(***************************************************************************)

\* While an exit or a conflicts job holds the lock no recovery is about.
LEMMA InJob ==
  ASSUME BaseInv, SerialInv, lockq # <<>>, Head(lockq).kind # "dispatch"
  PROVE  ~Quiet /\ req["recovery"].op = "idle"
<1>1. 1 \in 1..Len(lockq) /\ lockq[1] = Head(lockq)
  BY DEF BaseInv, TypeOK
<1>2. ~Booting /\ ~Quiet
  BY <1>1 DEF Booting, Quiet
<1> QED
  BY <1>2, BusyAlone

\* The session of the exit job at the head is off the books once it is recorded.
LEMMA HolderPhase ==
  ASSUME BaseInv, SerialInv, lockq # <<>>, Head(lockq).kind = "exit"
  PROVE  /\ HolderSession \in Sessions
         /\ sess[HolderSession].phase = IF Recorded THEN "recorded" ELSE "queued"
         /\ sess[HolderSession].task \in Tasks
         /\ sess[HolderSession].closure \in WorkerStatus \ {"running"}
<1>1. 1 \in 1..Len(lockq) /\ lockq[1] = Head(lockq)
  BY DEF BaseInv, TypeOK
<1>2. HolderSession \in Ended /\ HolderSession \in Sessions
  BY HolderEnded
<1>3. sess[lockq[1].sid].phase = IF Recorded THEN "recorded" ELSE "queued"
  BY <1>1 DEF SerialInv, QueueFits
<1>4. sess[HolderSession] \in Session
  BY <1>2 DEF BaseInv, TypeOK
<1> QED
  BY <1>1, <1>2, <1>3, <1>4 DEF HolderSession, Ended, Session

\* The jobs load what is on disk.
LEMMA JobLoadSerial == BaseInv /\ SerialInv /\ (ExitLoad \/ ConflictsLoad) => SerialInv'
<1> SUFFICES ASSUME BaseInv, SerialInv, ExitLoad \/ ConflictsLoad PROVE SerialInv'
  OBVIOUS
<1>a. /\ UNCHANGED <<disk, sess, lockq, pass, req, pmLive, hook>>
      /\ lockq # <<>> /\ Head(lockq).kind \in {"exit", "conflicts"}
      /\ stage = "idle" /\ stage' = "loaded"
  BY DEF ExitLoad, ConflictsLoad, Holds
<1>b. ~Quiet /\ req["recovery"].op = "idle"
  BY <1>a, InJob
<1>1. RequestsFit' /\ DiskFits'
  BY <1>a, <1>b, BusyNoRecovery, BusyDiskKept
<1>2. HolderFits'
  <2>1. pass' = NoPass
    BY <1>a DEF SerialInv, HolderFits
  <2>2. CASE ExitLoad
    <3>1. /\ Head(lockq').kind = "exit"
          /\ held' = RecordExit(disk', sess'[HolderSession'].task, sess'[HolderSession'].closure)
      BY <1>a, <2>2 DEF ExitLoad, Holds, HolderSession
    <3> QED
      BY <1>a, <2>1, <3>1 DEF HolderFits
  <2>3. CASE ConflictsLoad
    <3>1. Head(lockq').kind = "conflicts" /\ held' = disk'
      BY <1>a, <2>3 DEF ConflictsLoad, Holds
    <3> QED
      BY <1>a, <2>1, <3>1 DEF HolderFits
  <2> QED
    BY <2>2, <2>3
<1>3. QueueFits'
  <2>1. Recorded' = Recorded
    BY <1>a DEF Recorded
  <2> QED
    BY <1>a, <2>1, QueueStays DEF SerialInv
<1>4. Books' /\ PassFits' /\ PickIsReady' /\ OneWorker'
  BY <1>a DEF SerialInv, Books, PassFits, PickIsReady, OneWorker, AtWork, Dispatched,
     EntryFits
<1> QED
  BY <1>1, <1>2, <1>3, <1>4 DEF SerialInv, Serial

\* Recording an exit touches the task's entry, and entries that are missing.
LEMMA RecordExitEntries ==
  ASSUME NEW run \in Run, NEW t \in Tasks, NEW st \in WorkerStatus
  PROVE  /\ RecordExit(run, t, st).status = run.status
         /\ RecordExit(run, t, st).worker[t] = st
         /\ RecordExit(run, t, st).worker[PM] = run.worker[PM]
         /\ \A u \in Tasks \ {t} :
              RecordExit(run, t, st).worker[u] =
                IF st \in Unsuccessful /\ run.worker[u] = "none" /\ t \in Deps[u]
                THEN "blocked" ELSE run.worker[u]
<1> DEFINE recorded == [run.worker EXCEPT ![t] = st]
<1>1. /\ recorded \in [Entries -> WorkerStatus] /\ t \in Entries /\ PM \in Entries /\ PM # t
      /\ PM \notin Tasks
  BY TasksAssumption DEF Run, Entries
<1>2. recorded[t] = st /\ \A e \in Entries \ {t} : recorded[e] = run.worker[e]
  BY <1>1 DEF Run
<1>3. RecordExit(run, t, st) = [run EXCEPT !.worker = IF st \in Unsuccessful
                                  THEN PropagateBlocked(recorded, t) ELSE recorded]
  BY DEF RecordExit
<1> HIDE DEF recorded
<1>4. RecordExit(run, t, st).status = run.status
  BY <1>3 DEF Run
<1>5. RecordExit(run, t, st).worker = IF st \in Unsuccessful
                                       THEN PropagateBlocked(recorded, t) ELSE recorded
  BY <1>3 DEF Run
<1>6. CASE st \notin Unsuccessful
  BY <1>1, <1>2, <1>4, <1>5, <1>6 DEF Entries
<1>7. CASE st \in Unsuccessful
  <2>1. \A e \in Entries : PropagateBlocked(recorded, t)[e] =
          IF e \in Tasks /\ recorded[e] = "none" /\ t \in Deps[e] THEN "blocked" ELSE recorded[e]
    BY DEF PropagateBlocked
  <2>2. st # "none"
    BY <1>7 DEF Unsuccessful
  <2> QED
    BY <1>1, <1>2, <1>4, <1>5, <1>7, <2>1, <2>2 DEF Entries
<1> QED
  BY <1>6, <1>7

\* The save of an exit takes the session off the books and leaves the entries
\* of the others at work as they are.
LEMMA ExitSaveSerial == BaseInv /\ SerialInv /\ ExitSave => SerialInv'
<1> SUFFICES ASSUME BaseInv, SerialInv, ExitSave PROVE SerialInv'
  OBVIOUS
<1> DEFINE s == HolderSession
           t == sess[s].task
           st == sess[s].closure
<1>a. /\ lockq # <<>> /\ Head(lockq).kind = "exit" /\ stage = "loaded"
      /\ sess' = [sess EXCEPT ![s].phase = "recorded"] /\ disk' = held
      /\ stage' = IF held.status = "running" THEN "saved" ELSE "finishing"
      /\ UNCHANGED <<lockq, held, pass, req, pmLive, hook>>
      /\ disk \in Run /\ sess \in [Sessions -> Session]
  BY DEF ExitSave, Holds, BaseInv, TypeOK
<1>b. /\ s \in Sessions /\ sess[s].phase = "queued"
      /\ t \in Tasks /\ st \in WorkerStatus \ {"running"}
  BY <1>a, HolderPhase DEF Recorded
<1>c. pass = NoPass /\ held = RecordExit(disk, t, st)
  BY <1>a DEF SerialInv, HolderFits
<1>d. ~Quiet /\ req["recovery"].op = "idle"
  BY <1>a, InJob
<1>e. st \in Closures
  BY <1>b DEF SerialInv, Books, AtWork
<1>f. \A u \in Tasks : pass.mine[u] = NoSession
  BY <1>c DEF NoPass
<1>g. HolderSession' = s
  BY <1>a DEF HolderSession
<1> HIDE DEF s
<1>h. /\ sess'[s].phase = "recorded"
      /\ \A r \in Sessions \ {s} : sess'[r] = sess[r]
  BY <1>a, <1>b DEF Session
<1>i. /\ disk'.status = disk.status
      /\ disk'.worker[t] = st
      /\ disk'.worker[PM] = disk.worker[PM]
      /\ \A u \in Tasks \ {t} : disk'.worker[u] \in {disk.worker[u], "blocked"}
      /\ \A u \in Tasks \ {t} : disk.worker[u] # "none" => disk'.worker[u] = disk.worker[u]
  BY <1>a, <1>b, <1>c, RecordExitEntries
<1>j. disk.status \in {"running", "done", "failed"} /\ InterruptedTasks(disk) = {}
  BY <1>d, BusyAlone
<1>1. RequestsFit'
  BY <1>a, <1>d, BusyNoRecovery
<1>2. DiskFits'
  <2>1. disk'.status \in {"done", "failed"} => RunningEntries(disk'.worker) = {}
    <3> SUFFICES ASSUME disk'.status \in {"done", "failed"}, NEW e \in Entries,
                        disk'.worker[e] = "running"
                 PROVE  FALSE
      BY DEF RunningEntries
    <3>1. \A f \in Entries : disk.worker[f] # "running"
      BY <1>i DEF SerialInv, DiskFits, RunningEntries
    <3>2. e # PM
      BY <1>i DEF SerialInv, DiskFits
    <3> QED
      BY <1>b, <1>i, <3>1, <3>2 DEF Entries
  <2>2. disk'.worker[PM] = "none"
    BY <1>i DEF SerialInv, DiskFits
  <2>3. InterruptedTasks(disk') = {}
    BY <1>e, <1>i, <1>j DEF InterruptedTasks, Closures
  <2> QED
    BY <1>d, <1>i, <1>j, <2>1, <2>2, <2>3, BusyDisk
<1>3. HolderFits'
  <2>1. held' = disk' /\ pass' = NoPass /\ Head(lockq').kind = "exit"
    BY <1>a, <1>c
  <2> QED
    BY <1>a, <2>1 DEF HolderFits
<1>4. QueueFits'
  <2>a. lockq \in Seq(Job)
    BY DEF BaseInv, TypeOK
  <2>b. lockq[1].sid = s /\ lockq[1].kind = "exit"
    BY <1>a, <2>a DEF s, HolderSession
  <2>c. Recorded' /\ ~Recorded
    BY <1>a DEF Recorded
  <2>1. ASSUME NEW i \in 1..Len(lockq'), lockq'[i].kind = "exit"
        PROVE  sess'[lockq'[i].sid].phase = IF i = 1 /\ Recorded' THEN "recorded" ELSE "queued"
    <3>1. CASE i = 1
      BY <1>a, <1>h, <2>b, <2>c, <3>1
    <3>2. CASE i # 1
      <4>1. /\ lockq[i].sid # lockq[1].sid /\ sess[lockq[i].sid].phase = "queued"
            /\ lockq[i].sid \in Sessions
        BY <1>a, <2>1, <2>a, <2>b, <3>2
        DEF SerialInv, QueueFits, BaseInv, ExitJobsEnded, Ended
      <4> QED
        BY <1>a, <1>h, <2>b, <3>2, <4>1
    <3> QED
      BY <3>1, <3>2
  <2>2. \A i, j \in 1..Len(lockq') :
          lockq'[i].kind = "exit" /\ lockq'[j].kind = "exit" /\ i # j => lockq'[i].sid # lockq'[j].sid
    BY <1>a DEF SerialInv, QueueFits
  <2> QED
    BY <2>1, <2>2 DEF QueueFits
<1>5. AtWork' = AtWork \ {s} /\ AtWork \subseteq Sessions /\ s \in AtWork
  BY <1>b, <1>h DEF AtWork
<1>6. Books'
  <2>1. ASSUME NEW r \in AtWork, r # s
        PROVE  /\ sess'[r] = sess[r] /\ sess[r].task \in Tasks /\ sess[r].task # t
               /\ sess[r].closure \in Closures
               /\ sess[r].phase = "live" => sess[r].closure \in {"running", "stuck"}
               /\ EntryFits(r, disk.worker[sess[r].task])
    <3>1. sess[r].task \in Tasks /\ r # NoSession
      BY <1>a, <1>5, BoundsAssumption DEF Session, Sessions, NoSession
    <3> QED
      BY <1>5, <1>f, <1>h, <2>1, <3>1 DEF SerialInv, Books, OneWorker
  <2>2. ASSUME NEW r \in AtWork, r # s PROVE EntryFits(r, disk.worker[sess[r].task])'
    <3>1. disk'.worker[sess[r].task] = disk.worker[sess[r].task]
      BY <1>i, <2>1, <2>2 DEF EntryFits, Closures
    <3> QED
      BY <2>1, <2>2, <3>1 DEF EntryFits
  <2> QED
    BY <1>5, <2>1, <2>2 DEF Books
<1>7. PassFits' /\ PickIsReady'
  BY <1>a, <1>c, <1>f DEF PassFits, PickIsReady, Dispatched, NoPass
<1>8. OneWorker'
  BY <1>5, <1>h DEF SerialInv, OneWorker
<1> QED
  BY <1>1, <1>2, <1>3, <1>4, <1>6, <1>7, <1>8 DEF SerialInv, Serial

\* A run that ends has every entry resolved, and the pass's own save has not
\* added any since.
LEMMA ExitFinishSerial == BaseInv /\ SerialInv /\ ExitFinish => SerialInv'
<1> SUFFICES ASSUME BaseInv, SerialInv, ExitFinish PROVE SerialInv'
  OBVIOUS
<1> DEFINE s == HolderSession
<1>a. /\ lockq # <<>> /\ Head(lockq).kind = "exit" /\ stage = "finishing" /\ Release
      /\ disk' = IF AllResolved(held) THEN [held EXCEPT !.status = FinalStatus(held)] ELSE disk
      /\ UNCHANGED <<pass, req, pmLive, hook>>
      /\ disk \in Run /\ sess \in [Sessions -> Session]
  BY DEF ExitFinish, Holds, BaseInv, TypeOK
<1>b. s \in Sessions /\ sess[s].phase = "recorded"
  BY <1>a, HolderPhase DEF Recorded
<1>c. pass = NoPass /\ (held = disk \/ ~AllResolved(held))
  BY <1>a DEF SerialInv, HolderFits
<1>d. ~Quiet /\ req["recovery"].op = "idle"
  BY <1>a, InJob
<1>e. PICK ph \in {"scanning", "gone"} : sess' = [sess EXCEPT ![s].phase = ph]
  BY DEF ExitFinish
<1> HIDE DEF s
<1>f. sess'[s].phase \in {"scanning", "gone"} /\ \A r \in Sessions \ {s} : sess'[r] = sess[r]
  BY <1>a, <1>b, <1>e DEF Session
<1>g. /\ disk'.worker = disk.worker
      /\ disk'.status = IF AllResolved(held) THEN FinalStatus(disk) ELSE disk.status
      /\ AllResolved(held) => AllResolved(disk)
  BY <1>a, <1>c DEF Run
<1>1. RequestsFit'
  BY <1>a, <1>d, BusyNoRecovery
<1>2. DiskFits'
  <2>1. disk'.status \in {"running", "done", "failed"}
    BY <1>d, <1>g, BusyAlone DEF FinalStatus
  <2>2. disk'.worker[PM] = "none" /\ InterruptedTasks(disk') = {}
    BY <1>d, <1>g, BusyAlone DEF SerialInv, DiskFits, InterruptedTasks
  <2>3. disk'.status \in {"done", "failed"} => RunningEntries(disk'.worker) = {}
    <3>1. CASE AllResolved(held)
      <4>1. \A u \in Tasks : disk'.worker[u] # "running"
        BY <1>g, <3>1 DEF AllResolved, Resolved
      <4> QED
        BY <2>2, <4>1 DEF RunningEntries, Entries
    <3>2. CASE ~AllResolved(held)
      BY <1>g, <3>2 DEF SerialInv, DiskFits
    <3> QED
      BY <3>1, <3>2
  <2> QED
    BY <1>d, <2>1, <2>2, <2>3, BusyDisk
<1>3. HolderFits'
  BY <1>a, <1>c DEF HolderFits, Release
<1>4. QueueFits'
  <2>1. \A r \in Sessions : sess'[r].phase = sess[r].phase \/ sess[r].phase # "queued"
    BY <1>b, <1>f
  <2> QED
    BY <1>a, <2>1, QueueMovesUp DEF SerialInv
<1>5. AtWork' = AtWork /\ AtWork \subseteq Sessions \ {s}
  BY <1>b, <1>f DEF AtWork
<1>6. Books'
  BY <1>a, <1>f, <1>g, <1>5 DEF SerialInv, Books, EntryFits
<1>7. PassFits' /\ PickIsReady'
  BY <1>a, <1>c DEF PassFits, PickIsReady, Dispatched, NoPass
<1>8. OneWorker'
  BY <1>5, <1>f DEF SerialInv, OneWorker
<1> QED
  BY <1>1, <1>2, <1>3, <1>4, <1>6, <1>7, <1>8 DEF SerialInv, Serial

\* The reports of a conflict scan are saved with the run as it is.
LEMMA ConflictsSaveSerial == BaseInv /\ SerialInv /\ ConflictsSave => SerialInv'
<1> SUFFICES ASSUME BaseInv, SerialInv, ConflictsSave PROVE SerialInv'
  OBVIOUS
<1>a. /\ lockq # <<>> /\ Head(lockq).kind = "conflicts" /\ stage = "loaded" /\ Release
      /\ disk' = held /\ UNCHANGED <<sess, pass, req, pmLive, hook>>
  BY DEF ConflictsSave, Holds
<1>b. held = disk /\ pass = NoPass
  BY <1>a DEF SerialInv, HolderFits
<1>c. ~Quiet /\ req["recovery"].op = "idle" /\ disk' = disk
  BY <1>a, <1>b, InJob
<1>1. RequestsFit' /\ DiskFits'
  BY <1>a, <1>c, BusyNoRecovery, BusyDiskKept
<1>2. HolderFits'
  BY <1>a, <1>b DEF HolderFits, Release
<1>3. QueueFits'
  BY <1>a, QueueMovesUp DEF SerialInv
<1>4. Books' /\ PassFits' /\ PickIsReady' /\ OneWorker'
  BY <1>a, <1>c DEF SerialInv, Books, PassFits, PickIsReady, OneWorker, AtWork, Dispatched,
     EntryFits
<1> QED
  BY <1>1, <1>2, <1>3, <1>4 DEF SerialInv, Serial

\* Every step of the job that holds the lock keeps the serial invariant.
LEMMA JobSerial == BaseInv /\ SerialInv /\ JobStep => SerialInv'
BY JobLoadSerial, ExitSaveSerial, ExitFinishSerial, ConflictsSaveSerial DEF JobStep

-----------------------------------------------------------------------------
(***************************************************************************)
(* Approve, resume, the recovery and restarts.                             *)
(***************************************************************************)

\* Where there is no work there are no books.
LEMMA QuietFits ==
  ASSUME stage' = "idle", pass' = NoPass,
         \A i \in 1..Len(lockq') : lockq'[i].kind = "dispatch",
         \A s \in Sessions : sess'[s].phase \in {"unused", "gone"}
  PROVE  HolderFits' /\ QueueFits' /\ Books' /\ PassFits' /\ PickIsReady' /\ OneWorker'
<1>1. AtWork' = {}
  BY DEF AtWork
<1>2. \A t \in Tasks : pass'.mine[t] = NoSession
  BY DEF NoPass
<1>3. HolderFits' /\ QueueFits'
  BY DEF HolderFits, QueueFits
<1>4. PassFits' /\ PickIsReady'
  BY <1>2 DEF PassFits, PickIsReady, Dispatched, NoPass
<1> QED
  BY <1>1, <1>3, <1>4 DEF Books, OneWorker

\* What a request or the recovery loads changes nothing but its own record.
LEMMA OnlyRequestsMove ==
  ASSUME SerialInv, RequestsFit', UNCHANGED <<disk, sess, lockq, stage, held, pass>>
  PROVE  SerialInv'
<1>1. DiskFits'
  BY DEF SerialInv, DiskFits, Untouched, Quiet
<1>2. HolderFits'
  BY DEF SerialInv, HolderFits, HolderSession
<1>3. QueueFits'
  BY DEF SerialInv, QueueFits, Recorded
<1>4. Books' /\ PassFits' /\ PickIsReady' /\ OneWorker'
  BY DEF SerialInv, Books, PassFits, PickIsReady, OneWorker, AtWork, Dispatched, EntryFits
<1> QED
  BY <1>1, <1>2, <1>3, <1>4 DEF SerialInv, Serial

\* The fit of one handler when only another moves.
LEMMA OthersFit ==
  ASSUME RequestsFit, UNCHANGED <<disk, sess, lockq, stage, pmLive, hook>>
  PROVE  /\ \A c \in Clients : req'[c] = req[c] => ClientFits(c)'
         /\ req'["recovery"] = req["recovery"] => RecoveryFits'
<1>1. Quiet' = Quiet /\ Booting' = Booting
  BY DEF Quiet, Booting, LiveTasks
<1> QED
  BY <1>1 DEF RequestsFit, ClientFits, RecoveryFits

\* An approve comes when there has been no worker yet, a resume when all workers
\* of earlier servers are gone.
LEMMA ArriveSerial ==
  ASSUME BaseInv, SerialInv,
         NEW c \in Clients, NEW op \in Ops, NEW t \in Entries, Arrive(c, op, t)
  PROVE  SerialInv'
<1> DEFINE r == [NoRequest EXCEPT !.op = op, !.task = t]
<1>a. /\ op \in {"approve", "resume"} /\ Allowed(op, t, disk)
      /\ op = "resume" => disk.status = "failed"
      /\ req' = [req EXCEPT ![c] = IF op \in {"resume", "merge"} THEN r ELSE Loaded(r)]
      /\ UNCHANGED <<disk, sess, lockq, stage, held, pass, pmLive, hook>>
      /\ req \in [Handlers -> Request] /\ c \in Handlers /\ c \notin Internal
  BY HandlersAssumption DEF Arrive, SerialInv, Serial, BaseInv, TypeOK, Handlers
<1>b. r.op = op /\ r.task = t /\ r.loaded = FALSE
  BY DEF NoRequest
<1>c. Loaded(r).op = op /\ Loaded(r).loaded = TRUE /\ Loaded(r).run = disk
  BY <1>a, <1>b DEF Loaded, NoRequest
<1> HIDE DEF r
<1>d. req'[c] = (IF op \in {"resume", "merge"} THEN r ELSE Loaded(r)) /\ \A h \in Internal : req'[h] = req[h]
  BY <1>a DEF Handlers
<1>1. ClientFits(c)'
  <2>1. CASE op = "approve"
    <3>1. disk.status = "planning"
      BY <1>a, <2>1 DEF Allowed, CanApprove
    <3> QED
      BY <1>a, <1>c, <1>d, <2>1, <3>1 DEF ClientFits
  <2>2. CASE op = "resume"
    <3>1. InterruptedTasks(disk) # {}
      BY <1>a, <2>2 DEF Allowed
    <3>2. Quiet
      BY <3>1 DEF SerialInv, DiskFits
    <3>3. Quiet' /\ InterruptedTasks(disk') # {}
      BY <1>a, <3>1, <3>2 DEF Quiet, InterruptedTasks
    <3> QED
      BY <1>a, <1>b, <1>d, <2>2, <3>3 DEF ClientFits
  <2> QED
    BY <1>a, <2>1, <2>2
<1>2. \A d \in Clients : ClientFits(d)'
  BY <1>1 DEF SerialInv, Serial
<1>3. RecoveryFits'
  BY <1>a, <1>d, OthersFit DEF SerialInv, Internal
<1>4. RequestsFit'
  BY <1>a, <1>d, <1>2, <1>3 DEF SerialInv, RequestsFit, Internal
<1> QED
  BY <1>a, <1>4, OnlyRequestsMove

\* A resume loads a quiet run; the recovery finds something to do in one only.
LEMMA LoadSerial ==
  ASSUME BaseInv, SerialInv, NEW h \in Handlers, Load(h)
  PROVE  SerialInv'
<1>a. /\ req[h].op # "idle" /\ ~req[h].loaded
      /\ req' = [req EXCEPT ![h] = Loaded(req[h])]
      /\ UNCHANGED <<disk, sess, lockq, stage, held, pass, pmLive, hook>>
      /\ req \in [Handlers -> Request] /\ req[h] \in Request
  BY DEF Load, BaseInv, TypeOK
<1>b. /\ req'[h] = Loaded(req[h]) /\ \A g \in Handlers \ {h} : req'[g] = req[g]
      /\ Clients \cap Internal = {} /\ Handlers = Clients \cup {"recovery", "pmExit", "shutdown"}
  BY <1>a, HandlersAssumption DEF Handlers, Internal
<1>c. h \notin {"pmExit", "shutdown"}
  BY <1>a DEF SerialInv, RequestsFit
<1>1. CASE h \in Clients
  <2>1. req[h].op = "resume" /\ Quiet /\ disk.status = "failed" /\ InterruptedTasks(disk) # {}
    BY <1>a, <1>1 DEF SerialInv, RequestsFit, ClientFits
  <2>2. /\ req'[h].op = "resume" /\ req'[h].loaded /\ req'[h].run = disk
    BY <1>a, <1>b, <2>1 DEF Loaded, Allowed, Request
  <2>3. Quiet' /\ InterruptedTasks(disk') # {}
    BY <1>a, <2>1 DEF Quiet, InterruptedTasks
  <2>4. ClientFits(h)'
    BY <1>a, <2>1, <2>2, <2>3 DEF ClientFits
  <2>5. \A d \in Clients : ClientFits(d)'
    BY <1>1, <2>4 DEF SerialInv, Serial
  <2>6. RecoveryFits'
    BY <1>1, <1>a, <1>b, OthersFit DEF SerialInv, Internal
  <2>7. RequestsFit'
    BY <1>1, <1>a, <1>b, <2>5, <2>6 DEF SerialInv, RequestsFit, Internal
  <2> QED
    BY <1>a, <2>7, OnlyRequestsMove
<1>2. CASE h = "recovery"
  <2>1. req[h].op = "recover" /\ (Quiet \/ Booting) /\ ~pmLive
    BY <1>a, <1>2 DEF SerialInv, RequestsFit, RecoveryFits
  <2>2. \A d \in Clients : ClientFits(d)'
    BY <1>2, <1>a, <1>b, OthersFit DEF SerialInv, Internal
  <2>3. RecoveryFits'
    <3>1. CASE NeedsRecovery(disk, Alive)
      <4>1. disk.status = "running" /\ RunningEntries(disk.worker) # {}
        BY <3>1 DEF NeedsRecovery, SerialInv, DiskFits
      <4>2. Quiet
        BY <2>1, <3>1 DEF Booting, NeedsRecovery, Alive
      <4>3. Quiet' /\ disk'.status = "running" /\ RunningEntries(disk'.worker) # {}
        BY <1>a, <4>1, <4>2 DEF Quiet, RunningEntries
      <4>4. /\ req'["recovery"].op = "recover" /\ req'["recovery"].loaded
            /\ req'["recovery"].run = disk'
        BY <1>2, <1>a, <1>b, <2>1, <3>1 DEF Loaded, Allowed, Request
      <4> QED
        BY <4>3, <4>4 DEF RecoveryFits
    <3>2. CASE ~NeedsRecovery(disk, Alive)
      <4>1. req'["recovery"] = NoRequest
        BY <1>2, <1>b, <2>1, <3>2 DEF Loaded, Allowed
      <4> QED
        BY <4>1 DEF RecoveryFits, NoRequest
    <3> QED
      BY <3>1, <3>2
  <2>4. RequestsFit'
    BY <1>2, <1>a, <1>b, <2>2, <2>3 DEF SerialInv, RequestsFit, Internal
  <2> QED
    BY <1>a, <2>4, OnlyRequestsMove
<1> QED
  BY <1>1, <1>2, <1>b, <1>c

\* A dispatch job put in for a quiet run is all there is to do.
LEMMA DispatchIsQueued ==
  ASSUME BaseInv, SerialInv, Quiet, UNCHANGED <<sess, stage, held, pass, hook>>,
         lockq' = Append(lockq, DispatchJob), ~pmLive',
         disk'.status = "running", RunningEntries(disk'.worker) = {},
         InterruptedTasks(disk') = {}, disk'.worker[PM] = "none",
         \A c \in Clients : req'[c] = NoRequest,
         req'["recovery"] = req["recovery"], ~req["recovery"].loaded,
         req'["pmExit"] = req["pmExit"], req'["shutdown"] = req["shutdown"]
  PROVE  SerialInv'
<1>a. /\ lockq = <<>> /\ lockq' = <<DispatchJob>> /\ stage = "idle"
      /\ \A s \in Sessions : sess[s].phase \in {"unused", "gone"}
  BY DEF Quiet
<1>b. pass = NoPass
  BY <1>a DEF SerialInv, HolderFits
<1>c. \A i \in 1..Len(lockq') : lockq'[i].kind = "dispatch"
  BY <1>a DEF DispatchJob
<1>1. Booting'
  BY <1>a, <1>c DEF Booting
<1>2. RequestsFit'
  <2>1. \A c \in Clients : ClientFits(c)'
    BY DEF ClientFits, NoRequest
  <2>2. RecoveryFits'
    BY <1>1 DEF RecoveryFits, SerialInv, RequestsFit
  <2> QED
    BY <2>1, <2>2 DEF RequestsFit, SerialInv
<1>3. DiskFits'
  BY DEF DiskFits
<1>4. HolderFits' /\ QueueFits' /\ Books' /\ PassFits' /\ PickIsReady' /\ OneWorker'
  BY <1>a, <1>b, <1>c, QuietFits
<1> QED
  BY <1>2, <1>3, <1>4 DEF SerialInv, Serial

\* Whoever saves from outside of the lock finds nobody else at work.
LEMMA SaveSerial ==
  ASSUME BaseInv, SerialInv, NEW h \in Handlers, Save(h)
  PROVE  SerialInv'
<1>a. /\ req[h].loaded /\ Outcome(req[h].op, req[h].task, req[h].run, disk')
      /\ req' = [req EXCEPT ![h] = IF req[h].op = "purge"
                                   THEN [NoRequest EXCEPT !.op = "archive"] ELSE NoRequest]
      /\ lockq' = IF req[h].op \in {"approve", "resume"} THEN Append(lockq, DispatchJob) ELSE lockq
      /\ pmLive' = (pmLive \/ req[h].op = "pm")
      /\ UNCHANGED <<sess, stage, held, pass, hook>>
      /\ req \in [Handlers -> Request] /\ disk \in Run
  BY DEF Save, BaseInv, TypeOK
<1>b. /\ \A g \in Handlers \ {h} : req'[g] = req[g]
      /\ Clients \cap Internal = {} /\ Handlers = Clients \cup {"recovery", "pmExit", "shutdown"}
  BY <1>a, HandlersAssumption DEF Handlers, Internal
<1>c. h \notin {"pmExit", "shutdown"} /\ ~pmLive
  BY <1>a DEF SerialInv, RequestsFit
<1>1. CASE h \in Clients
  <2>1. /\ req[h].op \in {"approve", "resume"} /\ req[h].run = disk
        /\ req[h].op = "approve" => disk.status = "planning"
        /\ req[h].op = "resume" => Quiet /\ disk.status = "failed"
    BY <1>a, <1>1 DEF SerialInv, RequestsFit, ClientFits
  <2>2. Quiet
    BY <2>1 DEF SerialInv, DiskFits, Untouched, Quiet
  <2>3. ~req["recovery"].loaded
    BY <2>1 DEF SerialInv, RequestsFit, RecoveryFits
  <2>4. /\ \A c \in Clients : c = h /\ req'[c] = NoRequest
        /\ req'["recovery"] = req["recovery"] /\ req'["pmExit"] = req["pmExit"]
        /\ req'["shutdown"] = req["shutdown"]
        /\ lockq' = Append(lockq, DispatchJob) /\ ~pmLive'
    <3>1. \A c \in Clients : c = h
      BY <1>1 DEF SerialInv, Serial
    <3>2. req'[h] = NoRequest /\ lockq' = Append(lockq, DispatchJob)
      BY <1>a, <2>1
    <3>3. ~pmLive'
      BY <1>a, <1>c, <2>1
    <3>4. h \notin {"recovery", "pmExit", "shutdown"}
      BY <1>1, <1>b DEF Internal
    <3>5. /\ req'["recovery"] = req["recovery"] /\ req'["pmExit"] = req["pmExit"]
          /\ req'["shutdown"] = req["shutdown"]
      BY <1>b, <3>4
    <3> QED
      BY <3>1, <3>2, <3>3, <3>5
  <2>5. /\ disk'.status = "running"
        /\ RunningEntries(disk'.worker) = {} /\ InterruptedTasks(disk') = {}
        /\ disk'.worker[PM] = "none"
    <3>1. CASE req[h].op = "approve"
      <4>1. disk = NewRun
        BY <2>1, <3>1 DEF SerialInv, DiskFits
      <4>2. disk' = Approve(NewRun)
        BY <1>a, <2>1, <3>1, <4>1 DEF Outcome
      <4>3. disk'.status = "running" /\ \A e \in Entries : disk'.worker[e] = "none"
        BY <4>2 DEF Approve, NewRun
      <4> QED
        BY <4>3 DEF RunningEntries, InterruptedTasks, Entries
    <3>2. CASE req[h].op = "resume"
      <4>1. PICK S \in Unblocked(disk.worker) : disk' = Resume(disk, S)
        BY <1>a, <2>1, <3>2 DEF Outcome
      <4>2. S \subseteq Tasks
        BY DEF Unblocked
      <4>3. /\ disk'.status = "running"
            /\ \A e \in Entries : disk'.worker[e] = IF e \in InterruptedTasks(disk) \cup S
                                                    THEN "none" ELSE disk.worker[e]
        BY <4>1 DEF Resume
      <4>4. /\ RunningEntries(disk.worker) = {} /\ disk.worker[PM] = "none"
        BY <2>1, <3>2 DEF SerialInv, DiskFits
      <4> QED
        BY <4>3, <4>4 DEF RunningEntries, InterruptedTasks, Entries
    <3> QED
      BY <2>1, <3>1, <3>2
  <2> QED
    BY <1>a, <2>2, <2>3, <2>4, <2>5, DispatchIsQueued
<1>2. CASE h = "recovery"
  <2>1. /\ req[h].op = "recover" /\ Quiet /\ req[h].run = disk /\ disk.status = "running"
    BY <1>a, <1>2 DEF SerialInv, RequestsFit, RecoveryFits
  <2>2. \A c \in Clients : req[c].op = "idle" /\ ~req[c].loaded
    BY <2>1 DEF SerialInv, RequestsFit, ClientFits
  <2>3. /\ \A c \in Clients : req'[c] = req[c]
        /\ req'["pmExit"] = req["pmExit"] /\ req'["recovery"] = NoRequest
        /\ req'["shutdown"] = req["shutdown"]
        /\ lockq' = lockq /\ ~pmLive'
    <3>1. req'["recovery"] = NoRequest /\ lockq' = lockq
      BY <1>2, <1>a, <2>1
    <3>2. ~pmLive'
      BY <1>a, <1>c, <2>1
    <3> QED
      BY <1>2, <1>b, <3>1, <3>2 DEF Internal
  <2>4. Alive = {}
    BY <1>c, <2>1 DEF Alive, LiveTasks, Quiet
  <2>5. disk' = Recover(disk, {})
    BY <1>a, <2>1, <2>4 DEF Outcome
  <2>6. /\ disk'.status \in {"running", "failed"}
        /\ \A e \in Entries : disk'.worker[e] = IF disk.worker[e] = "running"
                                                THEN "interrupted" ELSE disk.worker[e]
    BY <2>1, <2>5 DEF Recover, RunningEntries
  <2>7. Quiet'
    BY <1>a, <2>1, <2>3 DEF Quiet
  <2>8. DiskFits'
    <3>1. disk.worker[PM] = "none"
      BY DEF SerialInv, DiskFits
    <3> QED
      BY <2>6, <2>7, <3>1 DEF DiskFits, RunningEntries, Entries
  <2>9. RequestsFit'
    <3>1. \A c \in Clients : ClientFits(c)'
      BY <2>2, <2>3 DEF ClientFits
    <3>2. RecoveryFits'
      BY <2>3 DEF RecoveryFits, NoRequest
    <3> QED
      BY <1>a, <2>3, <3>1, <3>2 DEF SerialInv, RequestsFit
  <2>10. pass = NoPass
    BY <2>1 DEF SerialInv, HolderFits, Quiet
  <2>11. HolderFits' /\ QueueFits' /\ Books' /\ PassFits' /\ PickIsReady' /\ OneWorker'
    BY <1>a, <2>7, <2>10, QuietFits DEF Quiet
  <2> QED
    BY <2>8, <2>9, <2>11 DEF SerialInv, Serial
<1> QED
  BY <1>1, <1>2, <1>b, <1>c

\* A new server whose run.json has the shape of a serial one starts afresh.
LEMMA RebootFits ==
  ASSUME BaseInv, Serial, Reboot, disk.status \in {"planning", "running", "done", "failed"},
         disk.status = "planning" => disk = NewRun /\ Untouched,
         disk.status \in {"done", "failed"} => RunningEntries(disk.worker) = {},
         disk.worker[PM] = "none"
  PROVE  SerialInv'
<1>a. /\ lockq' = <<>> /\ stage' = "idle" /\ pass' = NoPass /\ ~pmLive' /\ hook' = NoHook
      /\ disk' = disk
      /\ \A s \in Sessions : IF sess[s].phase = "unused" THEN sess'[s].phase = "unused"
                             ELSE sess'[s].phase = "gone"
  BY DEF Reboot, BaseInv, TypeOK, Session
<1>b. /\ \A c \in Clients : req'[c] = NoRequest
      /\ req'["pmExit"] = NoRequest /\ req'["shutdown"] = NoRequest
      /\ req'["recovery"] = [NoRequest EXCEPT !.op = "recover"]
  BY HandlersAssumption DEF Reboot, Handlers, Internal
<1>c. Quiet'
  BY <1>a DEF Quiet
<1>1. RequestsFit'
  <2>1. \A c \in Clients : ClientFits(c)'
    BY <1>b DEF ClientFits, NoRequest
  <2>2. RecoveryFits'
    BY <1>b, <1>c DEF RecoveryFits, NoRequest
  <2> QED
    BY <1>a, <1>b, <2>1, <2>2 DEF RequestsFit, NoRequest
<1>2. DiskFits'
  BY <1>a, <1>c DEF DiskFits, Untouched
<1>3. HolderFits' /\ QueueFits' /\ Books' /\ PassFits' /\ PickIsReady' /\ OneWorker'
  BY <1>a, QuietFits
<1> QED
  BY <1>1, <1>2, <1>3 DEF SerialInv, Serial

\* A crash leaves nothing at work and run.json as it is.
LEMMA CrashSerial == BaseInv /\ SerialInv /\ Crash => SerialInv'
BY RebootFits DEF Crash, SerialInv, DiskFits

\* The serial invariant holds at the start.
LEMMA InitSerial == Serial /\ Init => SerialInv
<1> SUFFICES ASSUME Serial, Init PROVE SerialInv
  OBVIOUS
<1>1. \A s \in Sessions : sess[s].phase = "unused"
  BY DEF Init, Unspawned
<1>2. AtWork = {} /\ \A t \in Tasks : pass.mine[t] = NoSession
  BY <1>1 DEF AtWork, Init, NoPass
<1>3. RequestsFit
  <2>1. \A h \in Handlers : req[h].op = "idle" /\ ~req[h].loaded
    BY DEF Init, NoRequest
  <2> QED
    BY <2>1 DEF RequestsFit, ClientFits, RecoveryFits, Handlers, Internal, Init
<1>4. DiskFits
  <2>1. \A e \in Entries : disk.worker[e] = "none"
    BY DEF Init, NewRun
  <2>2. disk.status = "planning" /\ disk = NewRun /\ Untouched
    BY <1>1 DEF Init, NewRun, Untouched
  <2> QED
    BY <2>1, <2>2 DEF DiskFits, InterruptedTasks, Entries
<1>5. HolderFits /\ QueueFits
  BY DEF HolderFits, QueueFits, Init
<1>6. Books /\ PassFits /\ PickIsReady /\ OneWorker
  BY <1>2 DEF Books, PassFits, PickIsReady, OneWorker, Dispatched, Init, NoPass
<1> QED
  BY <1>3, <1>4, <1>5, <1>6 DEF SerialInv

\* The serial invariant is inductive together with the base invariant.
LEMMA SerialStep == BaseInv /\ SerialInv /\ [Next]_vars /\ ~ShutdownBegins => SerialInv'
<1> SUFFICES ASSUME BaseInv, SerialInv, [Next]_vars, ~ShutdownBegins PROVE SerialInv'
  OBVIOUS
<1>1. CASE PassStep
  BY <1>1, PassSerial
<1>2. ASSUME NEW s \in Sessions, SessionStep(s) PROVE SerialInv'
  BY <1>2, SessionSerial
<1>3. CASE JobStep
  BY <1>3, JobSerial
<1>4. ASSUME NEW c \in Clients, NEW op \in Ops, NEW t \in Entries, Arrive(c, op, t)
      PROVE  SerialInv'
  BY <1>4, ArriveSerial
<1>5. ASSUME NEW h \in Handlers, HandlerStep(h) PROVE SerialInv'
  <2>1. ~MergeProgress(h)
    BY DEF MergeProgress, SerialInv, RequestsFit, ClientFits, RecoveryFits, Handlers, Internal
  <2> QED
    BY <1>5, <2>1, LoadSerial, SaveSerial DEF HandlerStep
<1>6. CASE PmExits
  BY <1>6 DEF PmExits, SerialInv, RequestsFit
<1>7. CASE Crash
  BY <1>7, CrashSerial
<1>9. hook = NoHook
  BY DEF SerialInv, RequestsFit
<1>10. ~Exit /\ ~\E e \in Entries : ShutdownKills(e)
  BY <1>9 DEF Exit, ShutdownKills, NoHook
<1>8. CASE UNCHANGED vars
  <2>1. RequestsFit'
    BY <1>8 DEF vars, SerialInv, RequestsFit, ClientFits, RecoveryFits, Quiet, Booting, LiveTasks
  <2> QED
    BY <1>8, <2>1, OnlyRequestsMove DEF vars
<1> QED
  BY <1>1, <1>2, <1>3, <1>4, <1>5, <1>6, <1>7, <1>8, <1>10 DEF Next

-----------------------------------------------------------------------------
(***************************************************************************)
(* The end of the server.  While the shutdown hook is at work it saves     *)
(* from outside of the lock, whoever holds it, and what has been recorded  *)
(* since it began may be lost.  What stays true is that every snapshot     *)
(* that can still be saved agrees with run.json on the tasks that were     *)
(* settled then, and that none of them is worked on or provisioned.        *)
(***************************************************************************)

SettledStatus == {"done"} \cup Unsuccessful

\* The shape of a run that the next server can start from.
RunFits(run) ==
  /\ run.status \in {"planning", "running", "done", "failed"}
  /\ run.status \in {"done", "failed"} => RunningEntries(run.worker) = {}
  /\ run.worker[PM] = "none"

Agree(tasks, worker, saved) == \A t \in tasks : worker[t] = saved[t]

\* A snapshot that may be saved over an approved run whose workers are saved.
MaySave(run, tasks, saved) ==
  RunFits(run) /\ run.status # "planning" /\ Agree(tasks, run.worker, saved)

SettledIsKept == Agree(hook.settled, disk'.worker, disk.worker)

StopDisk ==
  /\ RunFits(disk)
  /\ disk.status = "planning" => disk = NewRun /\ Untouched /\ hook.doomed = {}
  /\ \A t \in hook.settled : disk.worker[t] \in SettledStatus

StopRequest(h) ==
  LET r == req[h] IN
  /\ r.op \in {"idle", "approve", "resume", "recover", "kill"}
  /\ r.op = "idle" => ~r.loaded
  /\ r.op = "approve" => h \in Clients /\ r.loaded /\ disk.status = "planning" /\ r.run = disk
  /\ r.op # "approve" /\ r.loaded =>
       disk.status # "planning" /\ MaySave(r.run, hook.settled, disk.worker)
  /\ r.op = "kill" => r.loaded /\ r.task \in Tasks \ hook.settled

StopHolder ==
  stage # "idle" /\ Head(lockq).kind # "dispatch" =>
    MaySave(held, hook.settled, disk.worker) \/ (stage = "finishing" /\ ~AllResolved(held))

StopPass ==
  /\ stage # "passing" => pass = NoPass
  /\ stage = "passing" => /\ pass.snap.status = "running"
                          /\ MaySave(pass.snap, hook.settled, disk.worker)
  /\ \A t \in hook.settled : /\ pass.mine[t] = NoSession
                             /\ pass.next # 0 => PlanOrder[pass.next] # t

StopWork ==
  /\ \A s \in AtWork : sess[s].task \notin hook.settled
  /\ \A i \in 1..Len(lockq) : lockq[i].kind = "exit" /\ ~(i = 1 /\ Recorded) =>
       sess[lockq[i].sid].task \notin hook.settled

StopInv ==
  /\ Serial /\ hook.stopping /\ ~pmLive /\ hook.doomed \subseteq Tasks \ hook.settled
  /\ StopDisk /\ (\A h \in Handlers : StopRequest(h))
  /\ StopHolder /\ StopPass /\ StopWork

\* Once there is work the run has been approved, and no approve is under way.
LEMMA StopBusy ==
  ASSUME StopInv, \/ lockq # <<>> \/ stage # "idle" \/ hook.doomed # {}
                  \/ \E s \in Sessions : sess[s].phase # "unused"
  PROVE  disk.status # "planning" /\ \A h \in Handlers : req[h].op # "approve"
BY DEF StopInv, StopDisk, StopRequest, Untouched

\* What may be saved still may when run.json is left alone on the settled tasks.
LEMMA MaySaveStays ==
  ASSUME NEW run, NEW tasks, NEW saved, NEW next,
         MaySave(run, tasks, saved), Agree(tasks, next, saved)
  PROVE  MaySave(run, tasks, next)
BY DEF MaySave, Agree

\* What the handlers have in hand, and run.json, fit after a step that saves what
\* may be saved, or nothing.
LEMMA StopFrame ==
  ASSUME StopInv, disk.status # "planning",
         UNCHANGED <<hook, pmLive>>,
         \/ UNCHANGED disk
         \/ MaySave(disk', hook.settled, disk.worker)
  PROVE  /\ SettledIsKept /\ StopDisk' /\ disk'.status # "planning"
         /\ \A h \in Handlers : req'[h] = req[h] => StopRequest(h)'
<1>1. SettledIsKept /\ RunFits(disk') /\ disk'.status # "planning"
  BY DEF SettledIsKept, Agree, MaySave, StopInv, StopDisk
<1>2. StopDisk'
  BY <1>1 DEF SettledIsKept, Agree, StopInv, StopDisk
<1>3. ASSUME NEW h \in Handlers, req'[h] = req[h] PROVE StopRequest(h)'
  <2>1. StopRequest(h)
    BY DEF StopInv
  <2>2. req[h].op # "approve"
    BY <2>1 DEF StopRequest
  <2>3. req[h].loaded => MaySave(req[h].run, hook.settled, disk'.worker)
    BY <1>1, <2>1, <2>2, MaySaveStays DEF StopRequest, SettledIsKept
  <2> QED
    BY <1>1, <1>3, <2>1, <2>2, <2>3 DEF StopRequest
<1> QED
  BY <1>1, <1>2, <1>3

\* Nobody starts to work on a settled task when sessions only move on and the exits
\* that join the queue are those of other tasks.
LEMMA StopWorkStays ==
  ASSUME BaseInv, StopWork, UNCHANGED hook,
         \A s \in Sessions : sess[s].phase # "unused" => sess'[s].task = sess[s].task,
         \A s \in AtWork' : sess'[s].task \notin hook.settled,
         \/ UNCHANGED lockq /\ (Recorded => Recorded')
         \/ lockq # <<>> /\ lockq' = Tail(lockq)
         \/ /\ stage' = stage
            /\ \E j \in Job : /\ lockq' = Append(lockq, j)
                              /\ j.kind = "exit" => sess'[j.sid].task \notin hook.settled
  PROVE  StopWork'
<1>a. lockq \in Seq(Job)
  BY DEF BaseInv, TypeOK
<1>b. ASSUME NEW i \in 1..Len(lockq), lockq[i].kind = "exit", ~(i = 1 /\ Recorded)
      PROVE  sess'[lockq[i].sid].task \notin hook.settled
  <2>1. lockq[i].sid \in Sessions /\ sess[lockq[i].sid].phase # "unused"
    BY <1>b DEF BaseInv, ExitJobsEnded, Ended
  <2> QED
    BY <1>b, <2>1 DEF StopWork
<1>1. ASSUME NEW i \in 1..Len(lockq'), lockq'[i].kind = "exit", ~(i = 1 /\ Recorded')
      PROVE  sess'[lockq'[i].sid].task \notin hook.settled
  <2>1. CASE UNCHANGED lockq /\ (Recorded => Recorded')
    BY <1>b, <1>1, <2>1
  <2>2. CASE lockq # <<>> /\ lockq' = Tail(lockq)
    <3>1. i + 1 \in 1..Len(lockq) /\ lockq'[i] = lockq[i + 1] /\ i + 1 # 1
      BY <1>a, <2>2
    <3> QED
      BY <1>b, <1>1, <3>1
  <2>3. ASSUME stage' = stage, NEW j \in Job, lockq' = Append(lockq, j),
               j.kind = "exit" => sess'[j.sid].task \notin hook.settled
        PROVE  sess'[lockq'[i].sid].task \notin hook.settled
    <3>1. \/ i \in 1..Len(lockq) /\ lockq'[i] = lockq[i]
          \/ lockq'[i] = j
      BY <1>a, <2>3
    <3>2. Recorded' = Recorded
      BY <2>3 DEF Recorded
    <3> QED
      BY <1>b, <1>1, <2>3, <3>1, <3>2
  <2> QED
    BY <2>1, <2>2, <2>3
<1> QED
  BY <1>1 DEF StopWork

\* A dispatch pass leaves the settled tasks alone.
LEMMA StopPassStep == BaseInv /\ StopInv /\ PassStep => StopInv' /\ SettledIsKept
<1> SUFFICES ASSUME BaseInv, StopInv, PassStep PROVE StopInv' /\ SettledIsKept
  OBVIOUS
<1>a. /\ lockq # <<>> /\ lockq \in Seq(Job) /\ pass \in Pass /\ disk \in Run
      /\ sess \in [Sessions -> Session]
      /\ UNCHANGED <<held, req, pmLive, hook>>
  BY DEF PassStep, PassBegin, PassPick, PassSpawn, PassSpawnFails, PassSpawnTimesOut, PassEnd,
     Provisioning, Holds, BaseInv, TypeOK, LockHeld
<1>b. disk.status # "planning" /\ hook.settled \subseteq Tasks
  BY <1>a, StopBusy DEF BaseInv, TypeOK, Hook
<1>c. /\ pass.next # 0 => PlanOrder[pass.next] \in Tasks
      /\ \A t \in hook.settled : View[t] = pass.snap.worker[t]
  <2>1. \A t \in hook.settled : View[t] = pass.snap.worker[t]
    BY <1>b, ViewOf DEF StopInv, StopPass
  <2> QED
    BY <1>a, <2>1, OrderAssumption DEF Pass
<1>1. CASE PassEnd
  <2>1. /\ stage = "passing" /\ UNCHANGED sess /\ pass' = NoPass /\ AfterPass
        /\ disk' = IF Dispatched # {} THEN [pass.snap EXCEPT !.worker = View] ELSE disk
    BY <1>1 DEF PassEnd
  <2>2. MaySave(pass.snap, hook.settled, disk.worker) /\ pass.snap.status = "running"
    BY <2>1 DEF StopInv, StopPass
  <2>3. \/ UNCHANGED disk
        \/ MaySave(disk', hook.settled, disk.worker)
    <3>1. CASE Dispatched # {}
      <4>1. disk'.status = "running" /\ disk'.worker = View
        BY <1>a, <2>1, <2>2, <3>1 DEF Pass, Run
      <4>2. View[PM] = pass.snap.worker[PM]
        BY TasksAssumption DEF View, Entries
      <4> QED
        BY <1>c, <2>2, <4>1, <4>2 DEF MaySave, RunFits, Agree
    <3> QED
      BY <2>1, <3>1
  <2>4. /\ SettledIsKept /\ StopDisk' /\ \A h \in Handlers : StopRequest(h)'
    BY <1>a, <1>b, <2>3, StopFrame
  <2>5. StopHolder'
    <3>1. stage' # "idle" => /\ Head(lockq').kind = "exit" /\ Head(lockq).kind = "exit"
                             /\ stage' = "finishing"
      BY <2>1 DEF AfterPass, Release
    <3>2. Head(lockq).kind = "exit" => MaySave(held, hook.settled, disk.worker)
      BY <2>1 DEF StopInv, StopHolder
    <3> QED
      BY <1>a, <2>4, <3>1, <3>2, MaySaveStays DEF StopHolder, SettledIsKept
  <2>6. StopPass'
    <3>1. stage' # "passing"
      BY <2>1 DEF AfterPass, Release
    <3> QED
      BY <1>a, <1>b, <2>1, <3>1 DEF StopPass, NoPass
  <2>7. StopWork'
    <3>1. AtWork' = AtWork
      BY <2>1 DEF AtWork
    <3>2. \/ UNCHANGED lockq /\ (Recorded => Recorded')
          \/ lockq # <<>> /\ lockq' = Tail(lockq)
      BY <1>a, <2>1 DEF AfterPass, Release, Recorded
    <3> QED
      BY <1>a, <2>1, <3>1, <3>2, StopWorkStays DEF StopInv, StopWork
  <2> QED
    BY <1>a, <2>4, <2>5, <2>6, <2>7 DEF StopInv, Serial
<1>2. CASE ~PassEnd
  <2>1. UNCHANGED disk
    BY <1>2 DEF PassStep, PassBegin, PassPick, PassSpawn, PassSpawnFails, PassSpawnTimesOut
  <2>2. /\ SettledIsKept /\ StopDisk' /\ \A h \in Handlers : StopRequest(h)'
    BY <1>a, <1>b, <2>1, StopFrame
  <2>3. /\ \A s \in Sessions : sess[s].phase # "unused" => sess'[s].task = sess[s].task
        /\ \A s \in AtWork' : sess'[s].task \notin hook.settled
    <3>1. CASE UNCHANGED sess
      BY <3>1 DEF AtWork, StopInv, StopWork
    <3>2. ASSUME NEW s \in Sessions, NEW phase, Provisioning, Fresh(s),
                 Spawned(s, PlanOrder[pass.next], phase)
          PROVE  /\ \A r \in Sessions : sess[r].phase # "unused" => sess'[r].task = sess[r].task
                 /\ \A r \in AtWork' : sess'[r].task \notin hook.settled
      <4>1. sess'[s].task = PlanOrder[pass.next] /\ \A r \in Sessions \ {s} : sess'[r] = sess[r]
        BY <1>a, <3>2 DEF Spawned
      <4>2. PlanOrder[pass.next] \notin hook.settled
        BY <3>2 DEF Provisioning, StopInv, StopPass
      <4> QED
        BY <3>2, <4>1, <4>2 DEF Fresh, AtWork, StopInv, StopWork
    <3> QED
      BY <1>2, <3>1, <3>2 DEF PassStep, PassBegin, PassPick, PassSpawn, PassSpawnFails,
         PassSpawnTimesOut
  <2>4. CASE PassBegin
    <3>1. /\ UNCHANGED sess
          /\ \/ /\ pass' = [NoPass EXCEPT !.snap = disk] /\ stage' = "passing"
                /\ UNCHANGED lockq /\ disk.status = "running"
             \/ AfterPass /\ UNCHANGED pass
          /\ stage # "passing"
          /\ \/ Head(lockq).kind = "dispatch"
             \/ Head(lockq).kind = "exit" /\ stage = "saved"
      BY <2>4 DEF PassBegin, Holds
    <3>2. pass = NoPass
      BY <3>1 DEF StopInv, StopPass
    <3>3. pass'.next = 0 /\ \A t \in hook.settled : pass'.mine[t] = NoSession
      BY <1>b, <3>1, <3>2 DEF NoPass
    <3>4. StopPass'
      <4>1. CASE /\ pass' = [NoPass EXCEPT !.snap = disk] /\ stage' = "passing"
                 /\ disk.status = "running"
        <5>1. pass'.snap = disk'
          BY <2>1, <4>1 DEF NoPass
        <5>2. MaySave(disk, hook.settled, disk.worker)
          BY <1>b DEF MaySave, Agree, StopInv, StopDisk
        <5> QED
          BY <1>a, <2>1, <3>3, <4>1, <5>1, <5>2 DEF StopPass
      <4>2. CASE AfterPass /\ UNCHANGED pass
        BY <1>a, <3>2, <3>3, <4>2 DEF StopPass, AfterPass, Release
      <4> QED
        BY <3>1, <4>1, <4>2
    <3>5. StopHolder'
      <4>1. Head(lockq).kind = "exit" => MaySave(held, hook.settled, disk.worker)
        BY <3>1 DEF StopInv, StopHolder
      <4>2. stage' # "idle" => UNCHANGED lockq
        BY <3>1 DEF AfterPass, Release
      <4> QED
        BY <1>a, <2>1, <3>1, <4>1, <4>2 DEF StopHolder
    <3>6. StopWork'
      <4>1. \/ UNCHANGED lockq /\ (Recorded => Recorded')
            \/ lockq # <<>> /\ lockq' = Tail(lockq)
        BY <1>a, <3>1 DEF AfterPass, Release, Recorded
      <4> QED
        BY <1>a, <2>3, <4>1, StopWorkStays DEF StopInv
    <3> QED
      BY <1>a, <2>2, <3>4, <3>5, <3>6 DEF StopInv, Serial
  <2>5. CASE PassPick \/ PassSpawn \/ PassSpawnFails \/ PassSpawnTimesOut
    <3>1. stage = "passing" /\ UNCHANGED <<lockq, stage>>
      BY <2>5 DEF PassPick, PassSpawn, PassSpawnFails, PassSpawnTimesOut, Provisioning
    <3>2. StopHolder'
      BY <1>a, <2>1, <3>1 DEF StopInv, StopHolder
    <3>3. StopWork'
      <4>1. Recorded' = Recorded
        BY <3>1 DEF Recorded
      <4> QED
        BY <1>a, <2>3, <3>1, <4>1, StopWorkStays DEF StopInv
    <3>4. /\ pass'.snap = pass.snap
          /\ \A t \in hook.settled : /\ pass'.mine[t] = NoSession
                                     /\ pass'.next # 0 => PlanOrder[pass'.next] # t
      <4>1. CASE PassPick
        <5>1. PICK j \in ReadyFrom(View, pass.at) : pass' = [pass EXCEPT !.next = j, !.at = j + 1]
          BY <4>1 DEF PassPick
        <5>2. pass'.snap = pass.snap /\ pass'.mine = pass.mine /\ pass'.next = j
          BY <1>a, <5>1 DEF Pass
        <5>3. View[PlanOrder[j]] = "none"
          BY <5>1 DEF ReadyFrom
        <5>4. \A t \in hook.settled : View[t] # "none"
          <6>1. \A t \in hook.settled : pass.snap.worker[t] = disk.worker[t]
            BY <3>1 DEF StopInv, StopPass, MaySave, Agree
          <6> QED
            BY <1>c, <6>1 DEF StopInv, StopDisk, SettledStatus, Unsuccessful
        <5> QED
          BY <5>2, <5>3, <5>4 DEF StopInv, StopPass
      <4>2. CASE PassSpawn
        <5>1. PICK s \in Sessions :
                 pass' = [pass EXCEPT !.mine[PlanOrder[pass.next]] = s, !.next = 0]
          BY <4>2 DEF PassSpawn
        <5>2. /\ pass'.snap = pass.snap /\ pass'.next = 0
              /\ \A t \in Tasks \ {PlanOrder[pass.next]} : pass'.mine[t] = pass.mine[t]
          BY <1>a, <5>1 DEF Pass
        <5> QED
          BY <1>b, <4>2, <5>2 DEF PassSpawn, Provisioning, StopInv, StopPass
      <4>3. CASE PassSpawnFails \/ PassSpawnTimesOut
        <5>1. pass'.snap = pass.snap /\ pass'.next = 0 /\ pass'.mine = pass.mine
          BY <1>a, <4>3 DEF PassSpawnFails, PassSpawnTimesOut, Pass
        <5> QED
          BY <5>1 DEF StopInv, StopPass
      <4> QED
        BY <2>5, <4>1, <4>2, <4>3
    <3>5. StopPass'
      BY <1>a, <2>1, <3>1, <3>4 DEF StopInv, StopPass
    <3> QED
      BY <1>a, <2>2, <3>2, <3>3, <3>5 DEF StopInv, Serial
  <2> QED
    BY <1>2, <2>2, <2>4, <2>5 DEF PassStep
<1> QED
  BY <1>1, <1>2

\* So do the sessions.
LEMMA StopSessionStep ==
  ASSUME BaseInv, StopInv, NEW s \in Sessions, SessionStep(s)
  PROVE  StopInv' /\ SettledIsKept
<1>a. /\ lockq \in Seq(Job) /\ sess \in [Sessions -> Session] /\ sess[s] \in Session
      /\ UNCHANGED <<disk, stage, held, pass, req, pmLive, hook>>
  BY DEF SessionStep, Stall, ExitClean, ExitUnclean, Validated, OrphanExits, ConflictScan,
     BaseInv, TypeOK
<1>b. sess[s].phase \in {"live", "checking", "orphan", "scanning"}
  BY DEF SessionStep, Stall, ExitClean, ExitUnclean, Validated, OrphanExits, ConflictScan
<1>c. disk.status # "planning"
  BY <1>b, StopBusy
<1>d. ExitJob(s) \in Job /\ ConflictsJob \in Job /\ ConflictsJob.kind # "exit" /\ ExitJob(s).sid = s
  BY BoundsAssumption DEF ExitJob, ConflictsJob, Job, Sessions, NoSession
<1>e. /\ \A r \in Sessions \ {s} : sess'[r] = sess[r]
      /\ sess'[s].task = sess[s].task
      /\ s \in AtWork' => s \in AtWork
      /\ lockq' = lockq \/ (lockq' = Append(lockq, ExitJob(s)) /\ s \in AtWork)
         \/ lockq' = Append(lockq, ConflictsJob)
  BY <1>a, <1>b DEF SessionStep, Stall, ExitClean, ExitUnclean, Validated, OrphanExits,
     ConflictScan, Session, AtWork
<1>1. /\ SettledIsKept /\ StopDisk' /\ \A h \in Handlers : StopRequest(h)'
  BY <1>a, <1>c, StopFrame
<1>2. StopHolder'
  <2>1. stage # "idle" => Head(lockq') = Head(lockq)
    BY <1>a, <1>e DEF BaseInv, LockHeld
  <2> QED
    BY <1>a, <2>1 DEF StopInv, StopHolder
<1>3. StopPass'
  BY <1>a DEF StopInv, StopPass
<1>4. StopWork'
  <2>1. \A r \in Sessions : sess'[r].task = sess[r].task
    BY <1>e
  <2>2. \A r \in AtWork' : sess'[r].task \notin hook.settled
    BY <1>e, <2>1 DEF AtWork, StopInv, StopWork
  <2>3. s \in AtWork => sess'[s].task \notin hook.settled
    BY <2>1 DEF StopInv, StopWork
  <2>4. Recorded' = Recorded
    BY <1>a DEF Recorded
  <2>5. \/ UNCHANGED lockq
        \/ \E j \in Job : /\ lockq' = Append(lockq, j)
                          /\ j.kind = "exit" => sess'[j.sid].task \notin hook.settled
    BY <1>d, <1>e, <2>3
  <2> QED
    BY <1>a, <2>1, <2>2, <2>4, <2>5, StopWorkStays DEF StopInv
<1> QED
  BY <1>a, <1>1, <1>2, <1>3, <1>4 DEF StopInv, Serial

\* So do the exit jobs and the conflicts jobs.
LEMMA StopJobStep == BaseInv /\ StopInv /\ JobStep => StopInv' /\ SettledIsKept
<1> SUFFICES ASSUME BaseInv, StopInv, JobStep PROVE StopInv' /\ SettledIsKept
  OBVIOUS
<1>a. /\ lockq # <<>> /\ lockq \in Seq(Job) /\ disk \in Run /\ held \in Run
      /\ sess \in [Sessions -> Session]
      /\ Head(lockq).kind \in {"exit", "conflicts"} /\ stage # "passing" /\ stage' # "passing"
      /\ UNCHANGED <<pass, req, pmLive, hook>>
  BY DEF JobStep, ExitLoad, ExitSave, ExitFinish, ConflictsLoad, ConflictsSave, Holds, Release,
     BaseInv, TypeOK
<1>b. disk.status # "planning" /\ hook.settled \subseteq Tasks
  BY <1>a, StopBusy DEF BaseInv, TypeOK, Hook
<1>c. MaySave(disk, hook.settled, disk.worker)
  BY <1>b DEF MaySave, Agree, StopInv, StopDisk
<1>1. \/ UNCHANGED disk
      \/ MaySave(disk', hook.settled, disk.worker)
  <2>1. CASE ExitSave \/ ConflictsSave
    <3>1. disk' = held /\ stage = "loaded"
      BY <2>1 DEF ExitSave, ConflictsSave, Holds
    <3> QED
      BY <1>a, <3>1 DEF StopInv, StopHolder
  <2>2. CASE ExitFinish
    <3>1. CASE AllResolved(held)
      <4>1. MaySave(held, hook.settled, disk.worker)
        BY <1>a, <2>2, <3>1 DEF ExitFinish, Holds, StopInv, StopHolder
      <4>2. disk'.status \in {"done", "failed"} /\ disk'.worker = held.worker
        BY <1>a, <2>2, <3>1 DEF ExitFinish, FinalStatus, Run
      <4>3. RunningEntries(held.worker) = {}
        BY <3>1, <4>1 DEF AllResolved, Resolved, RunningEntries, Entries, MaySave, RunFits
      <4> QED
        BY <4>1, <4>2, <4>3 DEF MaySave, RunFits
    <3> QED
      BY <2>2, <3>1 DEF ExitFinish
  <2>3. CASE ExitLoad \/ ConflictsLoad
    BY <2>3 DEF ExitLoad, ConflictsLoad
  <2> QED
    BY <2>1, <2>2, <2>3 DEF JobStep
<1>2. /\ SettledIsKept /\ StopDisk' /\ \A h \in Handlers : StopRequest(h)'
  BY <1>a, <1>b, <1>1, StopFrame
<1>3. StopPass'
  BY <1>a DEF StopInv, StopPass
<1>4. StopHolder'
  <2>1. CASE ExitLoad
    <3> DEFINE s == HolderSession
    <3>1. /\ stage = "idle" /\ UNCHANGED <<disk, lockq>> /\ Head(lockq).kind = "exit"
          /\ held' = RecordExit(disk, sess[s].task, sess[s].closure)
      BY <2>1 DEF ExitLoad, Holds
    <3>2. /\ s \in Ended /\ s \in Sessions /\ lockq[1] = Head(lockq) /\ 1 \in 1..Len(lockq)
      BY <1>a, <3>1, HolderEnded
    <3>3. /\ sess[s].task \in Tasks /\ sess[s].closure \in WorkerStatus
          /\ sess[s].closure # "running"
      BY <1>a, <3>2 DEF Ended, Session
    <3>4. sess[s].task \notin hook.settled
      BY <3>1, <3>2 DEF StopInv, StopWork, HolderSession, Recorded
    <3> HIDE DEF s
    <3>5. \A t \in hook.settled : disk.worker[t] # "none"
      BY DEF StopInv, StopDisk, SettledStatus, Unsuccessful
    <3>6. held'.status = disk.status /\ held'.worker[PM] = disk.worker[PM]
      BY <1>a, <3>1, <3>3, RecordExitEntries
    <3>7. \A t \in hook.settled : held'.worker[t] = disk.worker[t]
      BY <1>a, <1>b, <3>1, <3>3, <3>4, <3>5, RecordExitEntries
    <3>8. RunningEntries(disk.worker) = {} => RunningEntries(held'.worker) = {}
      <4> SUFFICES ASSUME RunningEntries(disk.worker) = {}, NEW e \in Entries
                   PROVE  held'.worker[e] # "running"
        BY DEF RunningEntries
      <4>1. disk.worker[e] # "running"
        BY DEF RunningEntries
      <4> QED
        BY <1>a, <3>1, <3>3, <3>6, <4>1, RecordExitEntries DEF Entries
    <3> QED
      BY <1>a, <1>c, <3>1, <3>6, <3>7, <3>8 DEF StopHolder, MaySave, RunFits, Agree
  <2>2. CASE ConflictsLoad
    BY <1>a, <1>c, <2>2 DEF ConflictsLoad, StopHolder
  <2>3. CASE ExitSave
    <3>1. disk' = held /\ stage = "loaded" /\ UNCHANGED <<held, lockq>>
      BY <2>3 DEF ExitSave, Holds
    <3>2. MaySave(held, hook.settled, disk.worker)
      BY <1>a, <3>1 DEF StopInv, StopHolder
    <3> QED
      BY <1>a, <1>2, <3>1, <3>2, MaySaveStays DEF StopHolder, SettledIsKept
  <2>4. CASE ExitFinish \/ ConflictsSave
    BY <2>4 DEF ExitFinish, ConflictsSave, Release, StopHolder
  <2> QED
    BY <2>1, <2>2, <2>3, <2>4 DEF JobStep
<1>5. StopWork'
  <2>1. /\ \A s \in Sessions : sess'[s].task = sess[s].task
        /\ \A s \in Sessions : s \in AtWork' => s \in AtWork
    <3>1. CASE UNCHANGED sess
      BY <3>1 DEF AtWork
    <3>2. ASSUME NEW phase \in {"recorded", "scanning", "gone"},
                 sess' = [sess EXCEPT ![HolderSession].phase = phase]
          PROVE  /\ \A s \in Sessions : sess'[s].task = sess[s].task
                 /\ \A s \in Sessions : s \in AtWork' => s \in AtWork
      BY <1>a, <3>2 DEF AtWork, Session
    <3> QED
      BY <3>1, <3>2 DEF JobStep, ExitLoad, ExitSave, ExitFinish, ConflictsLoad, ConflictsSave
  <2>2. \A s \in AtWork' : sess'[s].task \notin hook.settled
    BY <2>1 DEF AtWork, StopInv, StopWork
  <2>3. \/ UNCHANGED lockq /\ (Recorded => Recorded')
        \/ lockq # <<>> /\ lockq' = Tail(lockq)
    BY <1>a DEF JobStep, ExitLoad, ExitSave, ExitFinish, ConflictsLoad, ConflictsSave, Release,
       Recorded, Holds
  <2> QED
    BY <1>a, <2>1, <2>2, <2>3, StopWorkStays DEF StopInv
<1> QED
  BY <1>a, <1>2, <1>3, <1>4, <1>5 DEF StopInv, Serial

\* What does not belong to the handlers fits when only they move and save what may be
\* saved.
LEMMA StopHandlerFrame ==
  ASSUME BaseInv, StopInv, SettledIsKept, hook'.settled = hook.settled,
         UNCHANGED <<sess, stage, held, pass>>,
         lockq' = lockq \/ lockq' = Append(lockq, DispatchJob)
  PROVE  StopHolder' /\ StopPass' /\ StopWork'
<1>a. lockq \in Seq(Job) /\ DispatchJob \in Job /\ DispatchJob.kind # "exit"
  BY BoundsAssumption DEF BaseInv, TypeOK, DispatchJob, Job, NoSession
<1>1. StopHolder'
  <2>1. stage # "idle" => Head(lockq') = Head(lockq)
    BY <1>a DEF BaseInv, LockHeld
  <2> QED
    BY <2>1, MaySaveStays DEF StopInv, StopHolder, SettledIsKept, AllResolved
<1>2. StopPass'
  BY MaySaveStays DEF StopInv, StopPass, SettledIsKept
<1>3. StopWork'
  <2>1. AtWork' = AtWork /\ Recorded' = Recorded
    BY DEF AtWork, Recorded
  <2>2. ASSUME NEW i \in 1..Len(lockq'), lockq'[i].kind = "exit"
        PROVE  i \in 1..Len(lockq) /\ lockq'[i] = lockq[i]
    BY <1>a, <2>2
  <2> QED
    BY <2>1, <2>2 DEF StopInv, StopWork
<1> QED
  BY <1>1, <1>2, <1>3

\* A handler under way loads what it may save, or gives up.
LEMMA StopLoad ==
  ASSUME BaseInv, StopInv, NEW h \in Handlers, Load(h)
  PROVE  StopInv' /\ SettledIsKept
<1>a. /\ req[h].op \in {"resume", "recover"} /\ ~req[h].loaded
      /\ req' = [req EXCEPT ![h] = Loaded(req[h])]
      /\ UNCHANGED <<disk, sess, lockq, stage, held, pass, pmLive, hook>>
      /\ req \in [Handlers -> Request] /\ req[h] \in Request
  BY DEF Load, StopInv, StopRequest, BaseInv, TypeOK
<1>b. req'[h] = Loaded(req[h]) /\ \A g \in Handlers \ {h} : req'[g] = req[g]
  BY <1>a
<1>1. SettledIsKept
  BY <1>a DEF SettledIsKept, Agree
<1>2. StopRequest(h)'
  <2>1. CASE Allowed(req[h].op, req[h].task, disk)
    <3>1. disk.status # "planning"
      <4>1. CASE req[h].op = "recover"
        BY <2>1, <4>1 DEF Allowed, NeedsRecovery
      <4>2. CASE req[h].op = "resume"
        <5>1. disk.status = "planning" => InterruptedTasks(disk) = {}
          BY DEF StopInv, StopDisk, NewRun, InterruptedTasks, Entries
        <5> QED
          BY <2>1, <4>2, <5>1 DEF Allowed
      <4> QED
        BY <1>a, <4>1, <4>2
    <3>2. MaySave(disk, hook.settled, disk.worker)
      BY <3>1 DEF MaySave, Agree, StopInv, StopDisk
    <3>3. req'[h].op = req[h].op /\ req'[h].run = disk
      BY <1>a, <1>b, <2>1 DEF Loaded, Request
    <3> QED
      BY <1>a, <3>1, <3>2, <3>3 DEF StopRequest
  <2>2. CASE ~Allowed(req[h].op, req[h].task, disk)
    <3>1. req'[h] = NoRequest
      BY <1>a, <1>b, <2>2 DEF Loaded
    <3> QED
      BY <3>1 DEF StopRequest, NoRequest
  <2> QED
    BY <2>1, <2>2
<1>3. \A g \in Handlers : StopRequest(g)'
  BY <1>a, <1>b, <1>2 DEF StopInv, StopRequest
<1>4. StopDisk'
  BY <1>a DEF StopInv, StopDisk, Untouched
<1> QED
  BY <1>a, <1>1, <1>3, <1>4, StopHandlerFrame DEF StopInv, Serial

\* And leaves the settled tasks alone when it saves.
LEMMA StopSave ==
  ASSUME BaseInv, StopInv, NEW h \in Handlers, Save(h)
  PROVE  StopInv' /\ SettledIsKept
<1>a. /\ req[h].loaded /\ Outcome(req[h].op, req[h].task, req[h].run, disk')
      /\ req[h].op \in {"approve", "resume", "recover", "kill"}
      /\ req'[h] = NoRequest /\ \A g \in Handlers \ {h} : req'[g] = req[g]
      /\ lockq' = lockq \/ lockq' = Append(lockq, DispatchJob)
      /\ UNCHANGED <<sess, stage, held, pass, pmLive, hook>>
      /\ req[h].run \in Run /\ disk \in Run /\ hook.settled \subseteq Tasks
  BY DEF Save, StopInv, StopRequest, BaseInv, TypeOK, Request, Hook
<1>b. StopRequest(h)' /\ PM \notin Tasks
  BY <1>a, TasksAssumption DEF StopRequest, NoRequest
<1>1. CASE req[h].op = "approve"
  <2>1. h \in Clients /\ disk.status = "planning" /\ req[h].run = disk /\ disk = NewRun
    BY <1>1 DEF StopInv, StopRequest, StopDisk
  <2>2. disk' = Approve(disk)
    BY <1>a, <1>1, <2>1 DEF Outcome
  <2>3. disk'.status = "running" /\ disk'.worker = disk.worker
    BY <1>a, <2>2 DEF Approve, Run
  <2>4. SettledIsKept /\ StopDisk'
    BY <1>a, <2>3 DEF SettledIsKept, Agree, StopInv, StopDisk, RunFits
  <2>5. ASSUME NEW g \in Handlers \ {h} PROVE StopRequest(g)'
    <3>1. req[g].op # "approve"
      BY <2>1, <2>5 DEF StopInv, StopRequest, Serial
    <3>2. ~req[g].loaded /\ req[g].op # "kill"
      BY <2>1, <3>1 DEF StopInv, StopRequest
    <3> QED
      BY <1>a, <3>1, <3>2 DEF StopInv, StopRequest
  <2> QED
    BY <1>a, <1>b, <2>4, <2>5, StopHandlerFrame DEF StopInv, Serial
<1>2. CASE req[h].op # "approve"
  <2>1. /\ disk.status # "planning" /\ MaySave(req[h].run, hook.settled, disk.worker)
        /\ req[h].op = "kill" => req[h].task \in Tasks \ hook.settled
    BY <1>a, <1>2 DEF StopInv, StopRequest
  <2> DEFINE run == req[h].run
  <2>2. \A t \in hook.settled : run.worker[t] \in SettledStatus
    BY <2>1 DEF StopInv, StopDisk, MaySave, Agree
  <2>3. MaySave(disk', hook.settled, disk.worker)
    <3>1. CASE req[h].op = "kill"
      <4>1. disk' = Kill(run, req[h].task) /\ req[h].task \in Entries
        BY <1>a, <2>1, <3>1 DEF Outcome, Entries
      <4>2. /\ disk'.status = run.status
            /\ \A e \in Entries : disk'.worker[e] = IF e = req[h].task THEN "killed"
                                                    ELSE run.worker[e]
        BY <1>a, <4>1 DEF Kill, Run
      <4>3. RunningEntries(run.worker) = {} => RunningEntries(disk'.worker) = {}
        BY <4>2 DEF RunningEntries
      <4> QED
        BY <1>a, <1>b, <2>1, <3>1, <4>2, <4>3 DEF MaySave, RunFits, Agree, Entries
    <3>2. CASE req[h].op = "resume"
      <4>1. PICK S \in Unblocked(run.worker) : disk' = Resume(run, S)
        BY <1>a, <3>2 DEF Outcome
      <4>2. /\ disk'.status = "running"
            /\ \A e \in Entries : disk'.worker[e] = IF e \in InterruptedTasks(run) \cup S
                                                    THEN "none" ELSE run.worker[e]
        BY <4>1 DEF Resume
      <4>3. S \subseteq Tasks /\ \A t \in hook.settled : t \notin InterruptedTasks(run) \cup S
        BY <2>2, <4>1 DEF Unblocked, InterruptedTasks, SettledStatus, Unsuccessful
      <4> QED
        BY <1>a, <1>b, <2>1, <4>2, <4>3 DEF MaySave, RunFits, Agree, Entries, InterruptedTasks
    <3>3. CASE req[h].op = "recover"
      <4>1. disk' = Recover(run, Alive)
        BY <1>a, <3>3 DEF Outcome
      <4>2. /\ disk'.status = "failed" \/ (disk'.status = run.status /\ run.status # "merging")
            /\ \A e \in Entries : disk'.worker[e] = IF e \in RunningEntries(run.worker) \ Alive
                                                    THEN "interrupted" ELSE run.worker[e]
        BY <4>1 DEF Recover
      <4>3. disk'.status = "failed" /\ run.status # "merging" /\ run.status # "failed" =>
              \A t \in Tasks : disk'.worker[t] # "none" => disk'.worker[t] # "running"
        BY <4>1 DEF Recover, Resolved
      <4>4. \A e \in Entries : disk'.worker[e] = "running" => run.worker[e] = "running"
        BY <4>2
      <4>5. disk'.status \in {"done", "failed"} => RunningEntries(disk'.worker) = {}
        <5> SUFFICES ASSUME disk'.status \in {"done", "failed"}, NEW e \in Entries
                     PROVE  disk'.worker[e] # "running"
          BY DEF RunningEntries
        <5>1. CASE e = PM
          BY <2>1, <4>4, <5>1 DEF MaySave, RunFits
        <5>2. CASE run.status \in {"done", "failed"}
          BY <2>1, <4>4, <5>2 DEF MaySave, RunFits, RunningEntries
        <5>3. CASE run.status \notin {"done", "failed"} /\ e \in Tasks
          BY <2>1, <4>2, <4>3, <5>3 DEF MaySave, RunFits
        <5> QED
          BY <5>1, <5>2, <5>3 DEF Entries
      <4>6. disk'.worker[PM] = "none" /\ Agree(hook.settled, disk'.worker, disk.worker)
        BY <1>a, <2>1, <2>2, <4>2 DEF MaySave, RunFits, Agree, Entries, RunningEntries,
           SettledStatus, Unsuccessful
      <4> QED
        BY <2>1, <4>2, <4>5, <4>6 DEF MaySave, RunFits
    <3> QED
      BY <1>a, <1>2, <3>1, <3>2, <3>3
  <2>4. /\ SettledIsKept /\ StopDisk' /\ \A g \in Handlers \ {h} : StopRequest(g)'
    BY <1>a, <2>1, <2>3, StopFrame
  <2> QED
    BY <1>a, <1>b, <2>4, StopHandlerFrame DEF StopInv, Serial
<1> QED
  BY <1>1, <1>2

\* The hook loads what it may save, and kills none of the settled tasks.
LEMMA StopKills ==
  ASSUME BaseInv, StopInv, NEW e \in Entries, ShutdownKills(e)
  PROVE  StopInv' /\ SettledIsKept
<1>a. /\ e \in hook.doomed /\ hook' = [hook EXCEPT !.doomed = hook.doomed \ {e}]
      /\ UNCHANGED <<disk, sess, lockq, stage, held, pass, pmLive>>
      /\ req' = IF disk.worker[e] = "none" THEN req
                ELSE [req EXCEPT !["shutdown"] =
                        [op |-> "kill", task |-> e, loaded |-> TRUE, run |-> disk]]
      /\ req \in [Handlers -> Request] /\ hook \in Hook
  BY DEF ShutdownKills, BaseInv, TypeOK
<1>b. /\ hook'.settled = hook.settled /\ hook'.stopping = hook.stopping
      /\ hook'.doomed \subseteq hook.doomed
  BY <1>a DEF Hook
<1>1. SettledIsKept
  BY <1>a DEF SettledIsKept, Agree
<1>2. disk.status # "planning" /\ e \in Tasks \ hook.settled
  BY <1>a, StopBusy DEF StopInv
<1>3. ASSUME NEW h \in Handlers PROVE StopRequest(h)'
  <2>1. CASE req'[h] = req[h]
    BY <1>a, <1>b, <2>1 DEF StopInv, StopRequest
  <2>2. CASE req'[h] = [op |-> "kill", task |-> e, loaded |-> TRUE, run |-> disk]
    <3>1. MaySave(disk, hook.settled, disk.worker)
      BY <1>2 DEF MaySave, Agree, StopInv, StopDisk
    <3> QED
      BY <1>a, <1>b, <1>2, <2>2, <3>1 DEF StopRequest
  <2> QED
    BY <1>a, <2>1, <2>2
<1>4. StopDisk'
  BY <1>a, <1>b, <1>2 DEF StopInv, StopDisk
<1> QED
  BY <1>a, <1>b, <1>1, <1>3, <1>4, StopHandlerFrame DEF StopInv, Serial

\* Every step while the hook is at work, but for the end of the server.
LEMMA StopStep ==
  ASSUME BaseInv, StopInv, [Next]_vars, ~Exit
  PROVE  StopInv' /\ SettledIsKept
<1>1. CASE PassStep
  BY <1>1, StopPassStep
<1>2. ASSUME NEW s \in Sessions, SessionStep(s) PROVE StopInv' /\ SettledIsKept
  BY <1>2, StopSessionStep
<1>3. CASE JobStep
  BY <1>3, StopJobStep
<1>4. ASSUME NEW h \in Handlers, HandlerStep(h) PROVE StopInv' /\ SettledIsKept
  <2>1. ~MergeProgress(h)
    BY DEF MergeProgress, StopInv, StopRequest
  <2> QED
    BY <1>4, <2>1, StopLoad, StopSave DEF HandlerStep
<1>5. ASSUME NEW e \in Entries, ShutdownKills(e) PROVE StopInv' /\ SettledIsKept
  BY <1>5, StopKills
<1>6. CASE UNCHANGED vars
  <2>1. SettledIsKept /\ StopHolder' /\ StopPass' /\ StopWork'
    BY <1>6, StopHandlerFrame DEF vars, SettledIsKept, Agree
  <2>2. StopDisk' /\ \A h \in Handlers : StopRequest(h)'
    BY <1>6 DEF vars, StopInv, StopDisk, StopRequest, Untouched
  <2> QED
    BY <1>6, <2>1, <2>2 DEF vars, StopInv, Serial
<1>7. /\ ~ShutdownBegins /\ ~Crash /\ ~PmExits
      /\ ~\E c \in Clients, op \in Ops, t \in Entries : Arrive(c, op, t)
  BY DEF StopInv, ShutdownBegins, Crash, PmExits, Arrive
<1> QED
  BY <1>1, <1>2, <1>3, <1>4, <1>5, <1>6, <1>7 DEF Next

\* The next server starts from a run of the right shape.
LEMMA ExitSerial == BaseInv /\ StopInv /\ Exit => SerialInv'
BY RebootFits DEF Exit, StopInv, StopDisk, RunFits

\* When the hook begins, nobody has more in hand than what run.json says, or that
\* together with the exit of a task that is not settled.
LEMMA StopBegins == BaseInv /\ SerialInv /\ ShutdownBegins => StopInv'
<1> SUFFICES ASSUME BaseInv, SerialInv, ShutdownBegins PROVE StopInv'
  OBVIOUS
<1>a. /\ UNCHANGED <<disk, sess, lockq, stage, held, pass, req, pmLive>>
      /\ hook'.stopping /\ hook'.settled = Settled
      /\ hook'.doomed = IF disk.status = "running" THEN RunningEntries(disk.worker) ELSE {}
      /\ disk \in Run /\ lockq \in Seq(Job) /\ sess \in [Sessions -> Session] /\ pass \in Pass
      /\ RunFits(disk) /\ ~pmLive
  BY DEF ShutdownBegins, BaseInv, TypeOK, SerialInv, RequestsFit, DiskFits, RunFits
<1>b. /\ Settled \subseteq Tasks
      /\ \A t \in Settled : /\ disk.worker[t] \in SettledStatus
                            /\ \A s \in AtWork : sess[s].task # t
  BY DEF Settled, SettledStatus
<1>c. disk.status # "planning" => MaySave(disk, Settled, disk.worker)
  BY <1>a DEF MaySave, Agree
<1>d. stage # "idle" \/ lockq # <<>> => disk.status # "planning"
  BY DEF SerialInv, DiskFits, Untouched
<1>1. hook'.doomed \subseteq Tasks \ hook'.settled
  BY <1>a, <1>b DEF RunningEntries, RunFits, Entries, SettledStatus, Unsuccessful
<1>2. StopDisk'
  BY <1>a, <1>b DEF StopDisk, SerialInv, DiskFits, Untouched
<1>3. ASSUME NEW h \in Handlers PROVE StopRequest(h)'
  <2>1. CASE h \in Clients
    <3>1. ClientFits(h)
      BY <2>1 DEF SerialInv, RequestsFit
    <3> QED
      BY <1>a, <1>c, <2>1, <3>1 DEF ClientFits, StopRequest
  <2>2. CASE h = "recovery"
    <3>1. RecoveryFits
      BY DEF SerialInv, RequestsFit
    <3> QED
      BY <1>a, <1>c, <2>2, <3>1 DEF RecoveryFits, StopRequest
  <2>3. CASE h \in {"pmExit", "shutdown"}
    BY <1>a, <2>3 DEF SerialInv, RequestsFit, StopRequest
  <2> QED
    BY <2>1, <2>2, <2>3 DEF Handlers, Internal
<1>4. StopHolder'
  <2> SUFFICES ASSUME stage # "idle", Head(lockq).kind # "dispatch"
               PROVE  MaySave(held, Settled, disk.worker) \/ (stage = "finishing" /\ ~AllResolved(held))
    BY <1>a DEF StopHolder, AllResolved
  <2>a. lockq # <<>> /\ disk.status # "planning" /\ stage \in Stages
    BY <1>d DEF BaseInv, LockHeld, TypeOK
  <2>1. CASE stage \in {"passing", "saved", "finishing"}
    <3>1. held = disk \/ (stage = "finishing" /\ ~AllResolved(held))
      BY <2>1 DEF SerialInv, HolderFits
    <3> QED
      BY <1>c, <2>a, <3>1
  <2>2. CASE stage = "loaded" /\ Head(lockq).kind # "exit"
    BY <1>c, <2>a, <2>2 DEF SerialInv, HolderFits
  <2>3. CASE stage = "loaded" /\ Head(lockq).kind = "exit"
    <3> DEFINE s == HolderSession
    <3>1. held = RecordExit(disk, sess[s].task, sess[s].closure)
      BY <2>3 DEF SerialInv, HolderFits
    <3>2. /\ s \in Sessions /\ sess[s].phase = "queued" /\ sess[s].task \in Tasks
          /\ sess[s].closure \in WorkerStatus \ {"running"}
      BY <2>a, <2>3, HolderPhase DEF Recorded
    <3>3. sess[s].task \notin Settled
      BY <1>b, <3>2 DEF AtWork
    <3> HIDE DEF s
    <3>4. held.status = disk.status /\ held.worker[PM] = disk.worker[PM]
      BY <1>a, <3>1, <3>2, RecordExitEntries
    <3>5. \A t \in Settled : held.worker[t] = disk.worker[t]
      BY <1>a, <1>b, <3>1, <3>2, <3>3, RecordExitEntries DEF SettledStatus, Unsuccessful
    <3>6. RunningEntries(disk.worker) = {} => RunningEntries(held.worker) = {}
      <4> SUFFICES ASSUME RunningEntries(disk.worker) = {}, NEW e \in Entries
                   PROVE  held.worker[e] # "running"
        BY DEF RunningEntries
      <4>1. disk.worker[e] # "running"
        BY DEF RunningEntries
      <4> QED
        BY <1>a, <3>1, <3>2, <3>4, <4>1, RecordExitEntries DEF Entries
    <3> QED
      BY <1>a, <2>a, <3>4, <3>5, <3>6 DEF MaySave, RunFits, Agree
  <2> QED
    BY <2>a, <2>1, <2>2, <2>3 DEF Stages
<1>5. StopPass'
  <2>1. stage # "passing" => pass = NoPass
    BY DEF SerialInv, HolderFits
  <2>2. stage = "passing" => pass.snap = disk /\ disk.status = "running"
    BY DEF SerialInv, HolderFits
  <2>3. ASSUME NEW t \in Settled
        PROVE  pass.mine[t] = NoSession /\ (pass.next # 0 => PlanOrder[pass.next] # t)
    <3>1. CASE stage # "passing"
      BY <1>b, <2>1, <3>1 DEF NoPass
    <3>2. CASE stage = "passing"
      BY <1>b, <2>2, <3>2 DEF SerialInv, PassFits, Dispatched, SettledStatus, Unsuccessful
    <3> QED
      BY <3>1, <3>2
  <2>4. disk.status = "running" => MaySave(disk, Settled, disk.worker)
    BY <1>c
  <2> QED
    BY <1>a, <2>1, <2>2, <2>3, <2>4 DEF StopPass
<1>6. StopWork'
  <2>1. ASSUME NEW i \in 1..Len(lockq), lockq[i].kind = "exit", ~(i = 1 /\ Recorded)
        PROVE  sess[lockq[i].sid].task \notin Settled
    <3>1. lockq[i].sid \in Sessions /\ sess[lockq[i].sid].phase = "queued"
      BY <2>1 DEF BaseInv, ExitJobsEnded, Ended, SerialInv, QueueFits
    <3> QED
      BY <1>b, <3>1 DEF AtWork
  <2>2. Recorded' = Recorded /\ AtWork' = AtWork
    BY <1>a DEF Recorded, AtWork
  <2> QED
    BY <1>a, <1>b, <2>1, <2>2 DEF StopWork
<1> QED
  BY <1>a, <1>1, <1>2, <1>3, <1>4, <1>5, <1>6 DEF StopInv, SerialInv, Serial

-----------------------------------------------------------------------------
(***************************************************************************)
(* The three properties.                                                   *)
(***************************************************************************)

WorkInv == (SerialInv /\ ~hook.stopping) \/ StopInv

\* The two invariants take turns: the hook's begins with the hook and ends with the
\* server.
LEMMA WorkStep == BaseInv /\ WorkInv /\ [Next]_vars => WorkInv'
<1> SUFFICES ASSUME BaseInv, WorkInv, [Next]_vars PROVE WorkInv'
  OBVIOUS
<1>a. SerialInv' => ~hook'.stopping
  BY DEF SerialInv, RequestsFit, NoHook
<1>1. CASE SerialInv /\ ShutdownBegins
  BY <1>1, StopBegins DEF WorkInv
<1>2. CASE SerialInv /\ ~ShutdownBegins
  BY <1>a, <1>2, SerialStep DEF WorkInv
<1>3. CASE StopInv /\ Exit
  BY <1>a, <1>3, ExitSerial DEF WorkInv
<1>4. CASE StopInv /\ ~Exit
  BY <1>4, StopStep DEF WorkInv
<1> QED
  BY <1>1, <1>2, <1>3, <1>4 DEF WorkInv

\* The invariant under the three properties that follow.
THEOREM SpecSerial == Serial /\ Spec => []WorkInv
<1>1. Serial /\ Init => WorkInv
  BY InitSerial DEF WorkInv, Init, NoHook
<1> QED
  BY <1>1, WorkStep, SpecBase, PTL DEF Spec

\* However exits, stalls, late and failing spawns, approve, resume and restarts
\* interleave with the passes, a task has one worker at a time for as long as
\* the server is not shutting down.
THEOREM SpecOneWorkerPerTask == Serial /\ Spec => []OneWorkerPerTask
<1>1. WorkInv => OneWorkerPerTask
  BY DEF WorkInv, SerialInv, StopInv, OneWorkerPerTask
<1> QED
  BY <1>1, SpecSerial, PTL

\* When a run is called done or failed none of its workers runs on, but for
\* those that have been killed and are about to exit, until the server shuts down.
THEOREM SpecSettledRunIsQuiet == Serial /\ Spec => []SettledRunIsQuiet
<1>1. BaseInv /\ WorkInv => SettledRunIsQuiet
  <2> SUFFICES ASSUME BaseInv, SerialInv, disk.status \in {"done", "failed"},
                      NEW s \in Sessions, sess[s].phase = "live"
               PROVE  sess[s].closure = "stuck"
    BY DEF SettledRunIsQuiet, WorkInv, StopInv
  <2>1. s \in AtWork /\ sess[s].task \in Tasks /\ s # NoSession
    BY BoundsAssumption DEF AtWork, BaseInv, TypeOK, Session, Sessions, NoSession
  <2>2. pass = NoPass
    BY DEF SerialInv, HolderFits
  <2>3. EntryFits(s, disk.worker[sess[s].task])
    BY <2>1, <2>2 DEF SerialInv, Books, NoPass
  <2>4. disk.worker[sess[s].task] # "running"
    BY <2>1 DEF SerialInv, DiskFits, RunningEntries, Entries
  <2> QED
    BY <2>1, <2>3, <2>4 DEF SerialInv, Books, EntryFits
<1> QED
  BY <1>1, SpecBase, SpecSerial, PTL

\* The step in which a recorded success changes is the recording of the verdict
\* that its validation has come to.
LEMMA SuccessStays ==
  ASSUME BaseInv, SerialInv, [Next]_vars, NEW t \in Tasks, disk.worker[t] = "done"
  PROVE  disk'.worker[t] \in {"done", "validation_failed"}
<1>a. disk \in Run
  BY DEF BaseInv, TypeOK
<1>1. CASE PassEnd
  <2>1. stage = "passing" /\ pass.snap = disk
    BY <1>1, InPass DEF PassEnd
  <2>2. View[t] = disk.worker[t]
    BY <2>1, ViewOf DEF SerialInv, PassFits, Dispatched
  <2> QED
    BY <1>1, <1>a, <2>1, <2>2 DEF PassEnd, Run
<1>2. CASE ExitSave
  <2> DEFINE s == HolderSession
  <2>1. stage = "loaded" /\ lockq # <<>> /\ Head(lockq).kind = "exit" /\ disk' = held
    BY <1>2 DEF ExitSave, Holds
  <2>2. /\ s \in Sessions /\ sess[s].phase = "queued"
        /\ sess[s].task \in Tasks /\ sess[s].closure \in WorkerStatus
    BY <2>1, HolderPhase DEF Recorded
  <2>3. pass = NoPass /\ held = RecordExit(disk, sess[s].task, sess[s].closure)
    BY <2>1 DEF SerialInv, HolderFits
  <2>4. EntryFits(s, disk.worker[sess[s].task])
    <3>1. pass.mine[sess[s].task] # s
      BY <2>2, <2>3, BoundsAssumption DEF NoPass, Sessions, NoSession
    <3> QED
      BY <2>2, <3>1 DEF SerialInv, Books, AtWork
  <2> HIDE DEF s
  <2>5. CASE sess[s].task = t
    BY <1>a, <2>1, <2>2, <2>3, <2>4, <2>5, RecordExitEntries DEF EntryFits
  <2>6. CASE sess[s].task # t
    BY <1>a, <2>1, <2>2, <2>3, <2>6, RecordExitEntries
  <2> QED
    BY <2>5, <2>6
<1>3. CASE ExitFinish
  <2>1. held = disk \/ ~AllResolved(held)
    BY <1>3 DEF ExitFinish, Holds, SerialInv, HolderFits
  <2> QED
    BY <1>3, <1>a, <2>1 DEF ExitFinish, Run
<1>4. CASE ConflictsSave
  BY <1>4 DEF ConflictsSave, Holds, SerialInv, HolderFits
<1>5. ASSUME NEW h \in Handlers, HandlerStep(h) PROVE disk'.worker[t] = "done"
  <2>1. req[h].op \in {"idle", "approve", "resume", "recover"}
    BY DEF SerialInv, RequestsFit, ClientFits, RecoveryFits, Handlers, Internal
  <2>2. CASE Load(h)
    BY <2>2 DEF Load
  <2>3. CASE Save(h)
    <3>1. req[h].run = disk /\ Outcome(req[h].op, req[h].task, disk, disk')
      BY <2>3 DEF Save, SerialInv, RequestsFit, ClientFits, RecoveryFits, Handlers, Internal
    <3>2. CASE disk' = Approve(disk)
      BY <1>a, <3>2 DEF Approve, Run
    <3>3. ASSUME NEW S \in Unblocked(disk.worker), disk' = Resume(disk, S)
          PROVE  disk'.worker[t] = "done"
      BY <3>3 DEF Resume, Unblocked, InterruptedTasks, Entries
    <3>4. CASE disk' = Recover(disk, Alive)
      BY <3>4 DEF Recover, RunningEntries, Entries
    <3> QED
      BY <2>1, <3>1, <3>2, <3>3, <3>4, <2>3 DEF Outcome, Save, SerialInv, RequestsFit,
         ClientFits, RecoveryFits, Handlers, Internal
  <2> QED
    BY <1>5, <2>1, <2>2, <2>3 DEF HandlerStep, MergeProgress
<1>6. CASE Crash \/ Exit \/ ShutdownBegins \/ \E e \in Entries : ShutdownKills(e)
  BY <1>6 DEF Crash, Exit, Reboot, ShutdownBegins, ShutdownKills
<1>7. CASE UNCHANGED disk
  BY <1>7
<1> QED
  BY <1>1, <1>2, <1>3, <1>4, <1>5, <1>6, <1>7 DEF Next, vars, PassStep, PassBegin, PassPick,
     PassSpawn, PassSpawnFails, PassSpawnTimesOut, JobStep, ExitLoad, ConflictsLoad, SessionStep,
     Stall, ExitClean, ExitUnclean, Validated, OrphanExits, ConflictScan, Arrive, PmExits

\* No save of a stale snapshot, no restart and no resume loses a success, and the
\* shutdown hook loses none that was settled when it began.
THEOREM SpecSuccessIsKept == Serial /\ Spec => SuccessIsKept
<1>1. ASSUME BaseInv, WorkInv, [Next]_vars, NEW t \in Tasks, disk.worker[t] = "done",
             hook.stopping => t \in hook.settled
      PROVE  disk'.worker[t] \in {"done", "validation_failed"}
  <2>1. CASE SerialInv
    BY <1>1, <2>1, SuccessStays
  <2>2. CASE StopInv /\ Exit
    BY <1>1, <2>2 DEF Exit, Reboot
  <2>3. CASE StopInv /\ ~Exit
    <3>1. SettledIsKept /\ t \in hook.settled
      BY <1>1, <2>3, StopStep DEF StopInv
    <3> QED
      BY <1>1, <3>1 DEF SettledIsKept, Agree
  <2> QED
    BY <1>1, <2>1, <2>2, <2>3 DEF WorkInv
<1>2. BaseInv /\ WorkInv /\ [Next]_vars =>
        [\A t \in Tasks : disk.worker[t] = "done" /\ (hook.stopping => t \in hook.settled) =>
           disk'.worker[t] \in {"done", "validation_failed"}]_vars
  BY <1>1
<1> QED
  BY <1>2, SpecBase, SpecSerial, PTL DEF Spec, SuccessIsKept
=============================================================================
