-------------------------- MODULE SchedulerProofs --------------------------
(***************************************************************************)
(* What the scheduler keeps for every set of tasks, every cron schedule    *)
(* and every bound, in whatever order ticks, requests, ends of runs,       *)
(* settings changes and restarts come: exclusive tasks do not overlap, the *)
(* latest run can be cancelled, rows belong to their runs, and a boot      *)
(* makes up for what was missed.                                           *)
(***************************************************************************)
EXTENDS Scheduler, SequenceTheorems, WellFoundedInduction, TLAPS

-----------------------------------------------------------------------------
(***************************************************************************)
(* The inductive invariant.                                                *)
(***************************************************************************)

\* The row of a run that goes on is open, and as young as the server.
LiveIsOpen ==
  \A r \in live : rows[r].status = "started" /\ rows[r].started >= boot.now

\* A server that is down runs nothing and calls nothing back.
DownIsQuiet == ~Up => live = {} /\ due = {} /\ registry = [t \in Tasks |-> "off"]

\* A cancel handle is of a run of its task that goes on.
ActiveIsLive ==
  \A t \in Tasks : active[t] # NoRun => active[t] \in live /\ rows[active[t]].task = t

NoSuccess(t) == \A r \in RowsOf(t) : rows[r].status # "success"

\* There is nothing to make up for t.
Covered(t) ==
  \/ t \in NoCatchup
  \/ NoSuccess(t)
  \/ \E r \in RowsOf(t) : \/ rows[r].started >= boot.now
                          \/ rows[r].status = "success" /\ rows[r].started >= PrevFire(t)

\* Catch-up has dealt with the tasks before the place it is at.
CatchupSoFar ==
  /\ boot.now <= now
  /\ \A i \in 1..Len(Order) : i < boot.at /\ Order[i] \in boot.tasks => Covered(Order[i])
  /\ init = "done" => boot.at > Len(Order)

SchedInv ==
  /\ TypeOK
  /\ LiveIsOpen /\ ActiveIsLive /\ DownIsQuiet
  /\ LatestCanBeCancelled /\ CatchupSoFar

-----------------------------------------------------------------------------
(***************************************************************************)
(* What the actions do to the rows.                                        *)
(***************************************************************************)

\* A sequence in which one element is replaced by another of the kind.
LEMMA ReplaceInSeq ==
  ASSUME NEW S, NEW s \in Seq(S), NEW i \in 1..Len(s), NEW e \in S
  PROVE  /\ [s EXCEPT ![i] = e] \in Seq(S)
         /\ Len([s EXCEPT ![i] = e]) = Len(s)
         /\ [s EXCEPT ![i] = e][i] = e
         /\ \A j \in 1..Len(s) : j # i => [s EXCEPT ![i] = e][j] = s[j]
  OBVIOUS

\* The start of a run adds a row, of the task and of this time, and takes the
\* cancel handle of the task, unless it is a skip.
LEMMA RecordRunAdds ==
  ASSUME TypeOK, NEW t \in Tasks, RecordRun(t)
  PROVE  /\ Len(rows) \in Nat /\ Len(rows) < MaxRows
         /\ rows' \in Seq(Row) /\ Len(rows') = Len(rows) + 1
         /\ \A r \in Runs : rows'[r] = rows[r]
         /\ rows'[Len(rows) + 1].task = t /\ rows'[Len(rows) + 1].started = now
         /\ \/ /\ rows'[Len(rows) + 1].status = "overlap-skipped"
               /\ live' = live /\ active' = active
            \/ /\ rows'[Len(rows) + 1].status = "started"
               /\ live' = live \cup {Len(rows) + 1}
               /\ active' = [active EXCEPT ![t] = Len(rows) + 1]
               /\ registry[t] = "exclusive" => ~HasActiveRun(t)
<1> DEFINE skipped == registry[t] = "exclusive" /\ HasActiveRun(t)
           row == [task |-> t, started |-> now,
                   status |-> IF skipped THEN "overlap-skipped" ELSE "started"]
<1>1. rows \in Seq(Row) /\ row \in Row
  BY DEF TypeOK, Row
<1>2. rows' = Append(rows, row) /\ Len(rows) < MaxRows
  BY DEF RecordRun
<1>3. /\ rows' \in Seq(Row) /\ Len(rows') = Len(rows) + 1
      /\ rows'[Len(rows) + 1] = row
      /\ \A r \in 1..Len(rows) : rows'[r] = rows[r]
  <2> HIDE DEF row
  <2> QED
    BY <1>1, <1>2
<1>4. Len(rows) \in Nat
  BY <1>1
<1>5. CASE skipped
  BY <1>2, <1>3, <1>4, <1>5 DEF RecordRun, Runs
<1>6. CASE ~skipped
  BY <1>2, <1>3, <1>4, <1>6 DEF RecordRun, Runs
<1> QED
  BY <1>5, <1>6

\* The end of a run closes its row and no other.
LEMMA FinishCloses ==
  ASSUME TypeOK, NEW r \in Runs, NEW how \in {"success", "error"}, Finish(r, how)
  PROVE  /\ rows' \in Seq(Row) /\ Len(rows') = Len(rows)
         /\ \A q \in Runs : q # r => rows'[q] = rows[q]
         /\ rows'[r].task = rows[r].task /\ rows'[r].started = rows[r].started
         /\ rows'[r].status \in {"success", "error"}
         /\ rows[r].task \in Tasks
<1> DEFINE status == IF r \in aborted THEN "error" ELSE how
           row == [rows[r] EXCEPT !.status = status]
<1>1. rows \in Seq(Row) /\ r \in 1..Len(rows) /\ rows[r] \in Row
  BY DEF TypeOK, Runs
<1>2. status \in {"success", "error"}
  OBVIOUS
<1>3. /\ row \in Row /\ row.task = rows[r].task /\ row.started = rows[r].started
      /\ row.status = status /\ rows[r].task \in Tasks
  <2> HIDE DEF status
  <2> QED
    BY <1>1, <1>2 DEF Row
<1>4. rows' = [rows EXCEPT ![r] = row]
  BY <1>1 DEF Finish
<1> HIDE DEF row, status
<1>5. /\ rows' \in Seq(Row) /\ Len(rows') = Len(rows) /\ rows'[r] = row
      /\ \A q \in 1..Len(rows) : q # r => rows'[q] = rows[q]
  BY <1>1, <1>3, <1>4, ReplaceInSeq
<1> QED
  BY <1>2, <1>3, <1>5 DEF Runs

\* The sweep closes rows and changes nothing else of them.
LEMMA SweepCloses ==
  ASSUME TypeOK
  PROVE  /\ Swept \in Seq(Row) /\ Len(Swept) = Len(rows)
         /\ \A r \in Runs :
              /\ Swept[r].task = rows[r].task /\ Swept[r].started = rows[r].started
              /\ Swept[r] = rows[r] \/ (rows[r].status = "started" /\ Swept[r].status = "error")
<1>1. rows \in Seq(Row) /\ Len(rows) \in Nat
  BY DEF TypeOK
<1>2. ASSUME NEW r \in Runs
      PROVE  /\ Swept[r] \in Row
             /\ Swept[r].task = rows[r].task /\ Swept[r].started = rows[r].started
             /\ Swept[r] = rows[r] \/ (rows[r].status = "started" /\ Swept[r].status = "error")
  <2>1. rows[r] \in Row
    BY <1>1, <1>2 DEF Runs
  <2>2. \/ Swept[r] = rows[r]
        \/ rows[r].status = "started" /\ Swept[r] = [rows[r] EXCEPT !.status = "error"]
    BY <1>2 DEF Swept
  <2> QED
    BY <2>1, <2>2 DEF Row
<1>3. Swept = [r \in 1..Len(rows) |-> Swept[r]]
  BY DEF Swept, Runs
<1>4. Swept \in Seq(Row) /\ Len(Swept) = Len(rows)
  <2> HIDE DEF Swept
  <2> QED
    BY <1>1, <1>2, <1>3 DEF Runs
<1> QED
  BY <1>2, <1>4


-----------------------------------------------------------------------------
(***************************************************************************)
(* The last run and the last instant.                                      *)
(***************************************************************************)

\* A set of numbers up to a bound has a greatest one.
LEMMA Greatest ==
  ASSUME NEW n \in Nat, NEW S, S \subseteq 0..n, S # {}
  PROVE  \E m \in S : \A s \in S : s <= m
<1> DEFINE Left == {n - s : s \in S}
           Less == {p \in Nat \X Nat : p[1] < p[2]}
<1>1. Left \subseteq Nat /\ Left # {}
  <2>1. \A s \in S : n - s \in Nat
    OBVIOUS
  <2> QED
    BY <2>1
<1>2. IsWellFoundedOn(Less, Nat)
  BY NatLessThanWellFounded, Zenon DEF OpToRel
<1>3. PICK x \in Left : \A y \in Left : <<y, x>> \notin Less
  <2> HIDE DEF Less, Left
  <2> QED
    BY <1>1, <1>2, WFMin, Zenon
<1>4. PICK m \in S : x = n - m
  BY <1>3
<1>5. ASSUME NEW s \in S PROVE s <= m
  <2>1. n - s \in Left /\ n - s \in Nat /\ n - m \in Nat
    OBVIOUS
  <2>2. <<n - s, n - m>> \in Nat \X Nat
    BY <2>1
  <2>3. ~(n - s < n - m)
    <3>1. <<n - s, n - m>> \notin Less
      BY <1>3, <1>4, <2>1
    <3> QED
      BY <2>2, <3>1
  <2>4. s \in 0..n /\ m \in 0..n
    OBVIOUS
  <2> HIDE DEF Less, Left
  <2> QED
    BY ONLY n \in Nat, <2>3, <2>4
<1> QED
  BY <1>5

\* The last instant before the boot is a time.
LEMMA PrevFireType ==
  ASSUME NEW t \in Tasks, boot \in Boot
  PROVE  PrevFire(t) \in Nat
<1> DEFINE past == {i \in Instants[t] : i <= boot.now} \cup {0}
<1>1. boot.now \in Nat
  BY BoundsAssumption DEF Boot
<1>2. past \subseteq 0..boot.now /\ past # {}
  BY <1>1, TimeAssumption
<1>3. \E i \in past : \A j \in past : j <= i
  BY <1>1, <1>2, Greatest
<1>4. PrevFire(t) \in past
  <2>1. PrevFire(t) = CHOOSE i \in past : \A j \in past : j <= i
    BY DEF PrevFire
  <2> HIDE DEF past
  <2> QED
    BY <1>3, <2>1
<1> QED
  BY <1>1, <1>2, <1>4

\* A task without a last successful run has none at all.
LEMMA LastSuccessExists ==
  ASSUME TypeOK, NEW t \in Tasks
  PROVE  LastSuccessfulRun(t) = {} <=> NoSuccess(t)
<1> DEFINE ok == {r \in RowsOf(t) : rows[r].status = "success"}
<1>1. Len(rows) \in Nat
  BY DEF TypeOK
<1>2. ok \subseteq 0..Len(rows)
  BY <1>1 DEF RowsOf, Runs
<1>3. ok # {} => \E r \in ok : \A q \in ok : q <= r
  BY <1>1, <1>2, Greatest
<1>4. LastSuccessfulRun(t) = {r \in ok : \A q \in ok : q <= r}
  BY DEF LastSuccessfulRun
<1>5. NoSuccess(t) <=> ok = {}
  BY DEF NoSuccess
<1> HIDE DEF ok
<1> QED
  BY <1>3, <1>4, <1>5

\* A task that has missed nothing has nothing to make up for.
LEMMA NotMissed ==
  ASSUME TypeOK, NEW t \in boot.tasks, t \in Tasks, ~Missed(t)
  PROVE  Covered(t)
<1>1. CASE t \in NoCatchup \/ NoSuccess(t)
  BY <1>1 DEF Covered
<1>2. CASE t \notin NoCatchup /\ ~NoSuccess(t)
  <2>1. PICK r \in LastSuccessfulRun(t) : ~(rows[r].started < PrevFire(t))
    BY <1>2, LastSuccessExists DEF Missed
  <2>2. r \in RowsOf(t) /\ rows[r].status = "success" /\ r \in Runs
    BY DEF LastSuccessfulRun, RowsOf
  <2>3. rows[r].started \in Nat
    <3>1. rows[r] \in Row
      BY <2>2 DEF TypeOK, Runs
    <3>2. rows[r].started \in 0..MaxTime
      BY <3>1 DEF Row
    <3> QED
      BY <3>2, BoundsAssumption
  <2>4. PrevFire(t) \in Nat
    BY PrevFireType DEF TypeOK
  <2> QED
    BY <2>1, <2>2, <2>3, <2>4 DEF Covered
<1> QED
  BY <1>1, <1>2

-----------------------------------------------------------------------------
(***************************************************************************)
(* What stays made up for.                                                 *)
(***************************************************************************)

\* A task with nothing to make up for stays one, as long as successes are
\* kept and new ones are of runs that began after the boot.
LEMMA CoveredStays ==
  ASSUME TypeOK, NEW t \in Tasks, Covered(t), boot'.now = boot.now,
         rows' \in Seq(Row), Len(rows) <= Len(rows'),
         \A r \in Runs :
           /\ rows'[r].task = rows[r].task /\ rows'[r].started = rows[r].started
           /\ rows[r].status = "success" => rows'[r].status = "success"
           /\ rows'[r].status = "success" =>
                rows[r].status = "success" \/ rows[r].started >= boot.now,
         \A r \in Runs' \ Runs : rows'[r].status # "success"
  PROVE  Covered(t)'
<1>0. Len(rows) \in Nat /\ Len(rows') \in Nat /\ Runs \subseteq Runs'
  BY DEF TypeOK, Runs
<1>1. PrevFire(t)' = PrevFire(t)
  BY DEF PrevFire
<1>2. CASE t \in NoCatchup
  BY <1>2 DEF Covered
<1>3. CASE NoSuccess(t)
  <2>1. ASSUME NEW r \in RowsOf(t)', rows'[r].status = "success"
        PROVE  r \in RowsOf(t)' /\ rows'[r].started >= boot'.now
    <3>1. r \in Runs
      BY <2>1 DEF RowsOf
    <3>2. r \in RowsOf(t)
      BY <2>1, <3>1 DEF RowsOf
    <3> QED
      BY <1>3, <2>1, <3>1, <3>2 DEF NoSuccess
  <2> QED
    BY <2>1 DEF Covered, NoSuccess
<1>4. ASSUME NEW r \in RowsOf(t),
             \/ rows[r].started >= boot.now
             \/ rows[r].status = "success" /\ rows[r].started >= PrevFire(t)
      PROVE  Covered(t)'
  <2>1. r \in Runs /\ r \in RowsOf(t)'
    BY <1>0 DEF RowsOf
  <2>2. \/ rows'[r].started >= boot'.now
        \/ rows'[r].status = "success" /\ rows'[r].started >= PrevFire(t)'
    BY <1>1, <1>4, <2>1
  <2> QED
    BY <2>1, <2>2 DEF Covered
<1> QED
  BY <1>2, <1>3, <1>4 DEF Covered

-----------------------------------------------------------------------------
(***************************************************************************)
(* The actions.                                                            *)
(***************************************************************************)

\* What every start of a run keeps, be it by cron, by hand or by catch-up; and
\* the task that is started is made up for.
LEMMA RecordRunKeeps ==
  ASSUME SchedInv, NEW t \in Tasks, RecordRun(t), Up, Up',
         now' = now, registry' = registry, aborted' = aborted,
         boot'.now = boot.now
  PROVE  /\ rows' \in Seq(Row) /\ Len(rows') <= MaxRows
         /\ live' \subseteq Runs' /\ aborted' \subseteq live'
         /\ active' \in [Tasks -> {NoRun} \cup Runs']
         /\ LiveIsOpen' /\ ActiveIsLive' /\ LatestCanBeCancelled'
         /\ \A u \in Tasks : Covered(u) => Covered(u)'
         /\ Covered(t)'
<1> DEFINE new == Len(rows) + 1
<1>1. /\ Len(rows) \in Nat /\ Len(rows) < MaxRows
      /\ rows' \in Seq(Row) /\ Len(rows') = new
      /\ \A r \in Runs : rows'[r] = rows[r]
      /\ rows'[new].task = t /\ rows'[new].started = now
      /\ \/ rows'[new].status = "overlap-skipped" /\ live' = live /\ active' = active
         \/ /\ rows'[new].status = "started" /\ live' = live \cup {new}
            /\ active' = [active EXCEPT ![t] = new]
  BY RecordRunAdds DEF SchedInv
<1>2. /\ rows \in Seq(Row) /\ live \subseteq Runs /\ aborted \subseteq live
      /\ active \in [Tasks -> {NoRun} \cup Runs] /\ boot \in Boot /\ boot.now <= now
      /\ now \in Nat
  BY DEF SchedInv, TypeOK, CatchupSoFar
<1>3. /\ Runs' = Runs \cup {new} /\ new \notin Runs /\ new \in Nat
      /\ \A r \in Runs : r \in Nat /\ r < new
  BY <1>1 DEF Runs
<1> HIDE DEF new
<1>4. Len(rows') <= MaxRows
  BY <1>1, BoundsAssumption DEF new
<1>5. /\ live' \subseteq Runs' /\ aborted' \subseteq live'
      /\ active' \in [Tasks -> {NoRun} \cup Runs']
  BY <1>1, <1>2, <1>3
<1>6. LiveIsOpen' /\ ActiveIsLive'
  <2>1. LiveIsOpen'
    BY <1>1, <1>2, <1>3 DEF LiveIsOpen, SchedInv
  <2>2. ActiveIsLive'
    BY <1>1, <1>2, <1>3 DEF ActiveIsLive, SchedInv, NoRun
  <2> QED
    BY <2>1, <2>2
<1>7. LatestCanBeCancelled'
  <2> SUFFICES ASSUME NEW u \in Tasks, NEW r \in RowsOf(u)' \cap live',
                      rows'[r].status # "overlap-skipped",
                      \A q \in RowsOf(u)' : rows'[q].status # "overlap-skipped" => q <= r
               PROVE  active'[u] = r
    BY DEF LatestCanBeCancelled
  <2>1. CASE r = new
    BY <1>1, <1>2, <2>1 DEF RowsOf
  <2>2. CASE r # new
    <3>1. r \in Runs /\ r \in live /\ r \in RowsOf(u)
      BY <1>1, <1>3, <2>2 DEF RowsOf
    <3>2. \A q \in RowsOf(u) : q \in RowsOf(u)' /\ rows'[q] = rows[q]
      BY <1>1, <1>3 DEF RowsOf
    <3>3. active[u] = r
      BY <3>1, <3>2 DEF LatestCanBeCancelled, SchedInv
    <3>4. CASE rows'[new].status = "overlap-skipped"
      BY <1>1, <3>3, <3>4
    <3>5. CASE rows'[new].status = "started"
      <4>1. u # t
        BY <1>1, <1>3, <3>1, <3>5 DEF RowsOf
      <4> QED
        BY <1>1, <1>2, <3>3, <3>5, <4>1
    <3> QED
      BY <1>1, <3>4, <3>5
  <2> QED
    BY <2>1, <2>2
<1>8. ASSUME NEW u \in Tasks, Covered(u) PROVE Covered(u)'
  <2>1. Len(rows) <= Len(rows')
    BY <1>1 DEF new
  <2>2. \A r \in Runs' \ Runs : rows'[r].status # "success"
    BY <1>1, <1>3
  <2> QED
    BY <1>1, <1>8, <2>1, <2>2, CoveredStays DEF SchedInv
<1>9. Covered(t)'
  BY <1>1, <1>2, <1>3 DEF Covered, RowsOf
<1> QED
  BY <1>1, <1>4, <1>5, <1>6, <1>7, <1>8, <1>9

\* The end of a run.
LEMMA FinishKeeps ==
  ASSUME SchedInv, NEW r \in Runs, NEW how \in {"success", "error"}, Finish(r, how)
  PROVE  SchedInv'
<1> USE DEF SchedInv
<1>1. /\ rows' \in Seq(Row) /\ Len(rows') = Len(rows)
      /\ \A q \in Runs : q # r => rows'[q] = rows[q]
      /\ rows'[r].task = rows[r].task /\ rows'[r].started = rows[r].started
      /\ rows'[r].status \in {"success", "error"}
      /\ rows[r].task \in Tasks
  BY FinishCloses
<1>2. /\ r \in live /\ live' = live \ {r} /\ aborted' = aborted \ {r}
      /\ active' = IF active[rows[r].task] = r
                   THEN [active EXCEPT ![rows[r].task] = NoRun] ELSE active
      /\ boot' = [boot EXCEPT !.awaits = IF boot.awaits = r THEN NoRun ELSE boot.awaits]
      /\ UNCHANGED <<now, settings, registry, due, init, crashes, changes>>
  BY DEF Finish
<1>3. /\ boot' \in Boot /\ boot'.now = boot.now /\ boot'.tasks = boot.tasks
      /\ boot'.at = boot.at
  <2>1. boot \in Boot /\ NoRun \in 0..MaxRows
    BY BoundsAssumption DEF TypeOK, NoRun
  <2>2. boot.awaits \in 0..MaxRows
    BY <2>1 DEF Boot
  <2> DEFINE awaits == IF boot.awaits = r THEN NoRun ELSE boot.awaits
  <2>3. awaits \in 0..MaxRows
    BY <2>1, <2>2
  <2>4. boot' = [boot EXCEPT !.awaits = awaits]
    BY <1>2
  <2> HIDE DEF awaits
  <2> QED
    BY <2>1, <2>3, <2>4 DEF Boot
<1>4. Runs' = Runs /\ Len(rows) \in Nat
  BY <1>1 DEF Runs, TypeOK
<1>5. active' \in [Tasks -> {NoRun} \cup Runs]
  BY <1>1, <1>2 DEF TypeOK
<1>6. TypeOK'
  <2>1. live' \subseteq Runs' /\ aborted' \subseteq live' /\ Len(rows') <= MaxRows
    BY <1>1, <1>2, <1>4 DEF TypeOK
  <2> QED
    BY <1>1, <1>2, <1>3, <1>4, <1>5, <2>1 DEF TypeOK
<1>7. LiveIsOpen' /\ ActiveIsLive'
  <2>1. LiveIsOpen'
    BY <1>1, <1>2, <1>3 DEF LiveIsOpen, TypeOK
  <2>2. ActiveIsLive'
    BY <1>1, <1>2 DEF ActiveIsLive, TypeOK
  <2> QED
    BY <2>1, <2>2
<1>8. DownIsQuiet'
  BY <1>2 DEF DownIsQuiet, Up
<1>9. LatestCanBeCancelled'
  <2> SUFFICES ASSUME NEW u \in Tasks, NEW q \in RowsOf(u)' \cap live',
                      rows'[q].status # "overlap-skipped",
                      \A p \in RowsOf(u)' : rows'[p].status # "overlap-skipped" => p <= q
               PROVE  active'[u] = q
    BY DEF LatestCanBeCancelled
  <2>1. RowsOf(u)' = RowsOf(u)
    BY <1>1, <1>4 DEF RowsOf
  <2>2. \A p \in RowsOf(u) : rows[p].status # "overlap-skipped" <=> rows'[p].status # "overlap-skipped"
    <3>1. rows[r].status = "started"
      BY <1>2 DEF LiveIsOpen
    <3> QED
      BY <1>1, <3>1 DEF RowsOf
  <2>3. active[u] = q
    BY <1>2, <2>1, <2>2 DEF LatestCanBeCancelled
  <2>4. q # r
    BY <1>2
  <2> QED
    BY <1>1, <1>2, <2>3, <2>4 DEF TypeOK
<1>10. CatchupSoFar'
  <2>1. ASSUME NEW t \in Tasks, Covered(t) PROVE Covered(t)'
    <3>1. rows[r].status = "started" /\ rows[r].started >= boot.now
      BY <1>2 DEF LiveIsOpen
    <3>2. \A q \in Runs :
            /\ rows'[q].task = rows[q].task /\ rows'[q].started = rows[q].started
            /\ rows[q].status = "success" => rows'[q].status = "success"
            /\ rows'[q].status = "success" =>
                 rows[q].status = "success" \/ rows[q].started >= boot.now
      BY <1>1, <3>1
    <3> QED
      BY <1>1, <1>3, <1>4, <2>1, <3>2, CoveredStays
  <2>2. \A i \in 1..Len(Order) : Order[i] \in Tasks
    BY TasksAssumption
  <2> QED
    BY <1>2, <1>3, <2>1, <2>2 DEF CatchupSoFar
<1> QED
  BY <1>6, <1>7, <1>8, <1>9, <1>10

\* The boot, up to the first catch-up.
LEMMA StartUpKeeps ==
  ASSUME SchedInv, StartUp
  PROVE  SchedInv'
<1> USE DEF SchedInv
<1>1. rows' \in Seq(Row) /\ Len(rows') = Len(rows) /\ Len(rows) \in Nat
  BY SweepCloses DEF StartUp, TypeOK
<1>2. /\ live = {} /\ live' = {} /\ aborted' = {} /\ init' = "catchup"
      /\ registry' = settings
      /\ UNCHANGED <<now, settings, due, active, crashes, changes>>
  BY DEF StartUp, DownIsQuiet, TypeOK
<1>3. boot' \in Boot /\ boot'.now = now /\ boot'.at = 1
  <2> DEFINE tasks == {t \in Tasks : settings[t] # "off"}
  <2>1. boot' = [now |-> now, tasks |-> tasks, at |-> 1, awaits |-> 0]
    BY DEF StartUp, NoBoot, NoRun
  <2>2. now \in 0..MaxTime /\ tasks \in SUBSET Tasks /\ 1 \in Nat \ {0} /\ 0 \in 0..MaxRows
    BY BoundsAssumption DEF TypeOK
  <2> HIDE DEF tasks
  <2> QED
    BY <2>1, <2>2 DEF Boot
<1>4. Runs' = Runs
  BY <1>1 DEF Runs
<1>5. TypeOK'
  BY <1>1, <1>2, <1>3, <1>4 DEF TypeOK
<1>6. LiveIsOpen' /\ ActiveIsLive' /\ LatestCanBeCancelled' /\ DownIsQuiet'
  BY <1>2 DEF LiveIsOpen, ActiveIsLive, LatestCanBeCancelled, DownIsQuiet, Up
<1>7. CatchupSoFar'
  <2>1. now \in Nat
    BY BoundsAssumption DEF TypeOK
  <2> QED
    BY <1>2, <1>3, <2>1 DEF CatchupSoFar
<1> QED
  BY <1>5, <1>6, <1>7

\* One task of the boot's list.
LEMMA CatchupTaskKeeps ==
  ASSUME SchedInv, CatchupTask
  PROVE  SchedInv'
<1> USE DEF SchedInv
<1>1. /\ init = "catchup" /\ boot.at \in 1..Len(Order) /\ boot \in Boot /\ boot.at \in Nat
      /\ UNCHANGED <<now, settings, registry, due, aborted, crashes, changes>>
  BY DEF CatchupTask, TypeOK, Boot
<1>2. PICK t \in Tasks : t = Order[boot.at]
  BY <1>1, TasksAssumption
<1>3. Up /\ \A i \in 1..Len(Order) : Order[i] \in Tasks
  BY <1>1, TasksAssumption DEF Up
<1>4. CASE ~Missed(t) /\ boot' = [boot EXCEPT !.at = boot.at + 1] /\ UNCHANGED <<rows, live, active, init>>
  <2>1. /\ boot' \in Boot /\ boot'.now = boot.now /\ boot'.tasks = boot.tasks
        /\ boot'.at = boot.at + 1
    BY <1>1, <1>4 DEF Boot
  <2>2. Runs' = Runs
    BY <1>4 DEF Runs
  <2>3. TypeOK'
    BY <1>1, <1>4, <2>1, <2>2 DEF TypeOK
  <2>4. \A u \in Tasks : RowsOf(u)' = RowsOf(u) /\ PrevFire(u)' = PrevFire(u)
    BY <1>4, <2>1, <2>2 DEF RowsOf, PrevFire
  <2>5. LiveIsOpen' /\ ActiveIsLive' /\ DownIsQuiet' /\ LatestCanBeCancelled'
    BY <1>1, <1>4, <2>1, <2>4 DEF LiveIsOpen, ActiveIsLive, DownIsQuiet, LatestCanBeCancelled, Up
  <2>6. \A u \in Tasks : Covered(u) => Covered(u)'
    BY <1>4, <2>1, <2>4 DEF Covered, NoSuccess
  <2>7. t \in boot.tasks => Covered(t)
    BY <1>2, <1>4, NotMissed
  <2>8. CatchupSoFar'
    <3>1. ASSUME NEW i \in 1..Len(Order), i < boot.at + 1, Order[i] \in boot.tasks
          PROVE  Covered(Order[i])
      <4>1. CASE i = boot.at
        BY <1>2, <2>7, <3>1, <4>1
      <4>2. CASE i < boot.at
        BY <3>1, <4>2 DEF CatchupSoFar
      <4> QED
        BY <1>1, <3>1, <4>1, <4>2
    <3> QED
      BY <1>1, <1>3, <1>4, <2>1, <2>6, <3>1 DEF CatchupSoFar
  <2> QED
    BY <2>3, <2>5, <2>8
<1>5. CASE init' = "failed" /\ UNCHANGED <<rows, live, active, boot>>
  <2>1. Runs' = Runs
    BY <1>5 DEF Runs
  <2>2. TypeOK'
    BY <1>1, <1>5, <2>1 DEF TypeOK
  <2>3. \A u \in Tasks : RowsOf(u)' = RowsOf(u) /\ PrevFire(u)' = PrevFire(u)
    BY <1>5, <2>1 DEF RowsOf, PrevFire
  <2>4. LiveIsOpen' /\ ActiveIsLive' /\ DownIsQuiet' /\ LatestCanBeCancelled'
    BY <1>1, <1>5, <2>3 DEF LiveIsOpen, ActiveIsLive, DownIsQuiet, LatestCanBeCancelled, Up
  <2>5. \A u \in Tasks : Covered(u) => Covered(u)'
    BY <1>5, <2>3 DEF Covered, NoSuccess
  <2>6. CatchupSoFar'
    BY <1>1, <1>3, <1>5, <2>5 DEF CatchupSoFar
  <2> QED
    BY <2>2, <2>4, <2>6
<1>6. CASE /\ RecordRun(t) /\ UNCHANGED init
           /\ boot' = [boot EXCEPT !.at = boot.at + 1,
                                   !.awaits = IF live' = live THEN NoRun ELSE Len(rows) + 1]
  <2>1. Len(rows) + 1 \in 0..MaxRows /\ NoRun \in 0..MaxRows
    BY <1>2, <1>6, RecordRunAdds, BoundsAssumption DEF NoRun
  <2>2. /\ boot' \in Boot /\ boot'.now = boot.now /\ boot'.tasks = boot.tasks
        /\ boot'.at = boot.at + 1
    <3> DEFINE awaits == IF live' = live THEN NoRun ELSE Len(rows) + 1
    <3>1. awaits \in 0..MaxRows
      BY <2>1
    <3>2. boot' = [now |-> boot.now, tasks |-> boot.tasks, at |-> boot.at + 1, awaits |-> awaits]
      BY <1>1, <1>6 DEF Boot
    <3> HIDE DEF awaits
    <3> QED
      BY <1>1, <3>1, <3>2 DEF Boot
  <2>3. Up'
    BY <1>1, <1>6 DEF Up
  <2>4. /\ rows' \in Seq(Row) /\ Len(rows') <= MaxRows
        /\ live' \subseteq Runs' /\ aborted' \subseteq live'
        /\ active' \in [Tasks -> {NoRun} \cup Runs']
        /\ LiveIsOpen' /\ ActiveIsLive' /\ LatestCanBeCancelled'
        /\ \A u \in Tasks : Covered(u) => Covered(u)'
        /\ Covered(t)'
    BY <1>1, <1>2, <1>3, <1>6, <2>2, <2>3, RecordRunKeeps
  <2>5. TypeOK'
    BY <1>1, <1>6, <2>2, <2>4 DEF TypeOK
  <2>6. DownIsQuiet'
    BY <2>3 DEF DownIsQuiet
  <2>7. CatchupSoFar'
    <3>1. ASSUME NEW i \in 1..Len(Order), i < boot.at + 1, Order[i] \in boot.tasks
          PROVE  Covered(Order[i])'
      <4>1. CASE i = boot.at
        BY <1>2, <2>4, <4>1
      <4>2. CASE i < boot.at
        BY <1>3, <2>4, <3>1, <4>2 DEF CatchupSoFar
      <4> QED
        BY <1>1, <3>1, <4>1, <4>2
    <3> QED
      BY <1>1, <1>6, <2>2, <3>1 DEF CatchupSoFar
  <2> QED
    BY <2>4, <2>5, <2>6, <2>7
<1> QED
  BY <1>2, <1>4, <1>5, <1>6 DEF CatchupTask

\* A run that is started by a tick or by hand.
LEMMA StartKeeps ==
  ASSUME SchedInv, NEW t \in Tasks, RecordRun(t), Up, due' \subseteq due,
         UNCHANGED <<now, settings, registry, aborted, init, boot, crashes, changes>>
  PROVE  SchedInv'
<1> USE DEF SchedInv
<1>1. Up'
  BY DEF Up
<1>2. /\ rows' \in Seq(Row) /\ Len(rows') <= MaxRows
      /\ live' \subseteq Runs' /\ aborted' \subseteq live'
      /\ active' \in [Tasks -> {NoRun} \cup Runs']
      /\ LiveIsOpen' /\ ActiveIsLive' /\ LatestCanBeCancelled'
      /\ \A u \in Tasks : Covered(u) => Covered(u)'
  BY <1>1, RecordRunKeeps
<1>3. TypeOK'
  BY <1>2 DEF TypeOK
<1>4. DownIsQuiet'
  BY <1>1 DEF DownIsQuiet
<1>5. CatchupSoFar'
  BY <1>2, TasksAssumption DEF CatchupSoFar
<1> QED
  BY <1>2, <1>3, <1>4, <1>5

\* A step that leaves rows, runs, cancel handles and the boot alone.
LEMMA RunsUntouched ==
  ASSUME SchedInv, TypeOK', now <= now', DownIsQuiet',
         UNCHANGED <<rows, live, active, boot>>,
         init' = init \/ (init' = "done" /\ boot.at > Len(Order))
  PROVE  SchedInv'
<1> USE DEF SchedInv
<1>1. Runs' = Runs
  BY DEF Runs
<1>2. \A u \in Tasks : RowsOf(u)' = RowsOf(u) /\ PrevFire(u)' = PrevFire(u)
  BY <1>1 DEF RowsOf, PrevFire
<1>3. LiveIsOpen' /\ ActiveIsLive' /\ LatestCanBeCancelled'
  BY <1>2 DEF LiveIsOpen, ActiveIsLive, LatestCanBeCancelled
<1>4. \A u \in Tasks : Covered(u) => Covered(u)'
  BY <1>2 DEF Covered, NoSuccess
<1>5. boot.now <= now'
  <2>1. boot.now \in 0..MaxTime /\ now \in 0..MaxTime /\ now' \in 0..MaxTime
    BY DEF TypeOK, Boot
  <2> QED
    BY <2>1, BoundsAssumption DEF CatchupSoFar
<1>6. CatchupSoFar'
  BY <1>4, <1>5, TasksAssumption DEF CatchupSoFar
<1> QED
  BY <1>3, <1>6

\* The invariant is inductive.
LEMMA StepKeeps ==
  ASSUME SchedInv, [Next]_vars
  PROVE  SchedInv'
<1> USE DEF SchedInv
<1>0. now \in Nat /\ now \in 0..MaxTime
  BY BoundsAssumption DEF TypeOK
<1>1. ASSUME NEW t \in Tasks, Fire(t) PROVE SchedInv'
  BY <1>1, StartKeeps DEF Fire, DownIsQuiet
<1>2. ASSUME NEW t \in Tasks, RunNow(t) PROVE SchedInv'
  BY <1>2, StartKeeps DEF RunNow
<1>3. ASSUME NEW t \in Tasks, KillRun(t) PROVE SchedInv'
  <2>1. active[t] \in live
    BY <1>3 DEF KillRun, ActiveIsLive
  <2>2. TypeOK' /\ DownIsQuiet'
    BY <1>3, <2>1 DEF KillRun, TypeOK, DownIsQuiet, Up, Runs
  <2> QED
    BY <1>0, <1>3, <2>2, RunsUntouched DEF KillRun
<1>4. ASSUME NEW r \in Runs, NEW how \in {"success", "error"}, Finish(r, how)
      PROVE  SchedInv'
  BY <1>4, FinishKeeps
<1>5. CASE Tick
  <2>1. now' \in 0..MaxTime /\ now <= now'
    BY <1>0, <1>5, BoundsAssumption DEF Tick
  <2>2. TypeOK'
    BY <1>5, <2>1 DEF Tick, TypeOK, Runs
  <2>3. DownIsQuiet'
    BY <1>5 DEF Tick, DownIsQuiet, Up
  <2> QED
    BY <1>5, <2>1, <2>2, <2>3, RunsUntouched DEF Tick
<1>6. ASSUME NEW t \in Tasks, NEW m \in Setups[t], ChangeSettings(t, m)
      PROVE  SchedInv'
  <2>1. m \in Modes
    BY SetupsAssumption
  <2>2. TypeOK'
    BY <1>6, <2>1, BoundsAssumption DEF ChangeSettings, TypeOK, Runs
  <2>3. DownIsQuiet'
    BY <1>6 DEF ChangeSettings, DownIsQuiet, Up
  <2> QED
    BY <1>0, <1>6, <2>2, <2>3, RunsUntouched DEF ChangeSettings
<1>7. CASE StartUp
  BY <1>7, StartUpKeeps
<1>8. CASE CatchupTask
  BY <1>8, CatchupTaskKeeps
<1>9. CASE CatchupEnds
  <2>1. TypeOK'
    BY <1>9 DEF CatchupEnds, TypeOK, Runs
  <2>2. DownIsQuiet'
    BY <1>9 DEF CatchupEnds, DownIsQuiet, Up
  <2> QED
    BY <1>0, <1>9, <2>1, <2>2, RunsUntouched DEF CatchupEnds
<1>10. CASE Stop
  <2>1. boot' \in Boot /\ boot'.at = 1 /\ boot'.now = 0
    BY <1>10, BoundsAssumption DEF Stop, NoBoot, NoRun, Boot
  <2>2. TypeOK'
    BY <1>10, <2>1, BoundsAssumption DEF Stop, TypeOK, Runs, Modes
  <2>3. LiveIsOpen' /\ ActiveIsLive' /\ LatestCanBeCancelled' /\ DownIsQuiet'
    BY <1>10 DEF Stop, LiveIsOpen, ActiveIsLive, LatestCanBeCancelled, DownIsQuiet
  <2>4. CatchupSoFar'
    BY <1>0, <1>10, <2>1 DEF Stop, CatchupSoFar
  <2> QED
    BY <2>2, <2>3, <2>4
<1>11. CASE UNCHANGED vars
  <2>1. TypeOK' /\ DownIsQuiet'
    BY <1>11 DEF vars, TypeOK, DownIsQuiet, Up, Runs
  <2> QED
    BY <1>0, <1>11, <2>1, RunsUntouched DEF vars
<1> QED
  BY <1>1, <1>2, <1>3, <1>4, <1>5, <1>6, <1>7, <1>8, <1>9, <1>10, <1>11 DEF Next

\* The invariant holds of every state.
THEOREM SpecInv == Spec => []SchedInv
<1>1. Init => SchedInv
  <2> SUFFICES ASSUME Init PROVE SchedInv
    OBVIOUS
  <2>1. rows = <<>> /\ Runs = {} /\ live = {} /\ boot \in Boot /\ boot.at = 1 /\ boot.now = 0
    BY BoundsAssumption DEF Init, Runs, NoBoot, NoRun, Boot
  <2>2. TypeOK
    BY <2>1, BoundsAssumption DEF Init, TypeOK, Modes
  <2> QED
    BY <2>1, <2>2 DEF Init, SchedInv, LiveIsOpen, ActiveIsLive, DownIsQuiet,
                      LatestCanBeCancelled, CatchupSoFar
<1> QED
  BY <1>1, StepKeeps, PTL DEF Spec

\* Every variable keeps its type; cancel handles and signals are of runs that
\* the server has (recordRun, killRun).
THEOREM SpecTypeOK == Spec => []TypeOK
<1>1. SchedInv => TypeOK
  BY DEF SchedInv
<1> QED
  BY <1>1, SpecInv, PTL

\* The entry of activeControllers is always that of the latest run, in whatever
\* order the runs of a task end (recordRun's finally).
THEOREM SpecLatestCanBeCancelled == Spec => []LatestCanBeCancelled
<1>1. SchedInv => LatestCanBeCancelled
  BY DEF SchedInv
<1> QED
  BY <1>1, SpecInv, PTL

\* A boot that gets through its list leaves no missed run behind
\* (applyCatchupOnBoot).
THEOREM SpecMissedRunsAreMadeUp == Spec => []MissedRunsAreMadeUp
<1>1. ASSUME SchedInv PROVE MissedRunsAreMadeUp
  <2> SUFFICES ASSUME init = "done", NEW t \in boot.tasks
               PROVE  Covered(t)
    <3> HIDE DEF Covered
    <3>1. \A t \in boot.tasks : t \in Tasks
      BY <1>1 DEF SchedInv, TypeOK, Boot
    <3>2. \A t \in Tasks : NoSuccess(t) => LastSuccessfulRun(t) = {}
      BY <1>1, LastSuccessExists DEF SchedInv
    <3> QED
      BY <3>1, <3>2 DEF Covered, MissedRunsAreMadeUp
  <2>1. boot \in Boot /\ t \in Tasks /\ boot.at \in Nat
    BY <1>1 DEF SchedInv, TypeOK, Boot
  <2>2. PICK i \in 1..Len(Order) : Order[i] = t
    BY <2>1, TasksAssumption
  <2>3. i < boot.at
    BY <1>1, <2>1, <2>2, TasksAssumption DEF SchedInv, CatchupSoFar
  <2> QED
    BY <1>1, <2>2, <2>3 DEF SchedInv, CatchupSoFar
<1> QED
  BY <1>1, SpecInv, PTL

\* A run of a noOverlap task starts only when none of its task goes on
\* (recordRun, hasActiveRun).
THEOREM SpecNoOverlap == Spec => NoOverlap
<1> DEFINE Alone == \A r \in live' \ live : registry[rows'[r].task] = "exclusive" =>
                      \A q \in live : TaskOf(q) # rows'[r].task
<1>1. ASSUME SchedInv, [Next]_vars PROVE [Alone]_vars
  <2>1. ASSUME NEW t \in Tasks, RecordRun(t) PROVE Alone
    <3>1. /\ Len(rows) \in Nat /\ rows'[Len(rows) + 1].task = t
          /\ \/ live' = live
             \/ /\ live' = live \cup {Len(rows) + 1}
                /\ registry[t] = "exclusive" => ~HasActiveRun(t)
      BY <1>1, <2>1, RecordRunAdds DEF SchedInv
    <3>2. HasActiveRun(t) \/ \A q \in live : TaskOf(q) # t
      BY <1>1 DEF SchedInv, LiveIsOpen, TypeOK, HasActiveRun, RowsOf, TaskOf
    <3> QED
      BY <3>1, <3>2
  <2>2. ASSUME live' \subseteq live PROVE Alone
    BY <2>2
  <2>3. CASE CatchupTask
    <3>1. \/ live' = live
          \/ Order[boot.at] \in Tasks /\ RecordRun(Order[boot.at])
      BY <1>1, <2>3, TasksAssumption DEF CatchupTask, SchedInv, TypeOK, Boot
    <3> HIDE DEF Alone
    <3> QED
      BY <2>1, <2>2, <3>1
  <2> HIDE DEF Alone
  <2>4. ASSUME NEW t \in Tasks, Fire(t) \/ RunNow(t) PROVE Alone
    BY <2>1, <2>4 DEF Fire, RunNow
  <2>5. ASSUME NEW r \in Runs, NEW how \in {"success", "error"}, Finish(r, how) PROVE Alone
    BY <2>2, <2>5 DEF Finish
  <2>6. ASSUME NEW t \in Tasks, KillRun(t) \/ \E m \in Setups[t] : ChangeSettings(t, m)
        PROVE  Alone
    BY <2>2, <2>6 DEF KillRun, ChangeSettings
  <2>7. CASE Tick \/ StartUp \/ CatchupEnds \/ Stop \/ UNCHANGED vars
    BY <2>2, <2>7 DEF Tick, StartUp, CatchupEnds, Stop, vars
  <2> QED
    BY <1>1, <2>3, <2>4, <2>5, <2>6, <2>7 DEF Next
<1> QED
  BY <1>1, SpecInv, PTL DEF Spec, NoOverlap

\* A row is closed by its own run, or by the sweep of a boot that finds the run
\* dead; it is closed once (recordRunFinished, recordRunError, the sweep).
THEOREM SpecRowsBelongToRuns == Spec => RowsBelongToRuns
<1> DEFINE Own == \A r \in Runs : rows'[r] # rows[r] =>
                    /\ rows[r].status = "started"
                    /\ r \notin live' /\ (Up => r \in live)
<1>1. ASSUME SchedInv, [Next]_vars PROVE [Own]_vars
  <2>1. ASSUME NEW t \in Tasks, RecordRun(t) PROVE Own
    BY <1>1, <2>1, RecordRunAdds DEF SchedInv
  <2>2. ASSUME rows' = rows PROVE Own
    BY <2>2
  <2>3. ASSUME NEW r \in Runs, NEW how \in {"success", "error"}, Finish(r, how)
        PROVE  Own
    <3>1. r \in live /\ live' = live \ {r} /\ rows[r].status = "started"
      BY <1>1, <2>3 DEF Finish, SchedInv, LiveIsOpen
    <3> QED
      BY <1>1, <2>3, <3>1, FinishCloses DEF SchedInv
  <2>4. CASE StartUp
    <3>1. ~Up /\ live' = {} /\ rows' = Swept
      BY <1>1, <2>4 DEF StartUp, SchedInv, DownIsQuiet
    <3> QED
      BY <1>1, <3>1, SweepCloses DEF SchedInv
  <2>5. CASE CatchupTask
    <3>1. \/ rows' = rows
          \/ Order[boot.at] \in Tasks /\ RecordRun(Order[boot.at])
      BY <1>1, <2>5, TasksAssumption DEF CatchupTask, SchedInv, TypeOK, Boot
    <3> HIDE DEF Own
    <3> QED
      BY <2>1, <2>2, <3>1
  <2> HIDE DEF Own
  <2>6. ASSUME NEW t \in Tasks, Fire(t) \/ RunNow(t) PROVE Own
    BY <2>1, <2>6 DEF Fire, RunNow
  <2>7. ASSUME NEW t \in Tasks, KillRun(t) \/ \E m \in Setups[t] : ChangeSettings(t, m)
        PROVE  Own
    BY <2>2, <2>7 DEF KillRun, ChangeSettings
  <2>8. CASE Tick \/ CatchupEnds \/ Stop \/ UNCHANGED vars
    BY <2>2, <2>8 DEF Tick, CatchupEnds, Stop, vars
  <2> QED
    BY <1>1, <2>3, <2>4, <2>5, <2>6, <2>7, <2>8 DEF Next
<1> QED
  BY <1>1, SpecInv, PTL DEF Spec, RowsBelongToRuns

=============================================================================
