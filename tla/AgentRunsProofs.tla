-------------------------- MODULE AgentRunsProofs --------------------------
(***************************************************************************)
(* What the runs on an artifact keep for every number of calls, taps,      *)
(* failures and restarts and every amount of money: ceilings never outgrow *)
(* the taps, a run that is recorded frees its subject, a subject without a *)
(* worktree is worked on by one session at a time of those with a start    *)
(* row, and its budget is never short of what was counted nor billed       *)
(* beyond what the test at the door allowed.                               *)
(***************************************************************************)
EXTENDS AgentRuns, DataLemmas

-----------------------------------------------------------------------------
(***************************************************************************)
(* Types.                                                                  *)
(***************************************************************************)

\* A table rewritten row by row is a table of the same length.
LEMMA RewrittenRows ==
  ASSUME NEW n \in Nat, NEW f, f \in [1..n -> Rows]
  PROVE  f \in Seq(Rows)
OBVIOUS

\* What the table gives: its indices, and its rows.
LEMMA RowsType ==
  ASSUME TypeOK
  PROVE  /\ Len(rows) \in Nat /\ DOMAIN rows = 1..Len(rows)
         /\ \A i \in DOMAIN rows : rows[i] \in Rows
BY DEF TypeOK

\* The updates of the table keep its type.
LEMMA StartRowType ==
  ASSUME TypeOK, NEW s \in Call
  PROVE  WithStartRow(s) \in Seq(Rows)
<1>1. [session |-> s, status |-> "running", open |-> TRUE, cost |-> 0,
       subject |-> TRUE, lost |-> FALSE] \in Rows
  BY DEF Rows, Statuses
<1> QED
  BY <1>1 DEF WithStartRow, TypeOK

\* Shutting the rows of a session leaves rows.
LEMMA ShutType ==
  ASSUME TypeOK, NEW s \in Call, NEW status \in Statuses, NEW cost \in Nat
  PROVE  Shut(s, status, cost) \in Seq(Rows)
<1>1. \A i \in DOMAIN rows :
        [rows[i] EXCEPT !.status = status, !.open = FALSE, !.cost = cost] \in Rows
  BY RowsType DEF Rows
<1>2. Shut(s, status, cost) \in [1..Len(rows) -> Rows]
  BY <1>1, RowsType DEF Shut
<1> QED
  BY <1>2, RowsType, RewrittenRows

\* So does closing them, where one may have to be added.
LEMMA ClosedType ==
  ASSUME TypeOK, NEW s \in Call, NEW status \in Statuses, NEW cost \in Nat
  PROVE  Closed(s, status, cost) \in Seq(Rows)
<1>1. [session |-> s, status |-> status, open |-> FALSE, cost |-> cost,
       subject |-> FALSE, lost |-> FALSE] \in Rows
  BY DEF Rows
<1>2. WithLateRow(s, status, cost) \in Seq(Rows)
  BY <1>1 DEF WithLateRow, TypeOK
<1> QED
  BY <1>2, ShutType DEF Closed

\* So does marking the rows of a call that goes unrecorded.
LEMMA AbandonedType ==
  ASSUME TypeOK, NEW s \in Call
  PROVE  Abandoned(s) \in Seq(Rows)
<1>1. \A i \in DOMAIN rows : [rows[i] EXCEPT !.lost = TRUE] \in Rows
  BY RowsType DEF Rows
<1>2. Abandoned(s) \in [1..Len(rows) -> Rows]
  BY <1>1, RowsType DEF Abandoned
<1> QED
  BY <1>2, RowsType, RewrittenRows

\* So does recording what a session has spent.
LEMMA ProgressType ==
  ASSUME TypeOK, NEW s \in Call, NEW now \in Nat
  PROVE  WithProgress(s, now) \in Seq(Rows)
<1>1. \A i \in DOMAIN rows : [rows[i] EXCEPT !.cost = now] \in Rows
  BY RowsType DEF Rows
<1>2. WithProgress(s, now) \in [1..Len(rows) -> Rows]
  BY <1>1, RowsType DEF WithProgress
<1> QED
  BY <1>2, RowsType, RewrittenRows

\* So does relabelling a run.
LEMMA StatusType ==
  ASSUME TypeOK, NEW s \in Call, NEW status \in Statuses
  PROVE  WithStatus(s, status) \in Seq(Rows)
<1>1. \A i \in DOMAIN rows : [rows[i] EXCEPT !.status = status] \in Rows
  BY RowsType DEF Rows
<1>2. WithStatus(s, status) \in [1..Len(rows) -> Rows]
  BY <1>1, RowsType DEF WithStatus
<1> QED
  BY <1>2, RowsType, RewrittenRows

\* A sweep rewrites each row: it is lost if it was open, and may be over.
LEMMA SweptRow ==
  ASSUME TypeOK, NEW a, NEW o, NEW i \in DOMAIN rows
  PROVE  /\ Swept(a, o)[i] \in Rows
         /\ Swept(a, o)[i].session = rows[i].session
         /\ Swept(a, o)[i].subject = rows[i].subject
         /\ Swept(a, o)[i].lost = (rows[i].lost \/ rows[i].open)
         /\ Swept(a, o)[i].open => rows[i].open
<1> DEFINE row == [rows[i] EXCEPT !.lost = rows[i].lost \/ rows[i].open]
           new == CASE row.open /\ row.status = "running" /\ i < o ->
                         [row EXCEPT !.status = "over", !.open = FALSE]
                    [] row.status \in Awaiting /\ i < a -> [row EXCEPT !.status = "over"]
                    [] OTHER -> row
<1>1. Swept(a, o)[i] = new
  BY DEF Swept
<1>2. rows[i] \in Rows
  BY RowsType
<1>3. /\ row \in Rows /\ row.session = rows[i].session /\ row.subject = rows[i].subject
      /\ row.open = rows[i].open /\ row.lost = (rows[i].lost \/ rows[i].open)
      /\ row.status = rows[i].status
  BY <1>2 DEF Rows
<1> HIDE DEF row
<1>4. /\ [row EXCEPT !.status = "over", !.open = FALSE] \in Rows
      /\ [row EXCEPT !.status = "over"] \in Rows
  BY <1>3 DEF Rows, Statuses
<1>5. \/ new = [row EXCEPT !.status = "over", !.open = FALSE]
      \/ new = [row EXCEPT !.status = "over"]
      \/ new = row
  <2>1. CASE row.open /\ row.status = "running" /\ i < o
    <3>1. row.status \notin Awaiting
      BY <2>1 DEF Awaiting
    <3> QED
      BY <2>1, <3>1
  <2>2. CASE row.status \in Awaiting /\ i < a
    <3>1. row.status # "running"
      BY <2>2 DEF Awaiting
    <3> QED
      BY <2>2, <3>1
  <2>3. CASE ~(row.open /\ row.status = "running" /\ i < o) /\ ~(row.status \in Awaiting /\ i < a)
    BY <2>3
  <2> QED
    BY <2>1, <2>2, <2>3
<1> HIDE DEF new
<1>6. CASE new = [row EXCEPT !.status = "over", !.open = FALSE]
  BY <1>1, <1>3, <1>4, <1>6 DEF Rows
<1>7. CASE new = [row EXCEPT !.status = "over"]
  BY <1>1, <1>3, <1>4, <1>7 DEF Rows
<1>8. CASE new = row
  BY <1>1, <1>3, <1>8
<1> QED
  BY <1>5, <1>6, <1>7, <1>8

\* A sweep leaves a table of as many rows.
LEMMA SweptType ==
  ASSUME TypeOK, NEW a, NEW o
  PROVE  Swept(a, o) \in Seq(Rows) /\ DOMAIN Swept(a, o) = DOMAIN rows
<1>1. DOMAIN Swept(a, o) = DOMAIN rows
  BY DEF Swept
<1>2. Swept(a, o) = [i \in DOMAIN rows |-> Swept(a, o)[i]]
  BY DEF Swept
<1>3. Swept(a, o) \in [1..Len(rows) -> Rows]
  BY <1>1, <1>2, SweptRow, RowsType
<1> QED
  BY <1>1, <1>3, RowsType, RewrittenRows

\* The calls.
LEMMA CallType ==
  ASSUME TypeOK, NEW c \in Call
  PROVE  /\ call[c] \in Calls /\ Session(c) \in Call /\ call[c].ceiling \in Nat
         /\ call[c].pausable \in BOOLEAN /\ call[c].warned \in BOOLEAN
BY DEF TypeOK, Session, Calls

\* The ceiling a call adopts is a number.
LEMMA AdoptedType ==
  ASSUME TypeOK, NEW c \in Call
  PROVE  Adopted(c) \in Nat
<1>1. grant[Session(c)] \in Nat \cup {-1}
  BY CallType DEF TypeOK, None
<1> QED
  BY <1>1, CallType DEF Adopted

\* What a session comes to have spent is a number.
LEMMA LaterType ==
  ASSUME NEW s, NEW now \in Later(s)
  PROVE  now \in Nat
BY MoneyAssumption DEF Later

\* A call that has not begun, or is over, is a call.
LEMMA OverType ==
  ASSUME NEW c \in Call
  PROVE  NoCall(c) \in Calls /\ Over(c) \in Calls
BY DEF Over, NoCall, Calls

\* So is one that was asked for, or whose ceiling was moved.
LEMMA CallUpdates ==
  ASSUME NEW k \in Calls, NEW s \in Call, NEW x \in Nat, NEW p \in BOOLEAN
  PROVE  /\ [k EXCEPT !.pc = "asked", !.session = s, !.ceiling = x, !.pausable = p] \in Calls
         /\ [k EXCEPT !.ceiling = x, !.warned = p] \in Calls
BY DEF Calls

\* Asking for a call leaves calls.
LEMMA AskedType ==
  ASSUME TypeOK, NEW c \in Call, NEW s \in Call, NEW x \in Nat, NEW p \in BOOLEAN,
         Asked(c, s, x, p)
  PROVE  call' \in [Call -> Calls]
<1>1. [call[c] EXCEPT !.pc = "asked", !.session = s, !.ceiling = x, !.pausable = p] \in Calls
  BY CallType, CallUpdates
<1> QED
  BY <1>1 DEF Asked, TypeOK

\* So does the way of a call to its session.
LEMMA BecomesType ==
  ASSUME TypeOK, NEW c \in Call, NEW pc \in {"provisioning", "live"}, Becomes(c, pc)
  PROVE  call' \in [Call -> Calls]
<1>1. [call[c] EXCEPT !.pc = pc] \in Calls
  BY CallType DEF Calls
<1> QED
  BY <1>1 DEF Becomes, TypeOK

\* So does its end.
LEMMA EndsType ==
  ASSUME TypeOK, NEW c \in Call, Ends(c)
  PROVE  call' \in [Call -> Calls]
BY OverType DEF Ends, TypeOK

\* A failure is remembered, and leaves what the operator did as it was.
LEMMA ThrowsKeeps ==
  ASSUME TypeOK, NEW unseen \in SUBSET Call, Throws(unseen) \/ UNCHANGED history
  PROVE  /\ history' \in Histories
         /\ history'.continued = history.continued
         /\ history'.stopped = history.stopped
         /\ history.unseen \subseteq history'.unseen
         /\ Throws(unseen) => unseen \subseteq history'.unseen
<1>1. CASE Throws(unseen)
  <2>1. history' = [history EXCEPT !.failures = history.failures + 1,
                                   !.unseen = history.unseen \cup unseen]
    BY <1>1 DEF Throws
  <2>2. history \in Histories /\ history.failures + 1 \in Nat
        /\ history.unseen \cup unseen \in SUBSET Call
    BY DEF TypeOK, Histories
  <2> QED
    BY <2>1, <2>2 DEF Histories
<1>2. CASE UNCHANGED history /\ ~Throws(unseen)
  BY <1>2 DEF TypeOK
<1> QED
  BY <1>1, <1>2

\* What a call that ends leaves behind.
LEMMA LeavesType ==
  ASSUME TypeOK, NEW c \in Call, NEW now \in Nat, Leaves(c, now)
  PROVE  /\ call' \in [Call -> Calls] /\ spent' \in [Call -> Nat]
         /\ grant' \in [Call -> {None} \cup Nat]
BY EndsType DEF Leaves, TypeOK

\* The result of a call, recorded or not, leaves everything of its type.
LEMMA RecordedType ==
  ASSUME TypeOK, NEW c \in Call, NEW result \in Statuses, NEW now \in Nat,
         Recorded(c, result, now)
  PROVE  /\ call' \in [Call -> Calls] /\ rows' \in Seq(Rows)
         /\ spent' \in [Call -> Nat] /\ grant' \in [Call -> {None} \cup Nat]
         /\ history' \in Histories
<1>1. rows' \in Seq(Rows)
  BY ClosedType, AbandonedType, CallType DEF Recorded
<1>2. {} \in SUBSET Call /\ (Throws({}) \/ UNCHANGED history)
  BY DEF Recorded
<1>3. history' \in Histories
  BY <1>2, ThrowsKeeps
<1> QED
  BY <1>1, <1>3, LeavesType DEF Recorded

\* So does a poll of the transcript.
LEMMA PolledType ==
  ASSUME TypeOK, NEW c \in Call, NEW now \in Nat, Polled(c, now)
  PROVE  /\ rows' \in Seq(Rows)
         /\ spent' \in [Call -> Nat] /\ grant' \in [Call -> {None} \cup Nat]
<1>1. rows' \in Seq(Rows)
  BY ProgressType, CallType DEF Polled
<1> QED
  BY <1>1 DEF Polled, TypeOK

\* A call goes on with the ceiling it has adopted.
LEMMA GoesOnType ==
  ASSUME TypeOK, NEW c \in Call, NEW w \in BOOLEAN,
         call' = [call EXCEPT ![c].ceiling = Adopted(c), ![c].warned = w]
  PROVE  call' \in [Call -> Calls]
<1>1. [call[c] EXCEPT !.ceiling = Adopted(c), !.warned = w] \in Calls
  BY CallType, AdoptedType, CallUpdates
<1>2. call' = [call EXCEPT ![c] = [call[c] EXCEPT !.ceiling = Adopted(c), !.warned = w]]
  BY DEF TypeOK
<1> QED
  BY <1>1, <1>2 DEF TypeOK

\* The two answers that resume a paused run.
LEMMA ResumeType ==
  ASSUME TypeOK, NEW s \in Call, Resume(s)
  PROVE  call' \in [Call -> Calls] /\ taps' \in [Call -> Nat]
<1>1. approval[s] + Bump \in Nat
  BY MoneyAssumption DEF Resume, TypeOK
<1>2. call' \in [Call -> Calls]
  BY <1>1, AskedType DEF Resume
<1>3. taps' = [taps EXCEPT ![s] = taps[s] + 1] /\ taps \in [Call -> Nat]
  BY DEF Resume, TypeOK
<1> QED
  BY <1>2, <1>3

\* Whatever the calls, the loops and the operator do, types are kept.
LEMMA TypeStep == TypeOK /\ [Next]_vars => TypeOK'
<1> SUFFICES ASSUME TypeOK, [Next]_vars PROVE TypeOK'
  OBVIOUS
<1>1. ASSUME NEW c \in Call, Dispatch(c) PROVE TypeOK'
  <2>1. call' \in [Call -> Calls]
    <3>1. Base \in Nat /\ (c \notin Chat) \in BOOLEAN
      BY MoneyAssumption
    <3> QED
      BY <1>1, <3>1, AskedType DEF Dispatch
  <2> QED
    BY <1>1, <2>1 DEF Dispatch, TypeOK
<1>2. ASSUME NEW s \in Call, TapBump(s) PROVE TypeOK'
  BY <1>2, ResumeType DEF TapBump, Resume, TypeOK
<1>3. ASSUME NEW s \in Call, WebBump(s) PROVE TypeOK'
  BY <1>3, ResumeType DEF WebBump, Resume, TypeOK
<1>4. ASSUME NEW s \in Call, Stop(s) PROVE TypeOK'
  <2>1. rows' \in Seq(Rows)
    BY <1>4, StatusType DEF Stop, Statuses
  <2>2. history' \in Histories
    BY <1>4 DEF Stop, TypeOK, Histories
  <2> QED
    BY <1>4, <2>1, <2>2 DEF Stop, TypeOK
<1>5. ASSUME NEW s \in Call, BumpContinue(s) PROVE TypeOK'
  <2>1. Continued \in Nat
    BY MoneyAssumption
  <2>2. call' \in [Call -> Calls]
    BY <1>5, <2>1, AskedType DEF BumpContinue
  <2>3. history' \in Histories
    BY <1>5 DEF BumpContinue, TypeOK, Histories
  <2> QED
    BY <1>5, <2>2, <2>3 DEF BumpContinue, TypeOK
<1>6. ASSUME NEW s \in Call, TapVelocity(s) PROVE TypeOK'
  <2>1. (IF grant[s] = None THEN warning[s] ELSE grant[s]) + Bump \in Nat
    BY <1>6, MoneyAssumption DEF TapVelocity, TypeOK
  <2> QED
    BY <1>6, <2>1 DEF TapVelocity, TypeOK
<1>7. ASSUME NEW c \in Call, Refuse(c) \/ ProvisionFails(c) PROVE TypeOK'
  BY <1>7, EndsType DEF Refuse, ProvisionFails, TypeOK
<1>8. ASSUME NEW c \in Call, Provision(c) PROVE TypeOK'
  BY <1>8, BecomesType DEF Provision, TypeOK
<1>9. ASSUME NEW c \in Call, Start(c) PROVE TypeOK'
  <2>1. call' \in [Call -> Calls]
    BY <1>9, BecomesType DEF Start
  <2>2. rows' \in Seq(Rows)
    BY <1>9, StartRowType, CallType DEF Start, TypeOK
  <2>3. {Session(c)} \in SUBSET Call /\ (Throws({Session(c)}) \/ UNCHANGED history)
    BY <1>9, CallType DEF Start
  <2>4. history' \in Histories
    BY <2>3, ThrowsKeeps
  <2> QED
    BY <1>9, <2>1, <2>2, <2>4 DEF Start, TypeOK
<1>10. ASSUME NEW c \in Call, SpawnFails(c) PROVE TypeOK'
  <2>1. rows' \in Seq(Rows)
    <3>1. "error" \in Statuses /\ 0 \in Nat /\ Session(c) \in Call
      BY CallType DEF Statuses
    <3>2. Shut(Session(c), "error", 0) \in Seq(Rows) /\ rows \in Seq(Rows)
      BY <3>1, ShutType DEF TypeOK
    <3> QED
      BY <1>10, <3>2 DEF SpawnFails
  <2>2. history' \in Histories
    BY <1>10, ThrowsKeeps DEF SpawnFails
  <2> QED
    BY <1>10, <2>1, <2>2, EndsType DEF SpawnFails, TypeOK
<1>11. ASSUME NEW c \in Call, GoOn(c) PROVE TypeOK'
  <2>1. call' \in [Call -> Calls]
    BY <1>11, GoesOnType, CallType DEF GoOn
  <2> QED
    BY <1>11, <2>1, PolledType, LaterType DEF GoOn, TypeOK
<1>12. ASSUME NEW c \in Call, Warn(c) PROVE TypeOK'
  <2>1. call' \in [Call -> Calls]
    BY <1>12, GoesOnType DEF Warn
  <2>2. warning' \in [Call -> {None} \cup Nat]
    <3>1. \/ warning' = [warning EXCEPT ![Session(c)] = Adopted(c)]
          \/ warning' = warning
      BY <1>12 DEF Warn
    <3> QED
      BY <3>1, AdoptedType DEF TypeOK
  <2> QED
    BY <1>12, <2>1, <2>2, PolledType, LaterType DEF Warn, TypeOK
<1>13. ASSUME NEW c \in Call, Finish(c) PROVE TypeOK'
  <2>1. PICK now \in Later(Session(c)), result \in {"over", "error", "awaiting-operator-input"} :
          Recorded(c, result, now)
    BY <1>13 DEF Finish
  <2>2. now \in Nat /\ result \in Statuses
    BY LaterType DEF Statuses, Awaiting
  <2> QED
    BY <1>13, <2>1, <2>2, RecordedType DEF Finish, TypeOK
<1>14. ASSUME NEW c \in Call, HitCeiling(c) PROVE TypeOK'
  <2>1. PICK now \in Later(Session(c)), result \in {"over", "awaiting-budget-approval"} :
          Recorded(c, result, now)
    BY <1>14 DEF HitCeiling
  <2>2. now \in Nat /\ result \in Statuses
    BY LaterType DEF Statuses, Awaiting
  <2>3. approval' \in [Call -> {None} \cup Nat]
    BY <1>14, AdoptedType DEF HitCeiling, TypeOK
  <2> QED
    BY <1>14, <2>1, <2>2, <2>3, RecordedType DEF HitCeiling, TypeOK
<1>17. ASSUME NEW c \in Call, Breaks(c) PROVE TypeOK'
  <2>1. history' \in Histories
    BY <1>17, ThrowsKeeps DEF Breaks
  <2>2. /\ call' \in [Call -> Calls] /\ spent' \in [Call -> Nat]
        /\ grant' \in [Call -> {None} \cup Nat]
    BY <1>17, EndsType, LeavesType, LaterType DEF Breaks, TypeOK
  <2>3. rows' \in Seq(Rows)
    BY <1>17, AbandonedType, CallType DEF Breaks, TypeOK
  <2> QED
    BY <1>17, <2>1, <2>2, <2>3 DEF Breaks, TypeOK
<1>15. ASSUME Restart PROVE TypeOK'
  <2>1. rows' \in Seq(Rows)
    BY <1>15, SweptType DEF Restart
  <2>2. call' \in [Call -> Calls]
    BY <1>15, OverType DEF Restart
  <2> QED
    BY <1>15, <2>1, <2>2 DEF Restart, TypeOK
<1>16. CASE UNCHANGED vars
  BY <1>16 DEF vars, TypeOK
<1> QED
  BY <1>1, <1>2, <1>3, <1>4, <1>5, <1>6, <1>7, <1>8, <1>9, <1>10, <1>11, <1>12, <1>13,
     <1>14, <1>15, <1>16, <1>17, CallAssumption DEF Next, Operator, Enter, Loop

\* The types hold at the start.
LEMMA TypeInit == Init => TypeOK
<1>1. Init => history \in Histories
  BY {} \in SUBSET Call, 0 \in Nat DEF Init, Histories
<1> QED
  BY <1>1, OverType DEF Init, TypeOK, None

\* Every state of every behaviour is well typed.
THEOREM SpecTypeOK == Spec => []TypeOK
BY TypeInit, TypeStep, PTL DEF Spec

-----------------------------------------------------------------------------
(***************************************************************************)
(* Ceilings.  Besides the ceilings of the calls, the requests, warnings    *)
(* and grants from which later ceilings are made are within what the       *)
(* operator has allowed; what he has allowed never falls.                  *)
(***************************************************************************)

\* Allowed as a function, to speak of its value before and after a step.
allowed == [s \in Call |-> Allowed(s)]

Earned ==
  \A s \in Call :
    approval[s] <= allowed[s] /\ warning[s] <= allowed[s] /\ grant[s] <= allowed[s]

Within ==
  \A c \in Call :
    call[c].pc \notin {"none", "done"} => call[c].ceiling <= allowed[call[c].session]

\* The invariant below is the property of the run, said of calls.
LEMMA WithinIsCeilings ==
  ASSUME TypeOK
  PROVE  CeilingWithinGrants <=> Within
<1>1. \A c \in Call : Session(c) \in Call /\ Session(c) = call[c].session
  BY CallType DEF Session
<1>2. \A s \in Call : allowed[s] = Allowed(s)
  BY DEF allowed
<1> QED
  BY <1>1, <1>2 DEF CeilingWithinGrants, Within

\* One tap more raises what is allowed by one bump.
LEMMA Product ==
  ASSUME NEW b \in Nat, NEW t \in Nat
  PROVE  b * t \in Nat /\ b * (t + 1) = b * t + b
OBVIOUS

\* What the taps of a session allow is a number, and no less than the base.
LEMMA AllowedType ==
  ASSUME TypeOK
  PROVE  allowed \in [Call -> Nat] /\ \A s \in Call : Base <= allowed[s]
<1> SUFFICES ASSUME NEW s \in Call PROVE Allowed(s) \in Nat /\ Base <= Allowed(s)
  BY DEF allowed
<1>1. taps[s] \in Nat /\ Bump \in Nat /\ Base \in Nat /\ Continued \in Nat /\ Base <= Continued
  BY MoneyAssumption DEF TypeOK
<1>2. Bump * taps[s] \in Nat
  BY <1>1, Product
<1> QED
  BY <1>1, <1>2 DEF Allowed

\* What no tap touches stays as it is.
LEMMA AllowedSame ==
  ASSUME taps' = taps, history'.continued = history.continued
  PROVE  allowed' = allowed
BY DEF allowed, Allowed

\* What is allowed only grows.
Grows == \A d \in Call : allowed'[d] \in Nat /\ allowed'[d] >= allowed[d]

\* A tap is worth Bump.
LEMMA AllowedTapped ==
  ASSUME TypeOK, NEW s \in Call, taps' = [taps EXCEPT ![s] = @ + 1], history' = history
  PROVE  allowed'[s] = allowed[s] + Bump /\ Grows
<1>1. taps[s] \in Nat /\ Bump \in Nat /\ Base \in Nat /\ Continued \in Nat
  BY MoneyAssumption DEF TypeOK
<1>2. Bump * (taps[s] + 1) = Bump * taps[s] + Bump /\ Bump * taps[s] \in Nat
  BY <1>1, Product
<1>3. taps'[s] = taps[s] + 1 /\ \A d \in Call \ {s} : taps'[d] = taps[d]
  BY DEF TypeOK
<1>4. allowed'[s] = allowed[s] + Bump
  BY <1>1, <1>2, <1>3 DEF Allowed, allowed
<1>5. \A d \in Call \ {s} : allowed'[d] = allowed[d]
  BY <1>3 DEF Allowed, allowed
<1> QED
  BY <1>1, <1>4, <1>5, AllowedType DEF Grows

\* bump-continue allows its ceiling, and takes nothing back.
LEMMA AllowedContinued ==
  ASSUME TypeOK, NEW s \in Call, taps' = taps,
         history' = [history EXCEPT !.continued = @ \cup {s}]
  PROVE  Continued <= allowed'[s] /\ Grows
<1>1. history'.continued = history.continued \cup {s}
  BY DEF TypeOK, Histories
<1>2. \A d \in Call : Bump * taps[d] \in Nat
  BY MoneyAssumption, Product DEF TypeOK
<1>3. Base \in Nat /\ Continued \in Nat /\ Base <= Continued
  BY MoneyAssumption
<1>4. allowed'[s] = Continued + Bump * taps[s]
  BY <1>1 DEF Allowed, allowed
<1>5. ASSUME NEW d \in Call
      PROVE  allowed'[d] \in Nat /\ allowed'[d] >= allowed[d]
  BY <1>1, <1>2, <1>3 DEF Allowed, allowed
<1> QED
  BY <1>2, <1>3, <1>4, <1>5 DEF Grows

\* A call asked for with an allowed ceiling; the others are as they were.
LEMMA AskedKeeps ==
  ASSUME TypeOK, Within,
         NEW c \in Call, NEW s \in Call, NEW x \in Nat, NEW p \in BOOLEAN, Asked(c, s, x, p),
         x <= allowed'[s], Grows
  PROVE  Within'
<1> SUFFICES ASSUME NEW d \in Call, call'[d].pc \notin {"none", "done"}
             PROVE  call'[d].ceiling <= allowed'[call'[d].session]
  BY DEF Within
<1>1. CASE d = c
  <2>1. call'[c] = [call[c] EXCEPT !.pc = "asked", !.session = s, !.ceiling = x, !.pausable = p]
    BY DEF Asked, TypeOK
  <2>2. call[c] \in Calls
    BY CallType
  <2>3. call'[c].ceiling = x /\ call'[c].session = s
    BY <2>1, <2>2 DEF Calls
  <2> QED
    BY <1>1, <2>3
<1>2. CASE d # c
  <2>1. call'[d] = call[d]
    BY <1>2 DEF Asked, TypeOK
  <2>2. call[d].ceiling <= allowed[call[d].session]
    BY <2>1 DEF Within
  <2>3. call[d].session \in Call /\ call[d].ceiling \in Nat
    BY CallType DEF Session
  <2>4. /\ allowed[call[d].session] \in Nat /\ allowed'[call[d].session] \in Nat
        /\ allowed'[call[d].session] >= allowed[call[d].session]
    BY <2>3, AllowedType DEF Grows
  <2> QED
    BY <2>1, <2>2, <2>3, <2>4
<1> QED
  BY <1>1, <1>2

\* A call goes on as it is, or with what it has adopted, or is over.
Goes(c) ==
  \/ call'[c].pc \in {"none", "done"}
  \/ /\ call[c].pc \notin {"none", "done"}
     /\ call'[c].session = call[c].session
     /\ call'[c].ceiling \in {call[c].ceiling, Adopted(c)}

\* Calls that only go on stay within what is allowed.
LEMMA GoesKeeps ==
  ASSUME TypeOK, Earned, Within, allowed' = allowed, \A d \in Call : Goes(d)
  PROVE  Within'
<1> SUFFICES ASSUME NEW d \in Call, call'[d].pc \notin {"none", "done"}
             PROVE  call'[d].ceiling <= allowed[call'[d].session]
  BY DEF Within
<1>1. /\ call'[d].session = call[d].session
      /\ call[d].ceiling <= allowed[call[d].session]
      /\ call'[d].ceiling \in {call[d].ceiling, Adopted(d)}
  BY DEF Goes, Within
<1>2. Adopted(d) \in {call[d].ceiling, grant[call[d].session]}
  BY DEF Adopted, Session
<1>3. grant[call[d].session] <= allowed[call[d].session]
  BY CallType DEF Earned, Session
<1> QED
  BY <1>1, <1>2, <1>3

\* A call that is not updated goes on.
LEMMA OtherGoes ==
  ASSUME NEW d \in Call, call'[d] = call[d]
  PROVE  Goes(d)
BY DEF Goes

\* What stays the same does not shrink.
LEMMA SameGrows ==
  ASSUME TypeOK, allowed' = allowed
  PROVE  Grows
BY AllowedType DEF Grows

\* A request, warning or grant that is kept, forgotten or earned.
Fits(now, before, s) == now = before \/ now = None \/ now <= allowed'[s]

\* A request, warning or grant that is kept, forgotten or earned stays earned.
LEMMA EarnedKeeps ==
  ASSUME TypeOK, Earned, Grows,
         \A s \in Call : /\ Fits(approval'[s], approval[s], s)
                         /\ Fits(warning'[s], warning[s], s)
                         /\ Fits(grant'[s], grant[s], s)
  PROVE  Earned'
<1> SUFFICES ASSUME NEW s \in Call
             PROVE  /\ approval'[s] <= allowed'[s] /\ warning'[s] <= allowed'[s]
                    /\ grant'[s] <= allowed'[s]
  BY DEF Earned
<1>1. /\ allowed[s] \in Nat /\ allowed'[s] \in Nat /\ allowed'[s] >= allowed[s]
      /\ None <= allowed'[s]
  BY AllowedType DEF Grows, None
<1>2. /\ approval[s] \in Int /\ warning[s] \in Int /\ grant[s] \in Int
      /\ approval[s] <= allowed[s] /\ warning[s] <= allowed[s] /\ grant[s] <= allowed[s]
  BY DEF Earned, TypeOK, None
<1> QED
  BY <1>1, <1>2 DEF Fits

\* A resumed run has the ceiling of the pause and the worth of the tap.
LEMMA ResumeEarned ==
  ASSUME TypeOK, Earned, Within, NEW s \in Call, Resume(s),
         \A d \in Call : approval'[d] \in {approval[d], None}
  PROVE  Earned' /\ Within'
<1>1. PICK c \in Call : Asked(c, s, approval[s] + Bump, TRUE)
  BY DEF Resume
<1>2. allowed'[s] = allowed[s] + Bump /\ Grows
  BY AllowedTapped DEF Resume
<1>3. /\ approval[s] + Bump \in Nat /\ approval[s] \in Int /\ Bump \in Nat
      /\ allowed[s] \in Nat /\ approval[s] <= allowed[s]
  <2>1. approval[s] # None
    BY DEF Resume
  <2>2. approval[s] \in Nat /\ allowed[s] \in Nat /\ Bump \in Nat
    BY <2>1, AllowedType, MoneyAssumption DEF TypeOK
  <2> QED
    BY <2>2 DEF Earned
<1>4. approval[s] + Bump <= allowed'[s]
  BY <1>2, <1>3
<1>5. Within'
  BY <1>1, <1>2, <1>3, <1>4, AskedKeeps
<1>6. \A d \in Call : /\ Fits(approval'[d], approval[d], d)
                      /\ Fits(warning'[d], warning[d], d) /\ Fits(grant'[d], grant[d], d)
  <2>1. warning' = warning /\ grant' = grant
    BY DEF Resume
  <2> QED
    BY <2>1 DEF Fits
<1> QED
  BY <1>2, <1>5, <1>6, EarnedKeeps

\* A step of a call that leaves taps and answers alone.
LEMMA CallStepEarned ==
  ASSUME TypeOK, Earned, Within, NEW c \in Call, allowed' = allowed, Goes(c),
         \A d \in Call \ {c} : call'[d] = call[d],
         \A s \in Call : /\ Fits(approval'[s], approval[s], s)
                         /\ Fits(warning'[s], warning[s], s)
                         /\ Fits(grant'[s], grant[s], s)
  PROVE  Earned' /\ Within'
<1>1. \A d \in Call : Goes(d)
  BY OtherGoes
<1> QED
  BY <1>1, GoesKeeps, EarnedKeeps, SameGrows

\* What a call has adopted is within what its session is allowed.
LEMMA AdoptedEarned ==
  ASSUME TypeOK, Earned, Within, NEW c \in Call, call[c].pc \notin {"none", "done"}
  PROVE  Adopted(c) <= allowed[Session(c)]
BY CallType DEF Adopted, Earned, Within, Session

\* Every step keeps ceilings, requests, warnings and grants earned.
LEMMA EarnedStep == TypeOK /\ Earned /\ Within /\ [Next]_vars => Earned' /\ Within'
<1> SUFFICES ASSUME TypeOK, Earned, Within, [Next]_vars PROVE Earned' /\ Within'
  OBVIOUS
<1> USE DEF Fits
<1>1. ASSUME NEW c \in Call, Dispatch(c) PROVE Earned' /\ Within'
  <2>1. PICK p \in BOOLEAN : Asked(c, c, Base, p)
    BY <1>1, (c \notin Chat) \in BOOLEAN DEF Dispatch
  <2>2. allowed' = allowed
    BY <1>1, AllowedSame DEF Dispatch
  <2>3. Base <= allowed'[c] /\ Base \in Nat /\ Grows
    BY <2>2, AllowedType, SameGrows, MoneyAssumption
  <2>4. Within'
    BY <2>1, <2>3, AskedKeeps
  <2>5. Earned'
    BY <1>1, <2>3, EarnedKeeps DEF Dispatch
  <2> QED
    BY <2>4, <2>5
<1>2. ASSUME NEW s \in Call, TapBump(s) \/ WebBump(s) PROVE Earned' /\ Within'
  <2>1. \A d \in Call : approval'[d] \in {approval[d], None}
    BY <1>2 DEF TapBump, WebBump, TypeOK
  <2>2. Resume(s)
    BY <1>2 DEF TapBump, WebBump
  <2> QED
    BY <2>1, <2>2, ResumeEarned
<1>3. ASSUME NEW s \in Call, Stop(s) PROVE Earned' /\ Within'
  <2>1. allowed' = allowed
    BY <1>3, AllowedSame DEF Stop, TypeOK, Histories
  <2>2. call' = call /\ \A d \in Call : approval'[d] \in {approval[d], None}
    BY <1>3 DEF Stop, TypeOK
  <2>3. Earned'
    BY <1>3, <2>1, <2>2, SameGrows, EarnedKeeps DEF Stop
  <2>4. Within'
    BY <2>1, <2>2 DEF Within
  <2> QED
    BY <2>3, <2>4
<1>4. ASSUME NEW s \in Call, BumpContinue(s) PROVE Earned' /\ Within'
  <2>1. PICK c \in Call : Asked(c, s, Continued, TRUE)
    BY <1>4 DEF BumpContinue
  <2>2. Continued <= allowed'[s] /\ Grows
    BY <1>4, AllowedContinued DEF BumpContinue
  <2>3. Within'
    <3>1. Continued \in Nat /\ TRUE \in BOOLEAN
      BY MoneyAssumption
    <3> QED
      BY <2>1, <2>2, <3>1, AskedKeeps
  <2>4. Earned'
    <3>1. approval' = approval /\ warning' = warning /\ grant' = grant
      BY <1>4 DEF BumpContinue
    <3> QED
      BY <2>2, <3>1, EarnedKeeps
  <2> QED
    BY <2>3, <2>4
<1>5. ASSUME NEW s \in Call, TapVelocity(s) PROVE Earned' /\ Within'
  <2>1. allowed'[s] = allowed[s] + Bump /\ Grows
    BY <1>5, AllowedTapped DEF TapVelocity
  <2>2. /\ warning[s] <= allowed[s] /\ grant[s] <= allowed[s] /\ allowed[s] \in Nat
        /\ warning[s] \in Int /\ grant[s] \in Int /\ Bump \in Nat
    BY AllowedType, MoneyAssumption DEF Earned, TypeOK, None
  <2>3. grant'[s] <= allowed'[s] /\ \A d \in Call \ {s} : grant'[d] = grant[d]
    BY <1>5, <2>1, <2>2 DEF TapVelocity, TypeOK
  <2>4. \A d \in Call : warning'[d] \in {warning[d], None}
    BY <1>5 DEF TapVelocity, TypeOK
  <2>5. Earned'
    BY <1>5, <2>1, <2>3, <2>4, EarnedKeeps DEF TapVelocity
  <2>6. Within'
    <3> SUFFICES ASSUME NEW d \in Call, call[d].pc \notin {"none", "done"}
                 PROVE  call[d].ceiling <= allowed'[call[d].session]
      BY <1>5 DEF TapVelocity, Within
    <3>1. /\ call[d].ceiling \in Nat /\ call[d].session \in Call
          /\ call[d].ceiling <= allowed[call[d].session]
      BY CallType DEF Within, Session
    <3> QED
      BY <2>1, <3>1, AllowedType DEF Grows
  <2> QED
    BY <2>5, <2>6
<1>6. ASSUME NEW c \in Call, Enter(c) PROVE Earned' /\ Within'
  <2>1. allowed' = allowed
    <3>1. \E u \in SUBSET Call : Throws(u) \/ UNCHANGED history
      BY <1>6, CallType
      DEF Enter, Refuse, Provision, ProvisionFails, Start, SpawnFails
    <3>2. taps' = taps
      BY <1>6 DEF Enter, Refuse, Provision, ProvisionFails, Start, SpawnFails
    <3> QED
      BY <3>1, <3>2, ThrowsKeeps, AllowedSame
  <2>2. Ends(c) \/ Becomes(c, "provisioning") \/ Becomes(c, "live")
    BY <1>6 DEF Enter, Refuse, Provision, ProvisionFails, Start, SpawnFails
  <2>3. \A d \in Call \ {c} : call'[d] = call[d]
    BY <2>2 DEF Ends, Becomes, TypeOK
  <2>4. call[c].pc \in {"asked", "provisioning"}
    BY <1>6 DEF Enter, Refuse, Provision, ProvisionFails, Start, SpawnFails, MayStart
  <2>5. Goes(c)
    <3>1. CASE Ends(c)
      BY <3>1 DEF Ends, Over, NoCall, Goes, TypeOK
    <3>2. CASE Becomes(c, "provisioning") \/ Becomes(c, "live")
      <4>1. PICK pc : call'[c] = [call[c] EXCEPT !.pc = pc]
        BY <3>2 DEF Becomes, TypeOK
      <4> QED
        BY <2>4, <4>1, CallType DEF Goes, Calls
    <3> QED
      BY <2>2, <3>1, <3>2
  <2>6. approval' = approval /\ warning' = warning /\ grant' = grant
    BY <1>6 DEF Enter, Refuse, Provision, ProvisionFails, Start, SpawnFails
  <2> QED
    BY <2>1, <2>3, <2>5, <2>6, CallStepEarned
<1>7. ASSUME NEW c \in Call, Loop(c) PROVE Earned' /\ Within'
  <2>1. allowed' = allowed /\ call[c].pc = "live"
    <3>1. Throws({}) \/ UNCHANGED history
      BY <1>7 DEF Loop, GoOn, Warn, Finish, HitCeiling, Recorded
    <3>2. taps' = taps /\ call[c].pc = "live"
      BY <1>7 DEF Loop, GoOn, Warn, Finish, HitCeiling
    <3> QED
      BY <3>1, <3>2, ThrowsKeeps, AllowedSame
  <2>2. \/ Ends(c)
        \/ \E w \in BOOLEAN :
             call' = [call EXCEPT ![c].ceiling = Adopted(c), ![c].warned = w]
    BY <1>7, CallType DEF Loop, GoOn, Warn, Finish, HitCeiling, Recorded, Leaves
  <2>3. \A d \in Call \ {c} : call'[d] = call[d]
    BY <2>2 DEF Ends, TypeOK
  <2>4. Goes(c)
    <3>1. CASE Ends(c)
      BY <3>1 DEF Ends, Over, NoCall, Goes, TypeOK
    <3>2. CASE \E w \in BOOLEAN :
                 call' = [call EXCEPT ![c].ceiling = Adopted(c), ![c].warned = w]
      <4>1. PICK w \in BOOLEAN :
              call'[c] = [call[c] EXCEPT !.ceiling = Adopted(c), !.warned = w]
        BY <3>2 DEF TypeOK
      <4>2. call'[c].session = call[c].session /\ call'[c].ceiling = Adopted(c)
        BY <4>1, CallType DEF Calls
      <4> QED
        BY <2>1, <4>2 DEF Goes
    <3> QED
      BY <2>2, <3>1, <3>2
  <2>5. grant' = [grant EXCEPT ![Session(c)] = None]
    BY <1>7 DEF Loop, GoOn, Warn, Finish, HitCeiling, Recorded, Leaves, Polled
  <2>6. \A s \in Call : Fits(grant'[s], grant[s], s)
    BY <2>5 DEF TypeOK
  <2>7. /\ approval' \in {approval, [approval EXCEPT ![Session(c)] = Adopted(c)]}
        /\ warning' \in {warning, [warning EXCEPT ![Session(c)] = Adopted(c)]}
    BY <1>7 DEF Loop, GoOn, Warn, Finish, HitCeiling
  <2>8. \A s \in Call : Fits(approval'[s], approval[s], s) /\ Fits(warning'[s], warning[s], s)
    <3>1. Adopted(c) <= allowed'[Session(c)]
      BY <2>1, AdoptedEarned
    <3> QED
      BY <2>7, <3>1 DEF TypeOK
  <2> QED
    BY <2>1, <2>3, <2>4, <2>6, <2>8, CallStepEarned
<1>10. ASSUME NEW c \in Call, Breaks(c) PROVE Earned' /\ Within'
  <2>1. allowed' = allowed
    BY <1>10, ThrowsKeeps, AllowedSame DEF Breaks
  <2>2. Ends(c)
    BY <1>10 DEF Breaks, Leaves
  <2>3. Goes(c) /\ \A d \in Call \ {c} : call'[d] = call[d]
    BY <2>2 DEF Ends, Over, NoCall, Goes, TypeOK
  <2>4. /\ approval' = approval /\ warning' = warning
        /\ grant' \in {grant, [grant EXCEPT ![Session(c)] = None]}
    BY <1>10 DEF Breaks, Leaves
  <2>5. \A s \in Call : Fits(grant'[s], grant[s], s)
    BY <2>4 DEF TypeOK
  <2> QED
    BY <2>1, <2>3, <2>4, <2>5, CallStepEarned
<1>8. ASSUME Restart PROVE Earned' /\ Within'
  <2>1. allowed' = allowed
    BY <1>8, AllowedSame DEF Restart
  <2>2. \A c \in Call : Goes(c)
    BY <1>8 DEF Restart, Goes, NoCall, Over
  <2>3. Earned'
    BY <1>8, <2>1, SameGrows, EarnedKeeps DEF Restart
  <2> QED
    BY <2>1, <2>2, <2>3, GoesKeeps
<1>9. CASE UNCHANGED vars
  BY <1>9, AllowedSame DEF vars, Earned, Within
<1> QED
  BY <1>1, <1>2, <1>3, <1>4, <1>5, <1>6, <1>7, <1>8, <1>9, <1>10, CallAssumption
  DEF Next, Operator

\* At the start nothing is granted and nothing is up.
LEMMA EarnedInit == Init => Earned /\ Within
<1> SUFFICES ASSUME Init PROVE Earned /\ Within
  OBVIOUS
<1>1. \A s \in Call : allowed[s] \in Nat
  BY TypeInit, AllowedType
<1> QED
  BY <1>1 DEF Init, Earned, Within, NoCall, None

\* However taps, pauses, warnings and restarts overlap, no call's ceiling is
\* above what the operator has allowed its session.
THEOREM SpecCeilingWithinGrants == Spec => []CeilingWithinGrants
<1>1. Spec => [](TypeOK /\ Earned /\ Within)
  BY TypeInit, TypeStep, EarnedInit, EarnedStep, PTL DEF Spec
<1>2. TypeOK /\ Earned /\ Within => CeilingWithinGrants
  BY WithinIsCeilings
<1> QED
  BY <1>1, <1>2, PTL

-----------------------------------------------------------------------------
(***************************************************************************)
(* Rows.  What a step does to the rows that are open, and to the calls     *)
(* that are up.                                                            *)
(***************************************************************************)

\* The rows keep their places, sessions and marks, and may be closed; a row that
\* is added is closed.
RowsStay ==
  /\ DOMAIN rows \subseteq DOMAIN rows'
  /\ \A i \in DOMAIN rows : /\ rows'[i].session = rows[i].session
                            /\ rows[i].lost => rows'[i].lost
                            /\ rows'[i].open => rows[i].open
  /\ \A i \in DOMAIN rows' : rows'[i].open => i \in DOMAIN rows

\* No row is closed.
OpenStays == \A i \in DOMAIN rows : rows[i].open => rows'[i].open

\* Shutting the rows of a session closes all of its rows and no other.
LEMMA ShutRows ==
  ASSUME TypeOK, NEW s, NEW status, NEW cost, rows' = Shut(s, status, cost)
  PROVE  /\ RowsStay
         /\ \A i \in DOMAIN rows : rows'[i].open <=> rows[i].open /\ rows[i].session # s
<1>1. DOMAIN rows' = DOMAIN rows
  BY DEF Shut
<1>2. ASSUME NEW i \in DOMAIN rows
      PROVE  /\ rows'[i].session = rows[i].session /\ rows'[i].lost = rows[i].lost
             /\ rows'[i].open <=> rows[i].open /\ rows[i].session # s
  BY RowsType DEF Shut, Rows
<1> QED
  BY <1>1, <1>2 DEF RowsStay

\* The row that is added for a run without an open one, behind all others.
LEMMA LateRows ==
  ASSUME TypeOK, NEW s, NEW status, NEW cost, rows' = WithLateRow(s, status, cost)
  PROVE  /\ DOMAIN rows' = 1..(Len(rows) + 1)
         /\ \A i \in DOMAIN rows : i \in DOMAIN rows' /\ rows'[i] = rows[i]
         /\ ~rows'[Len(rows) + 1].open /\ ~rows'[Len(rows) + 1].subject
<1> DEFINE row == [session |-> s, status |-> status, open |-> FALSE, cost |-> cost,
                   subject |-> FALSE, lost |-> FALSE]
<1>1. rows' = Append(rows, row) /\ ~row.open /\ ~row.subject
  BY DEF WithLateRow
<1> HIDE DEF row
<1> QED
  BY <1>1 DEF TypeOK

\* Closing the rows of a session leaves none of its rows open, and no other is
\* touched.
LEMMA ClosedRows ==
  ASSUME TypeOK, NEW s, NEW status, NEW cost, rows' = Closed(s, status, cost)
  PROVE  /\ RowsStay
         /\ \A i \in DOMAIN rows : rows'[i].open <=> rows[i].open /\ rows[i].session # s
<1>1. CASE \E i \in DOMAIN rows : rows[i].session = s /\ rows[i].open
  BY <1>1, ShutRows DEF Closed
<1>2. CASE ~\E i \in DOMAIN rows : rows[i].session = s /\ rows[i].open
  <2>1. rows' = WithLateRow(s, status, cost)
    BY <1>2 DEF Closed
  <2>2. \A i \in DOMAIN rows' : i \in DOMAIN rows \/ i = Len(rows) + 1
    BY <2>1, LateRows, RowsType
  <2>3. RowsStay
    BY <2>1, <2>2, LateRows DEF RowsStay
  <2> QED
    BY <1>2, <2>1, <2>3, LateRows
<1> QED
  BY <1>1, <1>2

\* A call that goes unrecorded leaves its rows open, and marked.
LEMMA AbandonedRows ==
  ASSUME TypeOK, NEW s, rows' = Abandoned(s)
  PROVE  /\ RowsStay /\ OpenStays
         /\ \A i \in DOMAIN rows : rows'[i].open /\ ~rows'[i].lost => rows[i].session # s
<1>1. DOMAIN rows' = DOMAIN rows
  BY DEF Abandoned
<1>2. ASSUME NEW i \in DOMAIN rows
      PROVE  /\ rows'[i].session = rows[i].session /\ rows'[i].open = rows[i].open
             /\ rows[i].lost => rows'[i].lost
             /\ rows'[i].open /\ ~rows'[i].lost => rows[i].session # s
  BY RowsType DEF Abandoned, Rows
<1> QED
  BY <1>1, <1>2 DEF RowsStay, OpenStays

\* Recording progress opens and closes no row.
LEMMA ProgressRows ==
  ASSUME TypeOK, NEW s, NEW now, rows' = WithProgress(s, now)
  PROVE  RowsStay /\ OpenStays
BY RowsType DEF RowsStay, OpenStays, WithProgress, Rows

\* Nor does relabelling a run.
LEMMA StatusRows ==
  ASSUME TypeOK, NEW s, NEW status, rows' = WithStatus(s, status)
  PROVE  RowsStay /\ OpenStays
BY RowsType DEF RowsStay, OpenStays, WithStatus, Rows

\* The start row is a new open row of the session, behind all others.
LEMMA StartRows ==
  ASSUME TypeOK, NEW s, rows' = WithStartRow(s)
  PROVE  /\ DOMAIN rows' = 1..(Len(rows) + 1)
         /\ \A i \in DOMAIN rows : i \in DOMAIN rows' /\ rows'[i] = rows[i]
         /\ rows'[Len(rows) + 1].session = s /\ rows'[Len(rows) + 1].open
<1> DEFINE row == [session |-> s, status |-> "running", open |-> TRUE, cost |-> 0,
                   subject |-> TRUE, lost |-> FALSE]
<1>1. rows' = Append(rows, row) /\ row.session = s /\ row.open
  BY DEF WithStartRow
<1> HIDE DEF row
<1> QED
  BY <1>1 DEF TypeOK

\* A call that is up stays up, with its session.
Stays(c) == Up(c) => call'[c].pc = "live" /\ call'[c].session = call[c].session

\* Only a call that was up is up after the step, and none asks for a worktree.
NoNewUp(c) ==
  /\ call'[c].pc = "live" => Up(c) /\ call'[c].session = call[c].session
  /\ call'[c].pc # "provisioning" \/ call[c].pc = "provisioning"

\* Asking, by whomever, disturbs no call that is up.
LEMMA AskedStays ==
  ASSUME TypeOK, NEW c \in Call, NEW s, NEW x, NEW p, Asked(c, s, x, p)
  PROVE  \A d \in Call : Stays(d) /\ NoNewUp(d)
<1>1. call'[c] = [call[c] EXCEPT !.pc = "asked", !.session = s, !.ceiling = x, !.pausable = p]
  BY DEF Asked, TypeOK
<1>2. call'[c].pc = "asked" /\ call[c].pc = "none"
  <2>1. call[c] \in Calls
    BY CallType
  <2>2. call'[c].pc = "asked"
    BY <1>1, <2>1 DEF Calls
  <2> QED
    BY <2>2 DEF Asked
<1>3. \A d \in Call \ {c} : call'[d] = call[d]
  BY DEF Asked, TypeOK
<1> QED
  BY <1>2, <1>3 DEF Stays, NoNewUp, Up

\* The operator disturbs no call that is up and closes no row.
LEMMA OperatorStays ==
  ASSUME TypeOK, NEW s \in Call, Operator(s)
  PROVE  RowsStay /\ OpenStays /\ worktree' = worktree
         /\ \A d \in Call : Stays(d) /\ NoNewUp(d)
<1>1. CASE TapBump(s) \/ WebBump(s)
  <2>1. rows' = rows /\ worktree' = worktree
    BY <1>1 DEF TapBump, WebBump, Resume
  <2>2. PICK c \in Call : Asked(c, s, approval[s] + Bump, TRUE)
    BY <1>1 DEF TapBump, WebBump, Resume
  <2> QED
    BY <2>1, <2>2, AskedStays DEF RowsStay, OpenStays
<1>2. CASE BumpContinue(s)
  <2>1. rows' = rows /\ worktree' = worktree
    BY <1>2 DEF BumpContinue
  <2>2. PICK c \in Call : Asked(c, s, Continued, TRUE)
    BY <1>2 DEF BumpContinue
  <2> QED
    BY <2>1, <2>2, AskedStays DEF RowsStay, OpenStays
<1>3. CASE Stop(s)
  <2>1. call' = call /\ worktree' = worktree /\ rows' = WithStatus(s, "over")
    BY <1>3 DEF Stop
  <2> QED
    BY <2>1, StatusRows DEF Stays, NoNewUp, Up
<1>4. CASE TapVelocity(s)
  BY <1>4 DEF TapVelocity, RowsStay, OpenStays, Stays, NoNewUp, Up
<1> QED
  BY <1>1, <1>2, <1>3, <1>4 DEF Operator

\* A dispatch disturbs no call that is up.
LEMMA DispatchStays ==
  ASSUME TypeOK, NEW c \in Call, Dispatch(c)
  PROVE  RowsStay /\ OpenStays /\ worktree' = worktree
         /\ \A d \in Call : Stays(d) /\ NoNewUp(d)
<1>1. rows' = rows /\ worktree' = worktree
  BY DEF Dispatch
<1>2. PICK p \in BOOLEAN : Asked(c, c, Base, p)
  BY (c \notin Chat) \in BOOLEAN DEF Dispatch
<1> QED
  BY <1>1, <1>2, AskedStays DEF RowsStay, OpenStays

\* When a call ends the others are as they were, and it is up no more.
LEMMA EndsStays ==
  ASSUME TypeOK, NEW c \in Call, Ends(c)
  PROVE  /\ call'[c].pc = "done" /\ \A d \in Call \ {c} : call'[d] = call[d]
         /\ \A d \in Call : NoNewUp(d) /\ (d # c => Stays(d))
BY DEF Ends, Over, NoCall, TypeOK, Stays, NoNewUp, Up

\* A tick of the loop leaves the call up and closes no row.
LEMMA TickStays ==
  ASSUME TypeOK, NEW c \in Call, GoOn(c) \/ Warn(c)
  PROVE  RowsStay /\ OpenStays /\ worktree' = worktree
         /\ \A d \in Call : Stays(d) /\ NoNewUp(d)
<1>1. PICK now \in Later(Session(c)) : rows' = WithProgress(Session(c), now)
  BY DEF GoOn, Warn, Polled
<1>2. PICK w \in BOOLEAN : call' = [call EXCEPT ![c].ceiling = Adopted(c), ![c].warned = w]
  <2>1. CASE GoOn(c)
    <3>1. PICK w \in {call[c].warned, call[c].warned /\ grant[Session(c)] = None} :
            call' = [call EXCEPT ![c].ceiling = Adopted(c), ![c].warned = w]
      BY <2>1 DEF GoOn
    <3>2. w \in BOOLEAN
      BY CallType
    <3> QED
      BY <3>1, <3>2
  <2>2. CASE Warn(c)
    BY <2>2 DEF Warn
  <2> QED
    BY <2>1, <2>2
<1>3. call'[c] = [call[c] EXCEPT !.ceiling = Adopted(c), !.warned = w]
  BY <1>2 DEF TypeOK
<1>4. call'[c].pc = call[c].pc /\ call'[c].session = call[c].session
  BY <1>3, CallType DEF Calls
<1>5. \A d \in Call \ {c} : call'[d] = call[d]
  BY <1>2 DEF TypeOK
<1>6. worktree' = worktree
  BY DEF GoOn, Warn
<1> QED
  BY <1>1, <1>4, <1>5, <1>6, ProgressRows DEF Stays, NoNewUp, Up

\* A call that comes to its end closes the rows of its session or leaves them
\* marked, and touches no other.
LEMMA RecordStays ==
  ASSUME TypeOK, NEW c \in Call,
         Finish(c) \/ HitCeiling(c) \/ (Breaks(c) /\ call[c].pc = "live")
  PROVE  /\ RowsStay /\ worktree' = worktree /\ Ends(c) /\ Up(c)
         /\ history.unseen \subseteq history'.unseen
         /\ \A i \in DOMAIN rows :
              /\ rows'[i].open /\ ~rows'[i].lost => rows[i].session # Session(c)
              /\ rows[i].open /\ rows[i].session # Session(c) => rows'[i].open
<1>1. \/ \E cost, result : rows' = Closed(Session(c), result, cost)
      \/ rows' = Abandoned(Session(c))
  BY DEF Finish, HitCeiling, Recorded, Breaks
<1>2. worktree' = worktree /\ Ends(c) /\ Up(c)
  BY DEF Finish, HitCeiling, Recorded, Breaks, Leaves, Up
<1>3. {} \in SUBSET Call /\ (Throws({}) \/ UNCHANGED history)
  BY DEF Finish, HitCeiling, Recorded, Breaks
<1>4. history.unseen \subseteq history'.unseen
  BY <1>3, ThrowsKeeps
<1>5. CASE \E cost, result : rows' = Closed(Session(c), result, cost)
  BY <1>2, <1>4, <1>5, ClosedRows
<1>6. CASE rows' = Abandoned(Session(c))
  BY <1>2, <1>4, <1>6, AbandonedRows DEF OpenStays
<1> QED
  BY <1>1, <1>5, <1>6

\* A call that breaks before its session is up changes no row.
LEMMA EarlyBreak ==
  ASSUME TypeOK, NEW c \in Call, Breaks(c), call[c].pc # "live"
  PROVE  /\ rows' = rows /\ worktree' = worktree /\ Ends(c) /\ ~Up(c)
         /\ history.unseen \subseteq history'.unseen
<1>1. {} \in SUBSET Call /\ Throws({})
  BY DEF Breaks
<1> QED
  BY <1>1, ThrowsKeeps DEF Breaks, Up

\* After a restart no call is up, and every row that was open is marked.
LEMMA RestartStays ==
  ASSUME TypeOK, Restart
  PROVE  /\ worktree' = worktree /\ DOMAIN rows' = DOMAIN rows
         /\ \A d \in Call : call'[d].pc \in {"none", "done"}
         /\ \A i \in DOMAIN rows : rows'[i].open => rows'[i].lost
<1>1. PICK a, o : rows' = Swept(a, o)
  BY DEF Restart
<1>2. worktree' = worktree /\ \A d \in Call : call'[d].pc \in {"none", "done"}
  BY DEF Restart, NoCall, Over
<1> QED
  BY <1>1, <1>2, SweptType, SweptRow

-----------------------------------------------------------------------------
(***************************************************************************)
(* An open row has a call that is up, or the end of its run went unrecorded.*)
(***************************************************************************)

\* No row is opened, and a call that is up no more has no open row.
LEMMA OwnedKeeps ==
  ASSUME TypeOK, OpenRowIsOwned, RowsStay,
         \A d \in Call : \/ Stays(d)
                         \/ \A i \in DOMAIN rows :
                              rows'[i].open /\ ~rows'[i].lost => rows[i].session # Session(d)
  PROVE  OpenRowIsOwned'
<1> SUFFICES ASSUME NEW i \in DOMAIN rows', rows'[i].open, ~rows'[i].lost
             PROVE  \E d \in Call : call'[d].pc = "live" /\ call'[d].session = rows'[i].session
  BY DEF OpenRowIsOwned, Up, Session
<1>1. /\ i \in DOMAIN rows /\ rows[i].open /\ rows'[i].session = rows[i].session
      /\ ~rows[i].lost
  BY DEF RowsStay
<1>2. PICK d \in Call : Up(d) /\ Session(d) = rows[i].session
  BY <1>1 DEF OpenRowIsOwned
<1>3. Stays(d)
  BY <1>1, <1>2
<1> QED
  BY <1>1, <1>2, <1>3 DEF Stays, Session

\* Every step keeps open rows owned.
LEMMA OwnedStep == TypeOK /\ OpenRowIsOwned /\ [Next]_vars => OpenRowIsOwned'
<1> SUFFICES ASSUME TypeOK, OpenRowIsOwned, [Next]_vars PROVE OpenRowIsOwned'
  OBVIOUS
<1>1. ASSUME NEW c \in Call, Dispatch(c) PROVE OpenRowIsOwned'
  BY <1>1, DispatchStays, OwnedKeeps
<1>2. ASSUME NEW s \in Call, Operator(s) PROVE OpenRowIsOwned'
  BY <1>2, OperatorStays, OwnedKeeps
<1>3. ASSUME NEW c \in Call, Refuse(c) \/ ProvisionFails(c) PROVE OpenRowIsOwned'
  <2>1. RowsStay /\ Ends(c) /\ ~Up(c)
    BY <1>3 DEF Refuse, ProvisionFails, RowsStay, Up
  <2>2. \A d \in Call : Stays(d)
    BY <2>1, EndsStays DEF Stays
  <2> QED
    BY <2>1, <2>2, OwnedKeeps
<1>4. ASSUME NEW c \in Call, Provision(c) PROVE OpenRowIsOwned'
  <2>1. RowsStay /\ call[c].pc = "asked" /\ \A d \in Call \ {c} : call'[d] = call[d]
    BY <1>4 DEF Provision, RowsStay, Becomes, TypeOK
  <2>2. \A d \in Call : Stays(d)
    BY <2>1 DEF Stays, Up
  <2> QED
    BY <2>1, <2>2, OwnedKeeps
<1>11. ASSUME NEW c \in Call, Start(c), rows' = rows PROVE OpenRowIsOwned'
  <2>1. ~Up(c) /\ call' = [call EXCEPT ![c].pc = "live"]
    BY <1>11 DEF Start, MayStart, Becomes, Up
  <2>2. RowsStay /\ \A d \in Call \ {c} : call'[d] = call[d]
    BY <1>11, <2>1 DEF RowsStay, TypeOK
  <2>3. \A d \in Call : Stays(d)
    BY <2>1, <2>2 DEF Stays, Up
  <2> QED
    BY <2>2, <2>3, OwnedKeeps
<1>5. ASSUME NEW c \in Call, Start(c), rows' = WithStartRow(Session(c)) PROVE OpenRowIsOwned'
  <2>1. /\ rows' = WithStartRow(Session(c)) /\ ~Up(c)
        /\ call' = [call EXCEPT ![c].pc = "live"]
    BY <1>5 DEF Start, MayStart, Becomes, Up
  <2>2. call'[c] = [call[c] EXCEPT !.pc = "live"] /\ \A d \in Call \ {c} : call'[d] = call[d]
    BY <2>1 DEF TypeOK
  <2>3. call'[c].pc = "live" /\ call'[c].session = Session(c)
    <3>1. call[c] \in Calls
      BY CallType
    <3> QED
      BY <2>2, <3>1 DEF Calls, Session
  <2> SUFFICES ASSUME NEW i \in DOMAIN rows', rows'[i].open, ~rows'[i].lost
               PROVE  \E d \in Call : call'[d].pc = "live" /\ call'[d].session = rows'[i].session
    BY DEF OpenRowIsOwned, Up, Session
  <2>4. CASE i \in DOMAIN rows
    <3>1. rows'[i] = rows[i]
      BY <2>1, <2>4, StartRows
    <3>2. PICK d \in Call : Up(d) /\ Session(d) = rows[i].session
      BY <2>4, <3>1 DEF OpenRowIsOwned
    <3>3. d # c
      BY <2>1, <3>2
    <3> QED
      BY <2>2, <3>1, <3>2, <3>3 DEF Up, Session
  <2>5. CASE i \notin DOMAIN rows
    <3>1. i = Len(rows) + 1
      BY <2>1, <2>5, StartRows, RowsType
    <3>2. rows'[i].session = Session(c)
      BY <2>1, <3>1, StartRows
    <3> QED
      BY <2>3, <3>2
  <2> QED
    BY <2>4, <2>5
<1>6. ASSUME NEW c \in Call, SpawnFails(c) PROVE OpenRowIsOwned'
  <2>1. rows' = Shut(Session(c), "error", 0) \/ rows' = rows
    BY <1>6 DEF SpawnFails
  <2>2. Ends(c) /\ ~Up(c)
    BY <1>6 DEF SpawnFails, MayStart, Up
  <2>3. \A d \in Call : Stays(d)
    BY <2>2, EndsStays DEF Stays
  <2>4. RowsStay
    BY <2>1, ShutRows DEF RowsStay
  <2> QED
    BY <2>3, <2>4, OwnedKeeps
<1>7. ASSUME NEW c \in Call, GoOn(c) \/ Warn(c) PROVE OpenRowIsOwned'
  BY <1>7, TickStays, OwnedKeeps
<1>12. ASSUME NEW c \in Call, Breaks(c), call[c].pc # "live" PROVE OpenRowIsOwned'
  <2>1. RowsStay /\ Ends(c) /\ ~Up(c)
    BY <1>12, EarlyBreak DEF RowsStay
  <2>2. \A d \in Call : Stays(d)
    BY <2>1, EndsStays DEF Stays
  <2> QED
    BY <2>1, <2>2, OwnedKeeps
<1>8. ASSUME NEW c \in Call,
             Finish(c) \/ HitCeiling(c) \/ (Breaks(c) /\ call[c].pc = "live")
      PROVE  OpenRowIsOwned'
  <2>1. /\ RowsStay /\ Ends(c)
        /\ \A i \in DOMAIN rows :
             rows'[i].open /\ ~rows'[i].lost => rows[i].session # Session(c)
    BY <1>8, RecordStays
  <2>2. \A d \in Call : d # c => Stays(d)
    BY <2>1, EndsStays
  <2> QED
    BY <2>1, <2>2, OwnedKeeps
<1>9. ASSUME Restart PROVE OpenRowIsOwned'
  BY <1>9, RestartStays DEF OpenRowIsOwned
<1>10. CASE UNCHANGED vars
  BY <1>10 DEF vars, OpenRowIsOwned, Up, Session
<1>13. ASSUME NEW c \in Call, Start(c) PROVE OpenRowIsOwned'
  BY <1>5, <1>11, <1>13 DEF Start
<1>14. ASSUME NEW c \in Call, Breaks(c) PROVE OpenRowIsOwned'
  BY <1>8, <1>12, <1>14
<1> QED
  BY <1>1, <1>2, <1>3, <1>4, <1>6, <1>7, <1>8, <1>9, <1>10, <1>13, <1>14, CallAssumption
  DEF Next, Enter, Loop

\* No run that is recorded leaves its subject blocked: a row stays open only while
\* a call of its session is up, or if the end of its run went unrecorded.
THEOREM SpecOpenRowIsOwned == Spec => []OpenRowIsOwned
<1>1. Init => OpenRowIsOwned
  BY DEF Init, OpenRowIsOwned
<1> QED
  BY <1>1, OwnedStep, TypeInit, TypeStep, PTL DEF Spec

-----------------------------------------------------------------------------
(***************************************************************************)
(* One run of a subject at a time, where no worktree comes in between: a   *)
(* call that is up has an open row, which the guard of D3 sees, unless no  *)
(* start row could be written for its session.                             *)
(***************************************************************************)

Seen(c) == Up(c) /\ Session(c) \notin history.unseen

Rowed ==
  \A c \in Call :
    /\ call[c].pc # "provisioning"
    /\ Seen(c) => \E i \in DOMAIN rows : rows[i].open /\ rows[i].session = Session(c)

Alone == worktree \/ (Rowed /\ \A c, d \in Call : Seen(c) /\ Seen(d) => c = d)

\* A session once without a start row is so for ever.
UnseenStays == history.unseen \subseteq history'.unseen

\* The open rows of the calls that stay up stay open.
RowsOfUpStay ==
  \A d \in Call, i \in DOMAIN rows :
    /\ call'[d].pc = "live" /\ Seen(d)
    /\ rows[i].open /\ rows[i].session = Session(d)
    => rows'[i].open

\* A step that brings no call up and closes no row of one that stays up.
LEMMA AloneKeeps ==
  ASSUME TypeOK, Alone, worktree' = worktree, UnseenStays, RowsStay, RowsOfUpStay,
         \A d \in Call : NoNewUp(d)
  PROVE  Alone'
<1>1. CASE ~worktree
  <2>1. ASSUME NEW c \in Call, call'[c].pc = "live", call'[c].session \notin history'.unseen
        PROVE  Seen(c) /\ call'[c].session = Session(c)
    BY <2>1 DEF NoNewUp, Seen, Session, UnseenStays
  <2>2. ASSUME NEW c \in Call, call'[c].pc = "live", call'[c].session \notin history'.unseen
        PROVE  \E i \in DOMAIN rows' : rows'[i].open /\ rows'[i].session = call'[c].session
    <3>1. Seen(c) /\ call'[c].session = Session(c)
      BY <2>1, <2>2
    <3>2. PICK i \in DOMAIN rows : rows[i].open /\ rows[i].session = Session(c)
      BY <1>1, <3>1 DEF Alone, Rowed
    <3>3. rows'[i].open
      BY <2>2, <3>1, <3>2 DEF RowsOfUpStay
    <3>4. i \in DOMAIN rows' /\ rows'[i].session = Session(c)
      BY <3>2 DEF RowsStay
    <3> QED
      BY <3>1, <3>3, <3>4
  <2>3. \A c \in Call : call'[c].pc # "provisioning"
    BY <1>1 DEF NoNewUp, Alone, Rowed
  <2>4. ASSUME NEW c \in Call, NEW d \in Call,
               call'[c].pc = "live", call'[c].session \notin history'.unseen,
               call'[d].pc = "live", call'[d].session \notin history'.unseen
        PROVE  c = d
    BY <1>1, <2>1, <2>4 DEF Alone
  <2> QED
    BY <2>2, <2>3, <2>4 DEF Alone, Rowed, Seen, Up, Session
<1>2. CASE worktree
  BY <1>2 DEF Alone
<1> QED
  BY <1>1, <1>2

\* A step that closes no row.
LEMMA OpenAlone ==
  ASSUME TypeOK, Alone, worktree' = worktree, UnseenStays, RowsStay, OpenStays,
         \A d \in Call : NoNewUp(d)
  PROVE  Alone'
<1>1. RowsOfUpStay
  BY DEF RowsOfUpStay, OpenStays
<1> QED
  BY <1>1, AloneKeeps

\* A step after which no call is up.
LEMMA NobodyUp ==
  ASSUME \A d \in Call : call'[d].pc \notin {"live", "provisioning"}
  PROVE  Alone'
BY DEF Alone, Rowed, Seen, Up

\* Where no row is open nobody is at work that has one.
LEMMA NobodyAtWork ==
  ASSUME TypeOK, Alone, ~worktree, ~InFlight, NEW d \in Call
  PROVE  ~Seen(d) /\ call[d].pc # "provisioning"
BY DEF Alone, Rowed, InFlight

\* A call comes up where no row is open: it is the only one seen, if it is.
LEMMA StartAlone ==
  ASSUME TypeOK, Alone, NEW c \in Call, Start(c)
  PROVE  Alone'
<1>1. CASE worktree
  BY <1>1 DEF Start, Alone
<1>2. CASE ~worktree
  <2>1. ~InFlight
    BY <1>2 DEF Start, MayStart, Admitted, Alone, Rowed
  <2>2. \A d \in Call : ~Seen(d) /\ call[d].pc # "provisioning"
    BY <1>2, <2>1, NobodyAtWork
  <2>3. call' = [call EXCEPT ![c].pc = "live"]
    BY DEF Start, Becomes
  <2>4. call'[c] = [call[c] EXCEPT !.pc = "live"] /\ \A d \in Call \ {c} : call'[d] = call[d]
    BY <2>3 DEF TypeOK
  <2>5. call'[c].pc = "live" /\ call'[c].session = Session(c)
    <3>1. call[c] \in Calls
      BY CallType
    <3> QED
      BY <2>4, <3>1 DEF Calls, Session
  <2>6. \A d \in Call : call'[d].pc # "provisioning"
    BY <2>2, <2>4, <2>5
  <2>7. {Session(c)} \in SUBSET Call /\ (Throws({Session(c)}) \/ UNCHANGED history)
    BY CallType DEF Start
  <2>8. UnseenStays /\ (Throws({Session(c)}) => Session(c) \in history'.unseen)
    BY <2>7, ThrowsKeeps DEF UnseenStays
  <2>9. ASSUME NEW d \in Call, call'[d].pc = "live", call'[d].session \notin history'.unseen
        PROVE  d = c /\ rows' = WithStartRow(Session(c))
    <3>1. d = c
      <4>1. ASSUME d # c PROVE Seen(d)
        BY <2>4, <2>8, <2>9, <4>1 DEF Seen, Up, Session, UnseenStays
      <4> QED
        BY <2>2, <4>1
    <3>2. ~Throws({Session(c)})
      BY <2>5, <2>8, <2>9, <3>1
    <3> QED
      BY <3>1, <3>2 DEF Start
  <2>10. ASSUME rows' = WithStartRow(Session(c))
         PROVE  \E i \in DOMAIN rows' : rows'[i].open /\ rows'[i].session = call'[c].session
    <3>1. Len(rows) + 1 \in DOMAIN rows'
      BY <2>10, StartRows, RowsType
    <3> QED
      BY <2>5, <2>10, <3>1, StartRows
  <2> QED
    BY <2>6, <2>9, <2>10 DEF Alone, Rowed, Seen, Up, Session
<1> QED
  BY <1>1, <1>2

\* The end of a call leaves the rows of all others open.
LEMMA EndAlone ==
  ASSUME TypeOK, Alone, NEW c \in Call,
         Finish(c) \/ HitCeiling(c) \/ (Breaks(c) /\ call[c].pc = "live")
  PROVE  Alone'
<1>1. /\ RowsStay /\ worktree' = worktree /\ Ends(c) /\ Up(c) /\ UnseenStays
      /\ \A i \in DOMAIN rows :
           rows[i].open /\ rows[i].session # Session(c) => rows'[i].open
  BY RecordStays DEF UnseenStays
<1>2. CASE worktree
  BY <1>1, <1>2 DEF Alone
<1>3. CASE ~worktree
  <2>1. \A d \in Call : NoNewUp(d)
    BY <1>1, EndsStays
  <2>2. RowsOfUpStay
    <3> SUFFICES ASSUME NEW d \in Call, call'[d].pc = "live", Seen(d)
                 PROVE  Session(d) # Session(c)
      BY <1>1 DEF RowsOfUpStay
    <3>1. d # c
      BY <1>1, EndsStays
    <3>2. ~Seen(c)
      BY <1>3, <3>1 DEF Alone
    <3> QED
      BY <1>1, <3>2 DEF Seen
  <2> QED
    BY <1>1, <2>1, <2>2, AloneKeeps
<1> QED
  BY <1>2, <1>3

\* Every step keeps a subject without a worktree to one session at work.
LEMMA AloneStep == TypeOK /\ Alone /\ [Next]_vars => Alone'
<1> SUFFICES ASSUME TypeOK, Alone, [Next]_vars PROVE Alone'
  OBVIOUS
<1>1. ASSUME NEW c \in Call, Dispatch(c) PROVE Alone'
  <2>1. UnseenStays
    BY <1>1 DEF Dispatch, UnseenStays
  <2> QED
    BY <1>1, <2>1, DispatchStays, OpenAlone
<1>2. ASSUME NEW s \in Call, Operator(s) PROVE Alone'
  <2>1. UnseenStays
    BY <1>2 DEF Operator, TapBump, WebBump, Resume, Stop, BumpContinue, TapVelocity, TypeOK,
                Histories, UnseenStays
  <2> QED
    BY <1>2, <2>1, OperatorStays, OpenAlone
<1>3. ASSUME NEW c \in Call, Refuse(c) \/ ProvisionFails(c) PROVE Alone'
  <2>1. RowsStay /\ OpenStays /\ worktree' = worktree /\ Ends(c) /\ UnseenStays
    BY <1>3 DEF Refuse, ProvisionFails, RowsStay, OpenStays, UnseenStays
  <2> QED
    BY <2>1, EndsStays, OpenAlone
<1>4. ASSUME NEW c \in Call, Provision(c) PROVE Alone'
  BY <1>4 DEF Provision, Alone
<1>5. ASSUME NEW c \in Call, Start(c) PROVE Alone'
  BY <1>5, StartAlone
<1>6. ASSUME NEW c \in Call, SpawnFails(c) PROVE Alone'
  <2>1. CASE worktree
    BY <1>6, <2>1 DEF SpawnFails, Alone
  <2>2. CASE ~worktree
    <3>1. ~InFlight
      BY <1>6, <2>2 DEF SpawnFails, MayStart, Admitted, Alone, Rowed
    <3>2. {} \in SUBSET Call /\ (Throws({}) \/ UNCHANGED history)
      BY <1>6 DEF SpawnFails
    <3>3. UnseenStays
      BY <3>2, ThrowsKeeps DEF UnseenStays
    <3>4. Ends(c) /\ worktree' = worktree
      BY <1>6 DEF SpawnFails
    <3>5. rows' = Shut(Session(c), "error", 0) \/ rows' = rows
      BY <1>6 DEF SpawnFails
    <3>6. RowsStay /\ OpenStays
      BY <3>1, <3>5, ShutRows DEF RowsStay, OpenStays, InFlight
    <3> QED
      BY <3>3, <3>4, <3>6, EndsStays, OpenAlone
  <2> QED
    BY <2>1, <2>2
<1>7. ASSUME NEW c \in Call, GoOn(c) \/ Warn(c) PROVE Alone'
  <2>1. UnseenStays
    BY <1>7 DEF GoOn, Warn, UnseenStays
  <2> QED
    BY <1>7, <2>1, TickStays, OpenAlone
<1>8. ASSUME NEW c \in Call, Finish(c) \/ HitCeiling(c) PROVE Alone'
  BY <1>8, EndAlone
<1>9. ASSUME NEW c \in Call, Breaks(c) PROVE Alone'
  <2>1. CASE call[c].pc = "live"
    BY <1>9, <2>1, EndAlone
  <2>2. CASE call[c].pc # "live"
    <3>1. RowsStay /\ OpenStays /\ worktree' = worktree /\ Ends(c) /\ UnseenStays
      BY <1>9, <2>2, EarlyBreak DEF RowsStay, OpenStays, UnseenStays
    <3> QED
      BY <3>1, EndsStays, OpenAlone
  <2> QED
    BY <2>1, <2>2
<1>10. ASSUME Restart PROVE Alone'
  <2>1. \A d \in Call : call'[d].pc \notin {"live", "provisioning"}
    BY <1>10, RestartStays
  <2> QED
    BY <2>1, NobodyUp
<1>11. CASE UNCHANGED vars
  BY <1>11 DEF vars, Alone, Rowed, Seen, Up, Session
<1> QED
  BY <1>1, <1>2, <1>3, <1>4, <1>5, <1>6, <1>7, <1>8, <1>9, <1>10, <1>11, CallAssumption
  DEF Next, Enter, Loop

\* Whatever dispatches, taps, failures and restarts interleave, a subject whose runs
\* need no worktree is never worked on by two sessions at once whose start rows
\* were written.
THEOREM SpecOneRunPerSubject == Spec => []OneRunPerSubject
<1>1. Init => Alone
  BY DEF Init, NoCall, Alone, Rowed, Seen, Up
<1>2. Alone => OneRunPerSubject
  BY DEF Alone, Seen, OneRunPerSubject
<1> QED
  BY <1>1, <1>2, AloneStep, TypeInit, TypeStep, PTL DEF Spec

-----------------------------------------------------------------------------
(***************************************************************************)
(* The sum counted against the budget of the subject.                      *)
(***************************************************************************)

Costs == [i \in DOMAIN rows |-> rows[i].cost]

\* What the library adds up is the sum over the counted rows.
LEMMA CumulativeIs == Cumulative = ColumnSum(Costs, Counted)
<1> DEFINE Iter(f) == f = [s \in SUBSET Counted |->
                             IF s = {} THEN 0
                             ELSE LET x == CHOOSE y \in s : TRUE
                                  IN rows[x].cost + f[s \ {x}]]
<1>1. Cumulative = (CHOOSE f : Iter(f))[Counted]
  BY DEF Cumulative, MapThenSumSet, MapThenFoldSet
<1>2. \A f : Iter(f) <=> Totals(f, Costs, Counted)
  <2>1. ASSUME NEW f, NEW s \in SUBSET Counted
        PROVE  SumRule(f, Costs, s) = IF s = {} THEN 0
                                      ELSE LET x == CHOOSE y \in s : TRUE
                                           IN rows[x].cost + f[s \ {x}]
    BY DEF SumRule, Costs, Counted
  <2> QED
    BY <2>1 DEF Totals
<1> HIDE DEF Iter
<1> QED
  BY <1>1, <1>2 DEF ColumnSum

\* So it is after a step.
LEMMA CumulativeNext == (Cumulative = ColumnSum(Costs, Counted))'
BY CumulativeIs, PTL

\* A counted row costs a number, and there are finitely many.
CountedOK ==
  IsFiniteSet(Counted) /\ \A i \in Counted : i \in DOMAIN rows /\ Costs[i] \in Nat

\* Where rows have their type this is so.
LEMMA CountedType == TypeOK => CountedOK
<1> SUFFICES ASSUME TypeOK PROVE CountedOK
  OBVIOUS
<1>1. Counted \subseteq 1..Len(rows) /\ IsFiniteSet(1..Len(rows))
  BY RowsType, FS_Interval DEF Counted
<1>2. \A i \in Counted : i \in DOMAIN rows /\ Costs[i] \in Nat
  BY RowsType DEF Counted, Costs, Rows
<1> QED
  BY <1>1, <1>2, FS_Subset DEF CountedOK

\* After a step it is so again.
LEMMA CountedNext == TypeOK' => CountedOK'
BY CountedType, PTL

\* What is counted stays counted, at the same cost.
Kept ==
  \A i \in Counted : i \in Counted' /\ rows'[i].cost = rows[i].cost

\* What comes to be counted was open until now.
FromOpen ==
  \A i \in Counted' : i \in Counted \/ (i \in DOMAIN rows /\ rows[i].open)

\* What is kept does not make the sum fall.
LEMMA KeptSum ==
  ASSUME TypeOK, TypeOK', Kept
  PROVE  Cumulative \in Nat /\ Cumulative' \in Nat /\ Cumulative' >= Cumulative
<1>1. Cumulative' = ColumnSum(Costs', Counted')
  BY CumulativeNext
<1>2. CountedOK /\ CountedOK'
  BY CountedType, CountedNext
<1>3. ASSUME NEW i \in Counted
      PROVE  i \in Counted' /\ Costs[i] \in Nat /\ Costs[i] <= Costs'[i]
  <2>1. /\ i \in Counted' /\ rows'[i].cost = rows[i].cost
        /\ i \in DOMAIN rows /\ Costs[i] \in Nat
    BY <1>2 DEF Kept, CountedOK
  <2>2. i \in DOMAIN rows'
    BY <1>2, <2>1 DEF CountedOK
  <2>3. Costs[i] = rows[i].cost /\ Costs'[i] = rows'[i].cost
    BY <2>1, <2>2 DEF Costs
  <2> QED
    BY <2>1, <2>3
<1> QED
  BY <1>1, <1>2, <1>3, CumulativeIs, SumMonotone, SumType DEF CountedOK

\* A sweep changes no cost of a finished row, and no verdict.
LEMMA SweptFinished ==
  ASSUME TypeOK, NEW a, NEW o, NEW i \in DOMAIN rows, ~rows[i].open
  PROVE  /\ Swept(a, o)[i].cost = rows[i].cost
         /\ Swept(a, o)[i].status = "error" <=> rows[i].status = "error"
<1> DEFINE row == [rows[i] EXCEPT !.lost = rows[i].lost \/ rows[i].open]
           new == IF row.status \in Awaiting /\ i < a
                  THEN [row EXCEPT !.status = "over"] ELSE row
<1>1. rows[i] \in Rows
  BY RowsType
<1>2. row \in Rows /\ ~row.open /\ row.cost = rows[i].cost /\ row.status = rows[i].status
  BY <1>1 DEF Rows
<1>3. Swept(a, o)[i] = CASE row.open /\ row.status = "running" /\ i < o ->
                              [row EXCEPT !.status = "over", !.open = FALSE]
                         [] row.status \in Awaiting /\ i < a -> [row EXCEPT !.status = "over"]
                         [] OTHER -> row
  BY DEF Swept
<1> HIDE DEF row
<1>4. Swept(a, o)[i] = new
  BY <1>2, <1>3
<1>5. CASE row.status \in Awaiting /\ i < a
  <2>1. new.cost = row.cost /\ new.status = "over" /\ row.status # "error"
    BY <1>2, <1>5 DEF Rows, Awaiting
  <2> QED
    BY <1>2, <1>4, <2>1
<1>6. CASE ~(row.status \in Awaiting /\ i < a)
  BY <1>2, <1>4, <1>6
<1> QED
  BY <1>5, <1>6

\* How a step leaves the table, unless it starts or stops a run.
Rewritten ==
  \/ rows' = rows
  \/ \E s \in Call, now \in Nat : rows' = WithProgress(s, now)
  \/ \E s \in Call, status \in Statuses, cost \in Nat :
       rows' = Shut(s, status, cost) \/ rows' = Closed(s, status, cost)
  \/ \E s \in Call : rows' = Abandoned(s)
  \/ \E a, o \in 1..(Len(rows) + 1) : rows' = Swept(a, o)

\* A run starts, and has its start row.
Opens == \E c \in Call : Start(c) /\ rows' = WithStartRow(Session(c))

\* Every step starts a run, or stops one, or rewrites the table like this.
LEMMA TableStep ==
  ASSUME TypeOK, [Next]_vars
  PROVE  Rewritten \/ Opens \/ \E s \in Answered : Stop(s)
<1>1. ASSUME NEW c \in Call, Dispatch(c) \/ Refuse(c) \/ Provision(c) \/ ProvisionFails(c)
      PROVE  rows' = rows
  BY <1>1 DEF Dispatch, Refuse, Provision, ProvisionFails
<1>2. ASSUME NEW s \in Call, Operator(s), ~Stop(s) PROVE rows' = rows
  BY <1>2 DEF Operator, TapBump, WebBump, Resume, BumpContinue, TapVelocity
<1>3. ASSUME NEW c \in Call, GoOn(c) \/ Warn(c) PROVE Rewritten
  <2>1. PICK now \in Later(Session(c)) : rows' = WithProgress(Session(c), now)
    BY <1>3 DEF GoOn, Warn, Polled
  <2> QED
    BY <2>1, LaterType, CallType DEF Rewritten
<1>4. ASSUME NEW c \in Call, Finish(c) \/ HitCeiling(c) PROVE Rewritten
  <2>1. PICK now \in Nat, result \in Statuses : Recorded(c, result, now)
    BY <1>4, LaterType DEF Finish, HitCeiling, Statuses, Awaiting
  <2>2. \/ \E cost \in Nat : rows' = Closed(Session(c), result, cost)
        \/ rows' = Abandoned(Session(c))
    BY <2>1 DEF Recorded
  <2> QED
    BY <2>2, CallType DEF Rewritten
<1>5. ASSUME NEW c \in Call, SpawnFails(c) PROVE Rewritten
  <2>1. "error" \in Statuses /\ 0 \in Nat /\ Session(c) \in Call
    BY CallType DEF Statuses
  <2> QED
    BY <1>5, <2>1 DEF SpawnFails, Rewritten
<1>6. ASSUME NEW c \in Call, Breaks(c) PROVE Rewritten
  BY <1>6, CallType DEF Breaks, Rewritten
<1>7. ASSUME NEW c \in Call, Start(c) PROVE Rewritten \/ Opens
  BY <1>7 DEF Start, Rewritten, Opens
<1>8. ASSUME Restart PROVE Rewritten
  BY <1>8 DEF Restart, Rewritten
<1>9. CASE UNCHANGED vars
  BY <1>9 DEF vars, Rewritten
<1>10. rows' = rows => Rewritten
  BY DEF Rewritten
<1> HIDE DEF Rewritten, Opens
<1> QED
  BY <1>1, <1>2, <1>3, <1>4, <1>5, <1>6, <1>7, <1>8, <1>9, <1>10, CallAssumption
  DEF Next, Enter, Loop

\* A row rewritten like this stays where it is; if it was finished it keeps its
\* cost, and is counted as before.
RowKept(i) ==
  /\ rows'[i].open => rows[i].open
  /\ rows'[i].subject = rows[i].subject
  /\ ~rows[i].open => /\ rows'[i].cost = rows[i].cost
                      /\ rows'[i].status = "error" <=> rows[i].status = "error"

\* So it is with every row, and a row that is added is closed and not counted.
TableKept ==
  /\ DOMAIN rows \subseteq DOMAIN rows'
  /\ \A i \in DOMAIN rows : RowKept(i)
  /\ \A i \in DOMAIN rows' :
       i \in DOMAIN rows \/ (~rows'[i].open /\ ~rows'[i].subject)

\* Every rewriting keeps the table so.
LEMMA RewrittenKept ==
  ASSUME TypeOK, Rewritten
  PROVE  TableKept
<1>1. CASE rows' = rows
  BY <1>1, RowsType DEF TableKept, RowKept
<1>2. ASSUME NEW s \in Call, NEW now \in Nat, rows' = WithProgress(s, now) PROVE TableKept
  BY <1>2, RowsType DEF WithProgress, TableKept, RowKept, Rows
<1>3. ASSUME NEW s \in Call, NEW status, NEW cost, rows' = Shut(s, status, cost) PROVE TableKept
  BY <1>3, RowsType DEF Shut, TableKept, RowKept, Rows
<1>4. ASSUME NEW s \in Call, NEW status, NEW cost, rows' = WithLateRow(s, status, cost)
      PROVE  TableKept
  <2>1. \A i \in DOMAIN rows' : i \in DOMAIN rows \/ i = Len(rows) + 1
    BY <1>4, LateRows, RowsType
  <2> QED
    BY <1>4, <2>1, LateRows DEF TableKept, RowKept
<1>5. ASSUME NEW s \in Call, rows' = Abandoned(s) PROVE TableKept
  BY <1>5, RowsType DEF Abandoned, TableKept, RowKept, Rows
<1>6. ASSUME NEW a, NEW o, rows' = Swept(a, o) PROVE TableKept
  BY <1>6, SweptType, SweptFinished, SweptRow DEF TableKept, RowKept
<1> QED
  BY <1>1, <1>2, <1>3, <1>4, <1>5, <1>6 DEF Rewritten, Closed

\* A rewriting keeps what is counted, and counts only what was open.
LEMMA RewrittenCounts ==
  ASSUME TypeOK, TypeOK', Rewritten
  PROVE  Kept /\ FromOpen
<1>1. TableKept
  BY RewrittenKept
<1>2. \A i \in DOMAIN rows : rows[i].open \in BOOLEAN /\ rows'[i].open \in BOOLEAN
  <2>1. \A i \in DOMAIN rows' : rows'[i] \in Rows
    BY DEF TypeOK
  <2> QED
    BY <1>1, <2>1, RowsType DEF TableKept, Rows
<1>3. Kept
  BY <1>1, <1>2 DEF Kept, Counted, TableKept, RowKept
<1>4. FromOpen
  <2> SUFFICES ASSUME NEW i \in Counted', i \notin Counted
               PROVE  i \in DOMAIN rows /\ rows[i].open
    BY DEF FromOpen
  <2>1. i \in DOMAIN rows' /\ rows'[i].subject /\ ~rows'[i].open /\ rows'[i].status # "error"
    BY DEF Counted
  <2>2. i \in DOMAIN rows
    BY <1>1, <2>1 DEF TableKept
  <2> QED
    BY <1>1, <1>2, <2>1, <2>2 DEF Counted, TableKept, RowKept
<1> QED
  BY <1>3, <1>4

\* A row that starts is not counted yet, and the others are as they were.
LEMMA StartCounts ==
  ASSUME TypeOK, TypeOK', NEW c \in Call, rows' = WithStartRow(Session(c))
  PROVE  Kept /\ FromOpen /\ Counted' = Counted
<1>1. rows' = WithStartRow(Session(c))
  OBVIOUS
<1>2. /\ DOMAIN rows' = 1..(Len(rows) + 1)
      /\ \A i \in DOMAIN rows : i \in DOMAIN rows' /\ rows'[i] = rows[i]
      /\ rows'[Len(rows) + 1].open
  BY <1>1, StartRows
<1>3. Counted' = Counted
  BY <1>2, RowsType DEF Counted
<1> QED
  BY <1>2, <1>3 DEF Kept, FromOpen, Counted

\* Stop relabels what the run has left, and keeps what is counted.
LEMMA StopCounts ==
  ASSUME TypeOK, NEW s, Stop(s)
  PROVE  Kept
<1>1. rows' = WithStatus(s, "over")
  BY DEF Stop
<1> QED
  BY <1>1, RowsType DEF WithStatus, Kept, Counted, Rows

\* Money once counted against the budget of the subject stays counted: no tap,
\* sweep or later run of the session takes a finished row out of the sum.
THEOREM SpecCountedNeverFalls == Spec => CountedNeverFalls
<1>1. TypeOK /\ TypeOK' /\ [Next]_vars => [Cumulative' >= Cumulative]_vars
  <2> SUFFICES ASSUME TypeOK, TypeOK', [Next]_vars PROVE Cumulative' >= Cumulative
    OBVIOUS
  <2>1. Kept
    BY TableStep, RewrittenCounts, StartCounts, StopCounts DEF Opens
  <2> QED
    BY <2>1, KeptSum
<1> QED
  BY <1>1, TypeInit, TypeStep, PTL DEF Spec, CountedNeverFalls

-----------------------------------------------------------------------------
(***************************************************************************)
(* The test at the door still holds when the bill comes: where one run is  *)
(* at work at a time, the row that is open is the only one that can land   *)
(* on the budget, and what was counted when it came in is counted yet.     *)
(***************************************************************************)

\* Every call passed the test, nobody pressed Stop, and no worktree came
\* between the test and the start.
Orderly == Forced = {} /\ history.stopped = {} /\ ~worktree

Room ==
  Orderly =>
    /\ \A i, j \in DOMAIN rows : rows[i].open /\ rows[j].open => i = j
    /\ InFlight => Cumulative + MaxUsd <= Cap

\* Where no row that was open comes to be counted the sum is the same.
LEMMA SameSum ==
  ASSUME TypeOK, TypeOK', Kept, Counted' = Counted
  PROVE  Cumulative' = Cumulative
<1>1. Cumulative' = ColumnSum(Costs', Counted)
  BY CumulativeNext
<1>2. CountedOK /\ CountedOK'
  BY CountedType, CountedNext
<1>3. ASSUME NEW i \in Counted
      PROVE  Costs[i] \in Nat /\ Costs[i] = Costs'[i]
  <2>1. /\ i \in Counted' /\ rows'[i].cost = rows[i].cost
        /\ i \in DOMAIN rows /\ Costs[i] \in Nat
    BY <1>2 DEF Kept, CountedOK
  <2>2. i \in DOMAIN rows'
    BY <1>2, <2>1 DEF CountedOK
  <2>3. Costs[i] = rows[i].cost /\ Costs'[i] = rows'[i].cost
    BY <2>1, <2>2 DEF Costs
  <2> QED
    BY <2>1, <2>3
<1> QED
  BY <1>1, <1>2, <1>3, CumulativeIs, SumSame DEF CountedOK

\* The kind of run never changes.
LEMMA WorktreeFixed ==
  ASSUME [Next]_vars
  PROVE  worktree' = worktree
BY DEF Next, Enter, Loop, Operator, Dispatch, TapBump, WebBump, Resume, Stop, BumpContinue,
       TapVelocity, Refuse, Provision, ProvisionFails, Start, SpawnFails, GoOn, Warn, Finish,
       HitCeiling, Breaks, Restart, vars

\* Stop is remembered, and the kind of run is fixed.
LEMMA OrderlyBefore ==
  ASSUME TypeOK, [Next]_vars, Orderly'
  PROVE  Orderly /\ ~(\E s \in Answered : Stop(s))
<1>1. worktree' = worktree
  BY WorktreeFixed
<1>2. ASSUME NEW s \in Answered, Stop(s) PROVE FALSE
  <2>1. history'.stopped = history.stopped \cup {s}
    BY <1>2 DEF Stop, TypeOK, Histories
  <2> QED
    BY <2>1 DEF Orderly
<1>3. ASSUME NEW s, BumpContinue(s) PROVE history'.stopped = history.stopped
  BY <1>3 DEF BumpContinue, TypeOK, Histories
<1>4. ASSUME NEW c \in Call,
             Start(c) \/ SpawnFails(c) \/ Finish(c) \/ HitCeiling(c) \/ Breaks(c)
      PROVE  history'.stopped = history.stopped
  <2>1. PICK u \in SUBSET Call : Throws(u) \/ UNCHANGED history
    BY <1>4, CallType DEF Start, SpawnFails, Finish, HitCeiling, Recorded, Breaks
  <2> QED
    BY <2>1, ThrowsKeeps
<1>5. ASSUME NEW c \in Call,
             Dispatch(c) \/ Refuse(c) \/ Provision(c) \/ ProvisionFails(c) \/ GoOn(c) \/ Warn(c)
      PROVE  history'.stopped = history.stopped
  BY <1>5 DEF Dispatch, Refuse, Provision, ProvisionFails, GoOn, Warn
<1>6. ASSUME NEW s, TapBump(s) \/ WebBump(s) \/ TapVelocity(s)
      PROVE  history'.stopped = history.stopped
  BY <1>6 DEF TapBump, WebBump, Resume, TapVelocity
<1>7. Restart \/ UNCHANGED vars => history'.stopped = history.stopped
  BY DEF Restart, vars
<1>8. history'.stopped = history.stopped
  BY <1>2, <1>3, <1>4, <1>5, <1>6, <1>7 DEF Next, Enter, Loop, Operator
<1> QED
  BY <1>1, <1>2, <1>8 DEF Orderly

\* No row is open unless it was, or the run has just come in by the door.
LEMMA RoomStep ==
  ASSUME TypeOK, TypeOK', Alone, Room, [Next]_vars
  PROVE  Room' /\ (Orderly' => (Cumulative' > Cumulative => Cumulative + MaxUsd <= Cap))
<1> SUFFICES ASSUME Orderly'
             PROVE  /\ \A i, j \in DOMAIN rows' : rows'[i].open /\ rows'[j].open => i = j
                    /\ InFlight' => Cumulative' + MaxUsd <= Cap
                    /\ Cumulative' > Cumulative => Cumulative + MaxUsd <= Cap
  BY DEF Room
<1>1. Orderly /\ ~(\E s \in Answered : Stop(s))
  BY OrderlyBefore
<1>2. /\ \A i, j \in DOMAIN rows : rows[i].open /\ rows[j].open => i = j
      /\ InFlight => Cumulative + MaxUsd <= Cap
  BY <1>1 DEF Room
<1>3. ASSUME NEW c \in Call, Start(c), rows' = WithStartRow(Session(c))
      PROVE  /\ \A i, j \in DOMAIN rows' : rows'[i].open /\ rows'[j].open => i = j
             /\ Cumulative' = Cumulative /\ Cumulative + MaxUsd <= Cap
  <2>1. Admitted(c)
    BY <1>1, <1>3 DEF Start, MayStart, Alone, Rowed, Orderly
  <2>2. ~InFlight /\ Cumulative + MaxUsd <= Cap
    BY <1>1, <2>1 DEF Admitted, Orderly
  <2>3. Cumulative' = Cumulative
    BY <1>3, StartCounts, SameSum
  <2>4. rows' = WithStartRow(Session(c))
    BY <1>3
  <2>5. /\ DOMAIN rows' = 1..(Len(rows) + 1)
        /\ \A i \in DOMAIN rows : i \in DOMAIN rows' /\ rows'[i] = rows[i]
    BY <2>4, StartRows
  <2>6. \A i \in DOMAIN rows' : rows'[i].open => i = Len(rows) + 1
    BY <2>2, <2>5, RowsType DEF InFlight
  <2> QED
    BY <2>2, <2>3, <2>6
<1>4. CASE Rewritten
  <2>1. TableKept
    BY <1>4, RewrittenKept
  <2>2. \A i \in DOMAIN rows' : rows'[i].open => i \in DOMAIN rows /\ rows[i].open
    BY <2>1 DEF TableKept, RowKept
  <2>3. Kept /\ FromOpen
    BY <1>4, RewrittenCounts
  <2>4. Cumulative' > Cumulative => InFlight
    <3>1. ASSUME ~InFlight PROVE Counted' = Counted
      BY <2>3, <3>1 DEF Kept, FromOpen, InFlight
    <3>2. ASSUME ~InFlight PROVE Cumulative' = Cumulative
      BY <2>3, <3>1, <3>2, SameSum
    <3> QED
      BY <3>2, <2>3, KeptSum
  <2>5. ASSUME InFlight' PROVE Cumulative' = Cumulative /\ InFlight
    <3>1. PICK i \in DOMAIN rows' : rows'[i].open
      BY <2>5 DEF InFlight
    <3>2. i \in DOMAIN rows /\ rows[i].open /\ \A j \in DOMAIN rows : rows[j].open => j = i
      BY <1>2, <2>1, <2>2, <3>1
    <3>3. i \notin Counted'
      BY <3>1 DEF Counted
    <3>4. Counted' = Counted
      BY <2>3, <3>2, <3>3 DEF Kept, FromOpen
    <3> QED
      BY <2>3, <3>2, <3>4, SameSum DEF InFlight
  <2> QED
    BY <1>2, <2>1, <2>2, <2>4, <2>5
<1> QED
  BY <1>1, <1>3, <1>4, TableStep DEF Opens

\* When a run's cost lands on the budget of the subject there was room for one
\* more run before: the test at the door is not out of date when the bill comes.
THEOREM SpecRoomWasThere == Spec => RoomWasThere
<1>1. Init => Alone /\ Room
  BY DEF Init, NoCall, Alone, Rowed, Seen, Up, Room, InFlight
<1>2. TypeOK /\ TypeOK' /\ Alone /\ Room /\ [Next]_vars
      => Room' /\ [Forced = {} /\ history'.stopped = {} /\ ~worktree
                    => (Cumulative' > Cumulative => Cumulative + MaxUsd <= Cap)]_vars
  <2> SUFFICES ASSUME TypeOK, TypeOK', Alone, Room, [Next]_vars
               PROVE  Room' /\ (Forced = {} /\ history'.stopped = {} /\ ~worktree
                      => (Cumulative' > Cumulative => Cumulative + MaxUsd <= Cap))
    OBVIOUS
  <2>1. worktree' = worktree
    BY WorktreeFixed
  <2> QED
    BY <2>1, RoomStep DEF Orderly
<1> QED
  BY <1>1, <1>2, AloneStep, TypeInit, TypeStep, PTL DEF Spec, RoomWasThere
=============================================================================
