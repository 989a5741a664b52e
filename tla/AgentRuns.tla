------------------------------ MODULE AgentRuns ------------------------------
(***************************************************************************)
(* The runs of agents on an artifact of the vault: dispatchAgent with its  *)
(* guard against a second run of a subject and its budget per subject      *)
(* (src/lib/agents/dispatch/index.ts), the rows of agent_runs (runs.ts),   *)
(* the pause at the budget ceiling, the operator's answers to it           *)
(* (budget-escalation.ts, budget-grants.ts, the Telegram buttons and the   *)
(* routes under /api/agents), and the sweeps of a boot.                    *)
(*                                                                         *)
(* A call is one execution of dispatchAgent.  A fresh call opens a Claude  *)
(* session of its own, named after it here; a resumed call goes on with    *)
(* the session of an earlier one, and with its run id, which is cut from   *)
(* the session's.  Money is counted in whole units and turns are left out: *)
(* both ceilings are raised and tested alike.  There is one subject: both  *)
(* guards look at the rows of one only, and a dispatch without a subject   *)
(* passes neither.                                                         *)
(***************************************************************************)
EXTENDS Integers, Sequences, FiniteSets, FiniteSetsExt

CONSTANTS
  Call,      \* the executions of dispatchAgent there may be
  Forced,    \* calls with forceOverBudget
  Chat,      \* calls that are, if fresh, for a chat: those cannot be paused
  Base,      \* budget.ceiling_usd of the agent
  Continued, \* half as much again, at most twice: what bump-continue gives
  MaxUsd,    \* budget.max_usd of the agent
  Cap,       \* dispatch_budget_usd of the subject
  Bump,      \* what one tap of the operator adds
  MaxSpend,  \* bound: money a session spends
  Answered,  \* bound: the sessions the operator attends to
  MaxTaps,   \* bound: taps for a session
  MaxBoots,  \* bound: restarts of the server
  MaxFailures \* bound: exceptions that are only logged, or that nothing catches

ASSUME CallAssumption == Forced \subseteq Call /\ Chat \subseteq Call /\ Answered \subseteq Call
ASSUME MoneyAssumption ==
  /\ Base \in Nat /\ Continued \in Base .. 2 * Base
  /\ MaxUsd \in Nat /\ Cap \in Nat /\ Bump \in Nat
  /\ MaxSpend \in Nat /\ MaxTaps \in Nat /\ MaxBoots \in Nat /\ MaxFailures \in Nat

VARIABLES
  worktree,  \* runs on the subject get a worktree first
  call,      \* the calls
  rows,      \* agent_runs, in order of insertion
  spent,     \* the money each session has spent, by its transcript
  approval,  \* pendingApprovals: the ceiling at the pause, per session
  warning,   \* pendingVelocity: the ceiling at the warning, per session
  grant,     \* liveGrants: a raised ceiling, per session
  boots,     \* restarts so far
  taps,      \* history: the operator's taps for each session
  history    \* history: sessions that bump-continue resumed, that Stop ended, and
             \* of which a start row could not be written; and the failures so far

vars == <<worktree, call, rows, spent, approval, warning, grant, boots, taps, history>>

-----------------------------------------------------------------------------
(* The table.                                                              *)

\* There is no entry.
None == -1

Awaiting == {"awaiting-budget-approval", "awaiting-operator-input"}

\* `over' is success, goal_achieved, completed-no-artifact, timeout, cancelled,
\* budget-exceeded and interrupted, which nothing below tells apart.
Statuses == Awaiting \cup {"running", "error", "over"}

\* getAgentRun: the first row inserted for the run id.
FirstRow(s) == CHOOSE i \in DOMAIN rows :
                 /\ rows[i].session = s
                 /\ \A j \in DOMAIN rows : rows[j].session = s => i <= j

HasRow(s) == \E i \in DOMAIN rows : rows[i].session = s

\* Mutant: the guard asks for rows that are running.
RunningOnly == \E i \in DOMAIN rows : rows[i].open /\ rows[i].status = "running"

\* listRunningSubjectPaths has the subject: a row is without finished_at.
InFlight == \E i \in DOMAIN rows : rows[i].open

\* cumulativeAdrSpend
Counted ==
  {i \in DOMAIN rows : rows[i].subject /\ ~rows[i].open /\ rows[i].status # "error"}

Cumulative == MapThenSumSet(LAMBDA i : rows[i].cost, Counted)

\* startAgentRun
WithStartRow(s) ==
  Append(rows, [session |-> s, status |-> "running", open |-> TRUE, cost |-> 0,
                subject |-> TRUE, lost |-> FALSE])

\* recordAgentRun, of a run that has no open row: the row has no subject.
WithLateRow(s, status, cost) ==
  Append(rows, [session |-> s, status |-> status, open |-> FALSE, cost |-> cost,
                subject |-> FALSE, lost |-> FALSE])

\* Mutant: only the first row of the run id is closed.
ClosesFirst(s, status, cost) ==
  [i \in DOMAIN rows |->
     IF HasRow(s) /\ i = FirstRow(s) /\ rows[i].open
     THEN [rows[i] EXCEPT !.status = status, !.open = FALSE, !.cost = cost]
     ELSE rows[i]]

\* Mutant: rows that were finished before are written again.
ClosesAgain(s, status, cost) ==
  [i \in DOMAIN rows |->
     IF rows[i].session = s
     THEN [rows[i] EXCEPT !.status = status, !.open = FALSE, !.cost = cost]
     ELSE rows[i]]

Shut(s, status, cost) ==
  [i \in DOMAIN rows |->
     IF rows[i].session = s /\ rows[i].open
     THEN [rows[i] EXCEPT !.status = status, !.open = FALSE, !.cost = cost]
     ELSE rows[i]]

\* finishAgentRun closes every open row of the run id.  When there is none (it
\* was never written, or another call of the session has closed it) a row is
\* added that is finished already.
Closed(s, status, cost) ==
  IF \E i \in DOMAIN rows : rows[i].session = s /\ rows[i].open
  THEN Shut(s, status, cost)
  ELSE WithLateRow(s, status, cost)

\* The end of a call goes unrecorded: its row stays open, and is marked here.
Abandoned(s) ==
  [i \in DOMAIN rows |->
     IF rows[i].session = s /\ rows[i].open THEN [rows[i] EXCEPT !.lost = TRUE]
     ELSE rows[i]]

\* updateRunProgress
WithProgress(s, now) ==
  [i \in DOMAIN rows |->
     IF rows[i].session = s /\ rows[i].open THEN [rows[i] EXCEPT !.cost = now]
     ELSE rows[i]]

\* setRunStatus changes every row of the run id, open or not.
WithStatus(s, status) ==
  [i \in DOMAIN rows |->
     IF rows[i].session = s THEN [rows[i] EXCEPT !.status = status] ELSE rows[i]]

-----------------------------------------------------------------------------
(* Asking for a run.                                                       *)

NoCall(c) == [pc |-> "none", session |-> c, ceiling |-> 0, pausable |-> FALSE, warned |-> FALSE]

Init ==
  /\ worktree \in BOOLEAN
  /\ call = [c \in Call |-> NoCall(c)]
  /\ rows = <<>>
  /\ spent = [c \in Call |-> 0]
  /\ approval = [c \in Call |-> None] /\ warning = [c \in Call |-> None]
  /\ grant = [c \in Call |-> None]
  /\ boots = 0
  /\ taps = [c \in Call |-> 0]
  /\ history = [continued |-> {}, stopped |-> {}, unseen |-> {}, failures |-> 0]

\* Whoever asks, the generator of dispatchAgent runs its guards a little later.
Asked(c, session, ceiling, pausable) ==
  /\ call[c].pc = "none"
  /\ call' = [call EXCEPT ![c] =
       [@ EXCEPT !.pc = "asked", !.session = session, !.ceiling = ceiling,
                 !.pausable = pausable]]

\* A route, the scheduler, the chat or a redispatch asks for a fresh run.
Dispatch(c) ==
  /\ Asked(c, c, Base, c \notin Chat)
  /\ UNCHANGED <<worktree, rows, spent, approval, warning, grant, boots, taps, history>>

\* The operator raises the ceiling of a paused run by Bump: the session is
\* resumed (resumeWithRaisedBudget).
Resume(s) ==
  /\ approval[s] # None /\ taps[s] < MaxTaps
  /\ \E c \in Call : Asked(c, s, approval[s] + Bump, TRUE)
  /\ taps' = [taps EXCEPT ![s] = @ + 1]
  /\ UNCHANGED <<worktree, rows, spent, warning, grant, boots, history>>

\* The Telegram button: the request is consumed, whatever the run's status.
TapBump(s) ==
  /\ Resume(s)
  /\ approval' = [approval EXCEPT ![s] = None]

\* The routes approve-budget and budget-approvals: some row of the run has to
\* await the approval, and the request stays.
WebBump(s) ==
  /\ \E i \in DOMAIN rows :
       rows[i].session = s /\ rows[i].status = "awaiting-budget-approval"
  /\ Resume(s)
  /\ UNCHANGED approval

\* Stop, by the button or by a route.
Stop(s) ==
  /\ approval[s] # None
  /\ rows' = WithStatus(s, "over")
  /\ approval' = [approval EXCEPT ![s] = None]
  /\ history' = [history EXCEPT !.stopped = @ \cup {s}]
  /\ UNCHANGED <<worktree, call, spent, warning, grant, boots, taps>>

\* Mutant: the ceiling at the pause is doubled, not the base.
ContinuesFromPause(s) ==
  /\ HasRow(s) /\ rows[FirstRow(s)].status \in Awaiting
  /\ \E c \in Call : Asked(c, s, 2 * approval[s], TRUE)
  /\ history' = [history EXCEPT !.continued = @ \cup {s}]
  /\ UNCHANGED <<worktree, rows, spent, approval, warning, grant, boots, taps>>

\* bump-continue resumes a run whose first row awaits the operator.  Where that
\* row has no subject the resumed run has none either and passes no guard: such
\* a run is left out.
BumpContinue(s) ==
  /\ HasRow(s) /\ rows[FirstRow(s)].status \in Awaiting /\ rows[FirstRow(s)].subject
  /\ \E c \in Call : Asked(c, s, Continued, TRUE)
  /\ history' = [history EXCEPT !.continued = @ \cup {s}]
  /\ UNCHANGED <<worktree, rows, spent, approval, warning, grant, boots, taps>>

\* The button of a velocity warning: a grant on top of the one not yet adopted.
TapVelocity(s) ==
  /\ warning[s] # None /\ taps[s] < MaxTaps
  /\ grant' = [grant EXCEPT ![s] = (IF @ = None THEN warning[s] ELSE @) + Bump]
  /\ warning' = [warning EXCEPT ![s] = None]
  /\ taps' = [taps EXCEPT ![s] = @ + 1]
  /\ UNCHANGED <<worktree, call, rows, spent, approval, boots, history>>

-----------------------------------------------------------------------------
(* The life of a call.                                                     *)

Session(c) == call[c].session

\* Mutant: the run to come is not counted.
SpentOnly(c) ==
  /\ ~InFlight
  /\ c \in Forced \/ Cumulative <= Cap

\* The guard of D3 and the budget of the subject.
Admitted(c) ==
  /\ ~InFlight
  /\ c \in Forced \/ Cumulative + MaxUsd <= Cap

\* Something throws; of the sessions in `unseen' no start row could be written.
Throws(unseen) ==
  /\ history.failures < MaxFailures
  /\ history' = [history EXCEPT !.failures = @ + 1, !.unseen = @ \cup unseen]

Becomes(c, pc) == call' = [call EXCEPT ![c].pc = pc]

\* Of a call that is over nothing is asked for any more.
Over(c) == [NoCall(c) EXCEPT !.pc = "done"]

Ends(c) == call' = [call EXCEPT ![c] = Over(c)]

\* A refused call leaves no row.
Refuse(c) ==
  /\ call[c].pc = "asked" /\ ~Admitted(c)
  /\ Ends(c)
  /\ UNCHANGED <<worktree, rows, spent, approval, warning, grant, boots, taps, history>>

\* The guards are passed and git is asked for the worktree.
Provision(c) ==
  /\ call[c].pc = "asked" /\ Admitted(c) /\ worktree
  /\ Becomes(c, "provisioning")
  /\ UNCHANGED <<worktree, rows, spent, approval, warning, grant, boots, taps, history>>

\* The row of a failed provisioning has no subject and a run id of its own.
ProvisionFails(c) ==
  /\ call[c].pc = "provisioning"
  /\ Ends(c)
  /\ UNCHANGED <<worktree, rows, spent, approval, warning, grant, boots, taps, history>>

\* Without a worktree nothing is awaited between the guards and the start row.
MayStart(c) ==
  \/ call[c].pc = "provisioning"
  \/ call[c].pc = "asked" /\ Admitted(c) /\ ~worktree

\* The session is up.  A start row that cannot be written is only logged.
Start(c) ==
  /\ MayStart(c)
  /\ Becomes(c, "live")
  /\ \/ rows' = WithStartRow(Session(c)) /\ UNCHANGED history
     \/ Throws({Session(c)}) /\ UNCHANGED rows
  /\ UNCHANGED <<worktree, spent, approval, warning, grant, boots, taps>>

\* The session cannot be spawned: the call ends without a start row.  The row of
\* an error that is added where none is open has no subject, and nothing reads it.
\* That none can be written is only logged.
SpawnFails(c) ==
  /\ MayStart(c)
  /\ Ends(c)
  /\ \/ rows' = Shut(Session(c), "error", 0) /\ UNCHANGED history
     \/ Throws({}) /\ UNCHANGED rows
  /\ UNCHANGED <<worktree, spent, approval, warning, grant, boots, taps>>

\* The ceiling after a live grant, which raises it or leaves it.
Adopted(c) ==
  LET g == grant[Session(c)] IN IF g > call[c].ceiling THEN g ELSE call[c].ceiling

\* A tick of the poll loop: the transcript has grown, progress is written and a
\* live grant is adopted; then the ceiling is tested.
Polled(c, now) ==
  /\ spent' = [spent EXCEPT ![Session(c)] = now]
  /\ rows' = WithProgress(Session(c), now)
  /\ grant' = [grant EXCEPT ![Session(c)] = None]

\* What a session has spent by the time it is looked at again.
Later(s) == {m \in 0 .. MaxSpend : m >= spent[s]}

\* The run goes on.  An adopted grant may lift the projection off the ceiling,
\* so that a later one warns again.
GoOn(c) ==
  /\ call[c].pc = "live"
  /\ \E now \in Later(Session(c)) : Polled(c, now) /\ now < Adopted(c)
  /\ \E warned \in {call[c].warned, call[c].warned /\ grant[Session(c)] = None} :
       call' = [call EXCEPT ![c].ceiling = Adopted(c), ![c].warned = warned]
  /\ UNCHANGED <<worktree, approval, warning, boots, taps, history>>

\* The projection meets the ceiling: the operator is warned, once, or cannot be.
\* The message is under way for a moment; its answer may come at any time.
Warn(c) ==
  /\ call[c].pc = "live"
  /\ \E now \in Later(Session(c)) : Polled(c, now) /\ now < Adopted(c)
  /\ call[c].pausable /\ (call[c].warned => grant[Session(c)] # None)
  /\ call' = [call EXCEPT ![c].ceiling = Adopted(c), ![c].warned = TRUE]
  /\ \/ warning' = [warning EXCEPT ![Session(c)] = Adopted(c)]
     \/ UNCHANGED warning
  /\ UNCHANGED <<worktree, approval, boots, taps, history>>

\* The session is killed, the live grant dropped.
Leaves(c, now) ==
  /\ spent' = [spent EXCEPT ![Session(c)] = now]
  /\ grant' = [grant EXCEPT ![Session(c)] = None]
  /\ Ends(c)

\* A call that has a result is recorded: the row is closed.  Where the transcript
\* cannot be read it has no cost; that it cannot be closed is only logged.
Recorded(c, result, now) ==
  /\ Leaves(c, now)
  /\ \/ rows' = Closed(Session(c), result, now) /\ UNCHANGED history
     \/ Throws({}) /\ rows' \in {Closed(Session(c), result, 0), Abandoned(Session(c))}

\* The agent is done or has a question, it fails or stalls, its time is up, or
\* the chat cancels it.  From the end of the loop to the record nobody looks at
\* what the call has in hand.
Finish(c) ==
  /\ call[c].pc = "live"
  /\ \E now \in Later(Session(c)) :
       \/ \E result \in {"over", "error"} : Recorded(c, result, now)
       \/ call[c].pausable /\ Recorded(c, "awaiting-operator-input", now)
  /\ UNCHANGED <<worktree, approval, warning, boots, taps>>

HitCeiling(c) ==
  /\ call[c].pc = "live"
  /\ \E now \in Later(Session(c)) :
       /\ now >= Adopted(c)
       /\ Recorded(c, IF call[c].pausable THEN "awaiting-budget-approval" ELSE "over", now)
  /\ \/ /\ call[c].pausable
        /\ approval' = [approval EXCEPT ![Session(c)] = Adopted(c)]
     \/ UNCHANGED approval
  /\ UNCHANGED <<worktree, warning, boots, taps>>

\* Something throws: a query of the guards, or the backend once the session is
\* up.  Nothing catches it in dispatchAgent: the call is over, unrecorded.
Breaks(c) ==
  /\ Throws({})
  /\ \/ /\ call[c].pc \in {"asked", "provisioning"}
        /\ Ends(c)
        /\ UNCHANGED <<rows, spent, grant>>
     \/ /\ call[c].pc = "live"
        /\ \E now \in Later(Session(c)) : Leaves(c, now)
        /\ rows' = Abandoned(Session(c))
  /\ UNCHANGED <<worktree, approval, warning, boots, taps>>

-----------------------------------------------------------------------------
(* The server stops, for whatever reason, and starts again.  Rows are      *)
(* started in the order of the table: those before `old' have passed the   *)
(* age of sweepInterruptedRuns, those before `abandoned' that of the other *)
(* two sweeps.                                                             *)

Swept(abandoned, old) ==
  [i \in DOMAIN rows |->
     LET row == [rows[i] EXCEPT !.lost = rows[i].lost \/ rows[i].open]
     IN  CASE row.open /\ row.status = "running" /\ i < old ->
                [row EXCEPT !.status = "over", !.open = FALSE]
           [] row.status \in Awaiting /\ i < abandoned -> [row EXCEPT !.status = "over"]
           [] OTHER -> row]

Restart ==
  /\ boots < MaxBoots
  /\ \E abandoned, old \in 1 .. (Len(rows) + 1) :
       abandoned <= old /\ rows' = Swept(abandoned, old)
  /\ call' = [c \in Call |->
       IF call[c].pc = "none" THEN NoCall(c) ELSE Over(c)]
  /\ grant' = [c \in Call |-> None]
  /\ boots' = boots + 1
  /\ UNCHANGED <<worktree, spent, approval, warning, taps, history>>

Operator(s) ==
  TapBump(s) \/ WebBump(s) \/ Stop(s) \/ BumpContinue(s) \/ TapVelocity(s)

Enter(c) == Refuse(c) \/ Provision(c) \/ ProvisionFails(c) \/ Start(c) \/ SpawnFails(c)

Loop(c) == GoOn(c) \/ Warn(c) \/ Finish(c) \/ HitCeiling(c)

Next ==
  \/ \E c \in Call : Dispatch(c) \/ Enter(c) \/ Loop(c) \/ Breaks(c)
  \/ \E s \in Answered : Operator(s)
  \/ Restart

Spec == Init /\ [][Next]_vars

-----------------------------------------------------------------------------
(* Properties.                                                             *)

Calls ==
  [pc : {"none", "asked", "provisioning", "live", "done"},
   session : Call, ceiling : Nat, pausable : BOOLEAN, warned : BOOLEAN]

Rows == [session : Call, status : Statuses, open : BOOLEAN, cost : Nat,
         subject : BOOLEAN, lost : BOOLEAN]

Histories == [continued : SUBSET Call, stopped : SUBSET Call, unseen : SUBSET Call,
              failures : Nat]

\* Every variable keeps its type, whatever the operator, the loops and the
\* restarts do to the ceilings, the requests and the rows.
TypeOK ==
  /\ worktree \in BOOLEAN
  /\ call \in [Call -> Calls]
  /\ rows \in Seq(Rows)
  /\ spent \in [Call -> Nat]
  /\ approval \in [Call -> {None} \cup Nat]
  /\ warning \in [Call -> {None} \cup Nat]
  /\ grant \in [Call -> {None} \cup Nat]
  /\ boots \in Nat
  /\ taps \in [Call -> Nat]
  /\ history \in Histories

\* The session of the call is at work.
Up(c) == call[c].pc = "live"

\* Whatever dispatches, taps, routes, failures and restarts interleave, a subject
\* whose runs need no worktree is never worked on by two sessions at once whose
\* start rows were written: a session without one the guard cannot see.
OneRunPerSubject ==
  worktree \/ \A c, d \in Call :
    /\ Up(c) /\ Session(c) \notin history.unseen
    /\ Up(d) /\ Session(d) \notin history.unseen
    => c = d

\* What the operator has allowed a session to spend: the base, raised by
\* bump-continue if it was used, and Bump for each tap.
Allowed(s) == (IF s \in history.continued THEN Continued ELSE Base) + Bump * taps[s]

\* No call's ceiling is above what the operator's taps add up to, however they
\* overlap with pauses, resumed runs, late warnings, stale grants and restarts.
CeilingWithinGrants ==
  \A c \in Call : call[c].pc \notin {"none", "done"} => call[c].ceiling <= Allowed(Session(c))

\* A row stays open only while a call of its session is up, or when the end of
\* its run went unrecorded: the server stopped, something threw or the record
\* could not be written.  No run that is recorded leaves its subject blocked,
\* whichever calls share its run id.
OpenRowIsOwned ==
  \A i \in DOMAIN rows :
    rows[i].open => \/ rows[i].lost
                    \/ \E c \in Call : Up(c) /\ Session(c) = rows[i].session

\* Money once counted against the budget of the subject stays counted: no tap,
\* sweep or later run of the session takes a finished row out of the sum.
CountedNeverFalls == [][Cumulative' >= Cumulative]_vars

\* When a run's cost lands on the budget of the subject there was room for one
\* more run before: the test at the door is not out of date when the bill comes,
\* unless the call was forced, or Stop has relabelled rows meanwhile, or other
\* runs came in while git made the worktree.
RoomWasThere ==
  [][Forced = {} /\ history'.stopped = {} /\ ~worktree
     => (Cumulative' > Cumulative => Cumulative + MaxUsd <= Cap)]_vars

=============================================================================
