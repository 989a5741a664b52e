---------------------------- MODULE MCScheduler ----------------------------
(* The tasks on which TLC checks Scheduler. *)
EXTENDS Scheduler, TLC

CONSTANTS a, b

\* Two tasks that are due now apart, now together.
TwoTasks == (a :> {1, 2}) @@ (b :> {2})

\* The second one can be switched off, and never overlaps.
TwoSetups == (a :> {"off", "parallel", "exclusive"}) @@ (b :> {"off", "exclusive"})

OneAfterTheOther == <<a, b>>
=============================================================================
