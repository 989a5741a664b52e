---------------------------- MODULE MCAgentRuns ----------------------------
(* Three runs on an artifact; the operator attends to the first. *)
EXTENDS AgentRuns, TLC

CONSTANTS c1, c2, c3

MCCall == {c1, c2, c3}

Swap == Permutations({c2, c3})
=============================================================================
