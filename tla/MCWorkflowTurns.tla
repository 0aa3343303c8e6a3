-------------------------- MODULE MCWorkflowTurns --------------------------
(* WorkflowTurns for TLC.  A run followed from its first phase meets faults, *)
(* one followed from its last phase does not.                              *)
EXTENDS WorkflowTurns
Followed     == Init /\ used.faults = IF run.phase = 1 THEN 0 ELSE MaxFaults
FollowedFair == Followed /\ [][Next]_vars /\ Fairness
=============================================================================
