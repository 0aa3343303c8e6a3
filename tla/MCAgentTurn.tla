---------------------------- MODULE MCAgentTurn ----------------------------
(* AgentTurn for TLC: its parameters are small numbers given in the cfgs.  *)
EXTENDS AgentTurn
=============================================================================
