----------------------------- MODULE MCAgentTask -----------------------------
(***************************************************************************)
(* AgentTask for TLC.                                                      *)
(***************************************************************************)
EXTENDS AgentTask
=============================================================================
