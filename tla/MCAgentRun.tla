------------------------------ MODULE MCAgentRun ------------------------------
(***************************************************************************)
(* AgentRun with every way of asking for a run.                            *)
(***************************************************************************)
EXTENDS AgentRun

MCRequest == [transport : Transport, fallback : BOOLEAN, reviewer : BOOLEAN, auth : BOOLEAN]
=============================================================================
