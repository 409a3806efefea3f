---------------------------- MODULE MCAgentDev -----------------------------
(***************************************************************************)
(* Instances of AgentDev for TLC.                                          *)
(***************************************************************************)
EXTENDS AgentDev
=============================================================================
