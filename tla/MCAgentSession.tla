--------------------------- MODULE MCAgentSession ---------------------------
(***************************************************************************)
(* Small instances of AgentSession for TLC.                                *)
(***************************************************************************)
EXTENDS AgentSession, TLC

CONSTANTS c1, c2, k1, k2, x1, x2
=============================================================================
