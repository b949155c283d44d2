--------------------------- MODULE MCAgentHarness ---------------------------
(***************************************************************************)
(* Small instances of AgentHarness for TLC: the limit of the code and the   *)
(* smallest one that lets every stage have its call.                       *)
(***************************************************************************)
EXTENDS AgentHarness, TLC

CONSTANTS n1, n2, m1, m2

Interchangeable == Permutations({n1, n2}) \union Permutations({m1, m2})
=============================================================================
