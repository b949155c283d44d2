----------------------------- MODULE MCLivePlan -----------------------------
(***************************************************************************)
(* A small plan for TLC: two sources, each with its map, a join of both    *)
(* and the output.  The maps are left to the operators between.            *)
(***************************************************************************)
EXTENDS LivePlan, TLC

CONSTANTS sourceA, sourceB, joined, delivered, key

MCInputs ==
  sourceA :> {} @@ sourceB :> {} @@ joined :> {sourceA, sourceB} @@ delivered :> {joined}
MCCredentialOf ==
  sourceA :> key @@ sourceB :> key @@ joined :> Nothing @@ delivered :> Nothing

\* A ceiling below, on and above the page boundary, and above what the
\* requests can bring.
MCLimits ==
  {[pageSize |-> p, maxRequests |-> 2, ceiling |-> c] : p \in {1, 2}, c \in {1, 2, 3, 5}}
=============================================================================
