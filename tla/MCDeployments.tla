--------------------------- MODULE MCDeployments ---------------------------
(***************************************************************************)
(* A small instance of Deployments for TLC: two versions, two idempotency  *)
(* keys, two free aliases and one that another deployment holds.  Calls,     *)
(* keys and offers only ever appear as names, so they are symmetric.       *)
(***************************************************************************)
EXTENDS Deployments, TLC

CONSTANTS k1, k2, c1, c2, c3, o1, o2, a1, a2, taken

Symmetry ==
  Permutations({k1, k2}) \union Permutations({c1, c2, c3})
    \union Permutations({o1, o2}) \union Permutations({a1, a2})
=============================================================================
