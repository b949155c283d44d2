-------------------------- MODULE MCBuilderDrafts --------------------------
(***************************************************************************)
(* Small instances of BuilderDrafts for TLC: one tab with session storage   *)
(* and one without, or two of a kind.                                      *)
(***************************************************************************)
EXTENDS BuilderDrafts, TLC

CONSTANTS t1, t2
=============================================================================
