------------------------------ MODULE MCPlans ------------------------------
(***************************************************************************)
(* Three sides of plans for TLC, in one run: the execution of a plan whose *)
(* sources are fetched, what its operators do with rows, and what a query  *)
(* takes over from it.  A behaviour is about one of them and the others    *)
(* rest, finished.                                                         *)
(***************************************************************************)
EXTENDS MCLivePlan, MCDagOperators, MCDagPushdown

AtRest ==
  /\ limits = CHOOSE l \in Limits : TRUE
  /\ at = "returned" /\ outcome = "passed"
  /\ pending = {} /\ pass = {} /\ progressed = FALSE
  /\ current = Nothing /\ fetch = NoFetch
  /\ stored = {} /\ lasting = {}
  /\ clients = {} /\ limitReached = FALSE

DagAtRest ==
  /\ compiled = <<>> /\ runtime = <<>> /\ rows = <<>>
  /\ status = "done" /\ steps = 0
  /\ last = None /\ before = [left |-> <<>>, right |-> <<>>, shape |-> <<>>]

PushdownAtRest ==
  /\ proposal = [plan |-> 1, query |-> 1, pushed |-> 1]
  /\ stage = "refused"
  /\ plan = None /\ asked = None /\ answer = None

MCPlansInit ==
  \/ PlanInit /\ DagAtRest /\ PushdownAtRest
  \/ AtRest /\ MCInit /\ PushdownAtRest
  \/ AtRest /\ DagAtRest /\ PushdownInit

MCPlansNext ==
  \/ PlanNext /\ UNCHANGED <<dagVars, pushdownVars>>
  \/ status = "running" /\ DagNext /\ UNCHANGED <<planVars, pushdownVars>>
  \/ stage # "refused" /\ PushdownNext /\ UNCHANGED <<planVars, dagVars>>

MCPlansSpec ==
  /\ MCPlansInit
  /\ [][MCPlansNext]_<<planVars, dagVars, pushdownVars>>
  /\ WF_planVars(ExecutionStep)
=============================================================================
