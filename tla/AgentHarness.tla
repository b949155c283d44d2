---------------------------- MODULE AgentHarness ----------------------------
(***************************************************************************)
(* One exploration of the agent's harness: a pipeline of model calls and   *)
(* evidence retrievals that ends with a feasible plan, a clarification, an *)
(* unsupported claim or an error.  Models are not trusted: an output may   *)
(* be garbled, contradict the evidence or change what was agreed before.   *)
(* One output per exploration may be sent back for repair.                 *)
(*                                                                         *)
(* A candidate is a need, what kind of entity it offers it ("aggregation"  *)
(* or "entity") and whether its evidence is suitable.                      *)
(*                                                                         *)
(* A definition marked "Slip" is no part of the model: it is the one after *)
(* it with a plausible mistake, for testing the properties.                *)
(***************************************************************************)
EXTENDS Naturals

CONSTANTS
  Needs,    \* source requirements a plan may state
  Limits,   \* values of maxModelCalls
  Models,   \* identities a provider may answer with
  None      \* no answer yet

ASSUME HarnessAssumption ==
  /\ Limits \subseteq {n \in Nat : n >= 4}
  /\ None \notin Models

VARIABLES
  limit,     \* maxModelCalls of this harness
  at,        \* the step of explore that comes next
  calls,     \* modelCalls
  repairs,   \* repairCalls
  identity,  \* modelIdentity
  needs,     \* the needs of the accepted discovery plan
  formal,    \* those with a pre-aggregated alternative
  found,     \* the candidates discovery returned
  accepted,  \* the needs whose provider aggregation was admitted
  locked,    \* the entity selection: one candidate per need
  complete,  \* the presented evidence satisfies every required field
  plan,      \* the feasibility proposal under validation
  outcome    \* how the exploration ended

harnessVars ==
  <<limit, at, calls, repairs, identity, needs, formal, found, accepted,
    locked, complete, plan, outcome>>
budget == <<calls, repairs, identity>>
agreed == <<needs, formal, found, accepted, locked, complete>>

Candidates ==
  [need : Needs, kind : {"aggregation", "entity"}, suitable : BOOLEAN]

\* A feasibility proposal: the candidates it selects, and whether the rest of
\* it (bindings, query, window, composition) passes the deterministic checks.
Proposals == [picks : SUBSET Candidates, sound : BOOLEAN]
NoProposal == [picks |-> {}, sound |-> FALSE]

HarnessInit ==
  /\ limit \in Limits
  /\ at = "admit"
  /\ calls = 0
  /\ repairs = 0
  /\ identity = None
  /\ needs = {}
  /\ formal = {}
  /\ found = {}
  /\ accepted = {}
  /\ locked = {}
  /\ complete = FALSE
  /\ plan = NoProposal
  /\ outcome = "running"

\* The run moves on, or ends.
Continue(next) == at' = next /\ UNCHANGED outcome
End(result) == at' = "ended" /\ outcome' = result

-----------------------------------------------------------------------------
(* Calling the model *)

MayCall == calls < limit

\* An answer of an identified model counts.
CallAnswered ==
  /\ MayCall
  /\ calls' = calls + 1
  /\ \E m \in Models : identity' = IF identity = None THEN m ELSE identity

\* An answer from another model than before ends the run.
CallFromStranger ==
  /\ MayCall
  /\ calls' = calls + 1
  /\ \E m \in Models : identity \notin {None, m}
  /\ End("MODEL_IDENTITY_CHANGED")
  /\ UNCHANGED identity

\* The provider fails, the run is aborted or times out, or the answer is too big.
CallThrows ==
  /\ MayCall
  /\ End("MODEL_FAILED")
  /\ UNCHANGED <<calls, identity>>

CallRefused ==
  /\ ~MayCall
  /\ End("MODEL_CALL_LIMIT_EXCEEDED")
  /\ UNCHANGED <<calls, identity>>

\* The steps that wait for the model.
Asking == {"plan", "aggregate", "select", "bind", "repair plan",
           "repair aggregate", "repair select", "repair bind",
           "repair claim", "repair proposal"}

CallFails ==
  /\ at \in Asking
  /\ CallFromStranger \/ CallThrows \/ CallRefused
  /\ UNCHANGED <<limit, repairs, agreed, plan>>

\* The model calls the later stages may still need.
Reserved(step) ==
  CASE step = "plan" -> 3
    [] step = "aggregate" -> 2
    [] step = "select" -> 1
    [] OTHER -> 0

\* Slip: the calls of the later stages are not reserved.
MayRepairOutputGreedily(step) == repairs = 0 /\ calls + 2 <= limit

\* The call that is being parsed counts already.
MayRepairOutput(step) ==
  repairs = 0 /\ calls + 1 + 1 + Reserved(step) <= limit

MayRepairProposal == repairs = 0 /\ calls < limit

RepairOf(step) ==
  CASE step = "plan" -> "repair plan"
    [] step = "aggregate" -> "repair aggregate"
    [] step = "select" -> "repair select"
    [] OTHER -> "repair bind"

\* The output breaks the contract of its stage: one repair, or an error.
OutputGarbled(step) ==
  /\ at = step
  /\ CallAnswered
  /\ IF MayRepairOutput(step)
     THEN /\ repairs' = repairs + 1
          /\ Continue(RepairOf(step))
     ELSE /\ End("HARNESS_SCHEMA_ERROR")
          /\ UNCHANGED repairs
  /\ UNCHANGED <<limit, agreed, plan>>

\* A repaired output is not repaired again.
RepairGarbled ==
  /\ at \in {"repair plan", "repair aggregate", "repair select",
             "repair bind", "repair claim", "repair proposal"}
  /\ CallAnswered
  /\ End("HARNESS_SCHEMA_ERROR")
  /\ UNCHANGED <<limit, repairs, agreed, plan>>

\* Every planning stage may ask the creator instead of answering.  A repaired
\* proposal must be a proposal.
Clarification ==
  /\ at \in Asking \ {"repair proposal"}
  /\ CallAnswered
  /\ End("clarification")
  /\ UNCHANGED <<limit, repairs, agreed, plan>>

\* Before fields are presented, an unsupported claim is taken as it is, whatever
\* it is about: no stage before the last compares it with the evidence shown.
EarlyUnsupported ==
  /\ at \in {"plan", "repair plan", "aggregate", "repair aggregate",
             "select", "repair select"}
  /\ CallAnswered
  /\ End("unsupported")
  /\ UNCHANGED <<limit, repairs, agreed, plan>>

-----------------------------------------------------------------------------
(* Planning and discovery *)

Admit ==
  /\ at = "admit"
  /\ \/ Continue("plan")
     \/ End("INTENT_LIMIT_EXCEEDED")
  /\ UNCHANGED <<limit, budget, agreed, plan>>

\* validateSourceDiscoveryPlan and the settling of notes before it: a plan
\* whose searches do not cover its needs, or that is unsound otherwise, ends
\* the run.
DiscoveryPlanned ==
  /\ at \in {"plan", "repair plan"}
  /\ CallAnswered
  /\ \E stated \in SUBSET Needs, searched \in SUBSET Needs, sound \in BOOLEAN :
       IF stated # {} /\ searched = stated /\ sound
       THEN /\ needs' = stated
            /\ formal' \in SUBSET stated
            /\ Continue("discover")
       ELSE /\ End("DISCOVERY_PLAN_INVALID")
            /\ UNCHANGED <<needs, formal>>
  /\ UNCHANGED <<limit, repairs, found, accepted, locked, complete, plan>>

\* Candidates of one kind for a need; unsuitable ones are shown only where
\* there is no suitable one.
Shown(need, kind) ==
  LET inspected == {c \in found : c.need = need /\ c.kind = kind}
      suitable  == {c \in inspected : c.suitable}
  IN  IF suitable # {} THEN suitable ELSE inspected

AggregateEvidence == UNION {Shown(n, "aggregation") : n \in formal}

\* The candidates come from the provider; aggregations are put to the model
\* only where there are some.
Discover ==
  /\ at = "discover"
  /\ found' \in SUBSET {c \in Candidates : c.need \in needs}
  /\ Continue("retrieve")
  /\ UNCHANGED <<limit, budget, needs, formal, accepted, locked, complete, plan>>

RetrieveAggregates ==
  /\ at = "retrieve"
  /\ Continue(IF AggregateEvidence # {} THEN "aggregate" ELSE "accept")
  /\ UNCHANGED <<limit, budget, agreed, plan>>

\* Discovery, an embedding request or the provider behind it fails.
RetrievalThrows ==
  /\ at \in {"discover", "retrieve", "accept", "present"}
  /\ End("RETRIEVAL_FAILED")
  /\ UNCHANGED <<limit, budget, agreed, plan>>

-----------------------------------------------------------------------------
(* Aggregates and entities *)

\* validateAggregateSelection: shown, suitable, at most one per need.
AdmissibleAggregates(picks) ==
  /\ \A c \in picks : c \in AggregateEvidence /\ c.suitable
  /\ \A c, d \in picks : c.need = d.need => c = d

\* A decision for every need with an alternative: use a candidate, or fall
\* back.  Interval, dimensions and measures are "sound".
AggregatesSelected ==
  /\ at \in {"aggregate", "repair aggregate"}
  /\ CallAnswered
  /\ \E picks \in SUBSET {c \in Candidates : c.need \in formal /\ c.kind = "aggregation"},
        sound \in BOOLEAN :
       IF sound /\ AdmissibleAggregates(picks)
       THEN /\ accepted' = {c.need : c \in picks}
            /\ locked' = picks
            /\ Continue("accept")
       ELSE /\ End("AGGREGATE_SELECTION_INVALID")
            /\ UNCHANGED <<accepted, locked>>
  /\ UNCHANGED <<limit, repairs, needs, formal, found, complete, plan>>

\* Slip: only needs without an alternative are put to the model.
FallbackNeedsWithout == needs \ formal

FallbackNeeds == needs \ accepted

Accept ==
  /\ at = "accept"
  /\ Continue(IF FallbackNeeds # {} THEN "select" ELSE "lock")
  /\ UNCHANGED <<limit, budget, agreed, plan>>

RawEvidence == UNION {Shown(n, "entity") : n \in FallbackNeeds}

\* validateSourceEntitySelection: every fallback need once, by shown and
\* suitable evidence.
AdmissibleEntities(picks) ==
  /\ {c.need : c \in picks} = FallbackNeeds
  /\ \A c \in picks : c \in RawEvidence /\ c.suitable
  /\ \A c, d \in picks : c.need = d.need => c = d

EntitiesSelected ==
  /\ at \in {"select", "repair select"}
  /\ CallAnswered
  /\ \E picks \in SUBSET {c \in Candidates : c.need \in needs} :
       IF AdmissibleEntities(picks)
       THEN locked' = locked \union picks /\ Continue("lock")
       ELSE End("ENTITY_SELECTION_INVALID") /\ UNCHANGED locked
  /\ UNCHANGED <<limit, repairs, needs, formal, found, accepted, complete, plan>>

Lock ==
  /\ at = "lock"
  /\ Continue("present")
  /\ UNCHANGED <<limit, budget, agreed, plan>>

\* Field retrieval presents the evidence the last stage may bind.
PresentFields ==
  /\ at = "present"
  /\ complete' \in BOOLEAN
  /\ Continue("bind")
  /\ UNCHANGED <<limit, budget, needs, formal, found, accepted, locked, plan>>

-----------------------------------------------------------------------------
(* Feasibility *)

\* unsupportedSourceEvidenceConflict: the claim is about sources, and every
\* need has complete evidence among the fields presented.
Contradicted(aboutSources) == aboutSources /\ complete

ClaimConflict == End("FEASIBILITY_UNSUPPORTED_EVIDENCE_CONFLICT")

ClaimsUnsupported ==
  /\ at \in {"bind", "repair bind"}
  /\ CallAnswered
  /\ \E aboutSources \in BOOLEAN :
       IF ~Contradicted(aboutSources)
         THEN End("unsupported") /\ UNCHANGED repairs
       ELSE IF repairs = 0 /\ calls + 1 < limit
         THEN /\ repairs' = repairs + 1
              /\ Continue("repair claim")
       ELSE ClaimConflict /\ UNCHANGED repairs
  /\ UNCHANGED <<limit, agreed, plan>>

RepeatsClaim ==
  /\ at = "repair claim"
  /\ CallAnswered
  /\ \E aboutSources \in BOOLEAN :
       IF Contradicted(aboutSources) THEN ClaimConflict ELSE End("unsupported")
  /\ UNCHANGED <<limit, repairs, agreed, plan>>

\* A repaired proposal that is none.
RepairIsNoProposal ==
  /\ at = "repair proposal"
  /\ CallAnswered
  /\ End("FEASIBILITY_REPAIR_RESULT_INVALID")
  /\ UNCHANGED <<limit, repairs, agreed, plan>>

\* What a model may propose: a locked candidate per need, or one too few, or
\* one that is not locked.
Proposed ==
  \E sound \in BOOLEAN, picks \in {locked} \union {locked \ {c} : c \in locked}
                             \union {locked \union {c} : c \in found} :
    plan' = [picks |-> picks, sound |-> sound]

ProposesPlan ==
  /\ at \in {"bind", "repair bind", "repair claim"}
  /\ CallAnswered
  /\ Proposed
  /\ Continue("validate")
  /\ UNCHANGED <<limit, repairs, agreed>>

ProposesRepair ==
  /\ at = "repair proposal"
  /\ CallAnswered
  /\ Proposed
  /\ Continue("validate repair")
  /\ UNCHANGED <<limit, repairs, agreed>>

\* validateFeasibilityPlan: the admitted aggregates are unchanged, every need
\* is served once, by its locked candidate, and the rest is sound.
Feasible ==
  /\ {c \in locked : c.need \in accepted} \subseteq plan.picks
  /\ plan.picks \subseteq locked
  /\ {c.need : c \in plan.picks} = needs
  /\ plan.sound

ValidatePlan ==
  /\ at = "validate"
  /\ \/ /\ Feasible
        /\ End("feasibility")
        /\ UNCHANGED repairs
     \/ /\ ~Feasible
        /\ IF MayRepairProposal
           THEN /\ repairs' = repairs + 1
                /\ Continue("repair proposal")
           ELSE End("FEASIBILITY_INVALID") /\ UNCHANGED repairs
  /\ UNCHANGED <<limit, calls, identity, agreed, plan>>

\* Slip: the repaired proposal is taken as it is.
RepairPasses == TRUE

RepairFeasible == Feasible

ValidateRepair ==
  /\ at = "validate repair"
  /\ IF RepairFeasible
     THEN End("feasibility")
     ELSE End("FEASIBILITY_INVALID")
  /\ UNCHANGED <<limit, budget, agreed, plan>>

-----------------------------------------------------------------------------
HarnessNext ==
  \/ Admit \/ CallFails \/ RepairGarbled \/ Clarification \/ EarlyUnsupported
  \/ \E step \in {"plan", "aggregate", "select", "bind"} : OutputGarbled(step)
  \/ DiscoveryPlanned \/ Discover \/ RetrieveAggregates \/ RetrievalThrows
  \/ AggregatesSelected \/ Accept \/ EntitiesSelected \/ Lock \/ PresentFields
  \/ ClaimsUnsupported \/ RepeatsClaim \/ RepairIsNoProposal
  \/ ProposesPlan \/ ProposesRepair \/ ValidatePlan \/ ValidateRepair

HarnessSpec == HarnessInit /\ [][HarnessNext]_harnessVars

-----------------------------------------------------------------------------
(* Properties *)

Steps ==
  Asking \union {"admit", "discover", "retrieve", "accept", "lock", "present",
                 "validate", "validate repair", "ended"}

\* The run keeps its types.
HarnessTypeOK ==
  /\ limit \in Limits
  /\ at \in Steps
  /\ calls \in Nat /\ repairs \in Nat
  /\ identity \in Models \union {None}
  /\ needs \subseteq Needs /\ formal \subseteq needs /\ accepted \subseteq formal
  /\ found \subseteq Candidates /\ locked \subseteq found
  /\ complete \in BOOLEAN
  /\ plan \in Proposals
  /\ (outcome = "running") = (at # "ended")

\* A repair of an early stage never takes the call of a later one: with a
\* limit of at least four calls no run dies of the call limit, and none is
\* repaired twice.
BudgetSuffices ==
  /\ outcome # "MODEL_CALL_LIMIT_EXCEEDED"
  /\ calls <= limit
  /\ repairs <= 1

\* When fields are bound, each need has exactly one locked source, suitable,
\* found by discovery for that need, an aggregation exactly where one was
\* admitted.
EveryNeedHasOneSource ==
  at \in {"present", "bind", "validate", "validate repair"} =>
    /\ {c.need : c \in locked} = needs
    /\ \A c, d \in locked : c.need = d.need => c = d
    /\ \A c \in locked :
         c \in found /\ c.suitable /\ (c.kind = "aggregation") = (c.need \in accepted)

\* A plan that is returned, repaired or not, serves every need by the source
\* that was locked for it and keeps the admitted aggregations.
ReturnedPlanIsLocked ==
  outcome = "feasibility" => plan.picks = locked /\ plan.sound

=============================================================================
