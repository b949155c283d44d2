------------------------- MODULE AgentHarnessProofs -------------------------
(***************************************************************************)
(* For all needs, models and call limits of at least four: the harness     *)
(* keeps its types, has a call left for every stage, binds one source to   *)
(* every need and returns nothing else.                                    *)
(***************************************************************************)
EXTENDS AgentHarness, TLAPS

\* The steps before the candidates of aggregates are looked at.
Early == {"admit", "plan", "repair plan", "discover", "retrieve",
          "aggregate", "repair aggregate"}

\* Nothing has been accepted or locked before.
NothingLocked == at \in Early => accepted = {} /\ locked = {}

HarnessTypes == HarnessTypeOK /\ NothingLocked

-----------------------------------------------------------------------------
(* Types *)

\* What the model is shown has been found, for the need and of the kind asked.
LEMMA ShownIsFound ==
  ASSUME NEW need, NEW kind
  PROVE  Shown(need, kind) \subseteq {c \in found : c.need = need /\ c.kind = kind}
BY DEF Shown

LEMMA AggregatesAreFound ==
  \A c \in AggregateEvidence : c \in found /\ c.need \in formal /\ c.kind = "aggregation"
BY ShownIsFound DEF AggregateEvidence

LEMMA EntitiesAreFound ==
  \A c \in RawEvidence : c \in found /\ c.need \in FallbackNeeds /\ c.kind = "entity"
BY ShownIsFound DEF RawEvidence

\* An answer of the model is counted and its identity kept.
LEMMA AnswerTypes ==
  ASSUME calls \in Nat, identity \in Models \union {None}, CallAnswered
  PROVE  calls' \in Nat /\ identity' \in Models \union {None}
<1>1. calls' \in Nat
  BY DEF CallAnswered
<1>2. PICK m \in Models : identity' = IF identity = None THEN m ELSE identity
  BY DEF CallAnswered
<1>3. QED BY <1>1, <1>2

\* A call that fails is counted, or not.
LEMMA FailureTypes ==
  ASSUME calls \in Nat, CallFails
  PROVE  calls' \in Nat
BY DEF CallFails, CallFromStranger, CallThrows, CallRefused

\* A repair is counted.
LEMMA RepairTypes ==
  ASSUME repairs \in Nat, repairs' = repairs \/ repairs' = repairs + 1
  PROVE  repairs' \in Nat
OBVIOUS

\* What is proposed has the shape of a proposal.
LEMMA ProposedTypes ==
  ASSUME locked \subseteq found, found \subseteq Candidates, Proposed
  PROVE  plan' \in Proposals
<1>1. PICK sound \in BOOLEAN, picks \in SUBSET Candidates :
         plan' = [picks |-> picks, sound |-> sound]
  BY DEF Proposed
<1>2. QED BY <1>1 DEF Proposals

LEMMA HarnessTypesKept ==
  ASSUME HarnessTypes, [HarnessNext]_harnessVars
  PROVE  HarnessTypes'
<1> USE DEF HarnessTypes, HarnessTypeOK, NothingLocked, Early, Steps, Asking,
        Continue, End, agreed, budget
<1>1. CASE Admit
  BY <1>1 DEF Admit
<1>2. CASE CallFails
  <2>1. calls' \in Nat
    BY <1>2, FailureTypes
  <2>2. at' = "ended" /\ outcome' # "running"
    BY <1>2 DEF CallFails, CallFromStranger, CallThrows, CallRefused
  <2>3. UNCHANGED <<limit, repairs, agreed, plan, identity>>
    BY <1>2 DEF CallFails, CallFromStranger, CallThrows, CallRefused
  <2>4. QED BY <2>1, <2>2, <2>3
<1>3. CASE RepairGarbled
  BY <1>3, AnswerTypes DEF RepairGarbled
<1>4. CASE Clarification
  BY <1>4, AnswerTypes DEF Clarification
<1>5. CASE EarlyUnsupported
  BY <1>5, AnswerTypes DEF EarlyUnsupported
<1>6. CASE \E step \in {"plan", "aggregate", "select", "bind"} : OutputGarbled(step)
  <2>1. PICK step \in {"plan", "aggregate", "select", "bind"} : OutputGarbled(step)
    BY <1>6
  <2>2. calls' \in Nat /\ identity' \in Models \union {None}
    BY <2>1, AnswerTypes DEF OutputGarbled
  <2>3. UNCHANGED <<limit, agreed, plan>> /\ (repairs' = repairs \/ repairs' = repairs + 1)
    BY <2>1 DEF OutputGarbled
  <2>4. \/ at' = RepairOf(step) /\ UNCHANGED outcome
        \/ at' = "ended" /\ outcome' = "HARNESS_SCHEMA_ERROR"
    BY <2>1 DEF OutputGarbled
  <2>5. at = step
    BY <2>1 DEF OutputGarbled
  <2>6. repairs' \in Nat
    BY <2>3, RepairTypes
  <2>7. \/ /\ at' \in {"repair plan", "repair aggregate", "repair select", "repair bind"}
           /\ at' \in Early => at \in Early
           /\ UNCHANGED outcome
        \/ at' = "ended" /\ outcome' # "running"
    BY <2>4, <2>5 DEF RepairOf
  <2>8. at # "ended"
    BY <2>5
  <2>9. QED BY <2>2, <2>3, <2>6, <2>7, <2>8
<1>7. CASE DiscoveryPlanned
  <2>1. calls' \in Nat /\ identity' \in Models \union {None}
    BY <1>7, AnswerTypes DEF DiscoveryPlanned
  <2>2. /\ at \in {"plan", "repair plan"}
        /\ UNCHANGED <<limit, repairs, found, accepted, locked, complete, plan>>
    BY <1>7 DEF DiscoveryPlanned
  <2>3. \/ /\ needs' \subseteq Needs /\ formal' \subseteq needs'
           /\ at' = "discover" /\ UNCHANGED outcome
        \/ /\ UNCHANGED <<needs, formal>>
           /\ at' = "ended" /\ outcome' = "DISCOVERY_PLAN_INVALID"
    BY <1>7 DEF DiscoveryPlanned
  <2>4. QED BY <2>1, <2>2, <2>3
<1>8. CASE Discover
  BY <1>8 DEF Discover
<1>9. CASE RetrieveAggregates
  BY <1>9 DEF RetrieveAggregates
<1>10. CASE RetrievalThrows
  BY <1>10 DEF RetrievalThrows
<1>11. CASE AggregatesSelected
  <2>1. calls' \in Nat /\ identity' \in Models \union {None}
    BY <1>11, AnswerTypes DEF AggregatesSelected
  <2>2. /\ at \in {"aggregate", "repair aggregate"}
        /\ UNCHANGED <<limit, repairs, needs, formal, found, complete, plan>>
    BY <1>11 DEF AggregatesSelected
  <2>3. \/ \E picks \in SUBSET {c \in Candidates : c.need \in formal /\ c.kind = "aggregation"} :
             /\ AdmissibleAggregates(picks)
             /\ accepted' = {c.need : c \in picks} /\ locked' = picks
             /\ at' = "accept" /\ UNCHANGED outcome
        \/ /\ UNCHANGED <<accepted, locked>>
           /\ at' = "ended" /\ outcome' = "AGGREGATE_SELECTION_INVALID"
    BY <1>11 DEF AggregatesSelected
  <2>4. CASE UNCHANGED <<accepted, locked>> /\ at' = "ended"
             /\ outcome' = "AGGREGATE_SELECTION_INVALID"
    BY <2>1, <2>2, <2>4
  <2>5. CASE \E picks \in SUBSET {c \in Candidates : c.need \in formal /\ c.kind = "aggregation"} :
               /\ AdmissibleAggregates(picks)
               /\ accepted' = {c.need : c \in picks} /\ locked' = picks
               /\ at' = "accept" /\ UNCHANGED outcome
    <3>1. PICK picks \in SUBSET {c \in Candidates : c.need \in formal /\ c.kind = "aggregation"} :
               /\ AdmissibleAggregates(picks)
               /\ accepted' = {c.need : c \in picks} /\ locked' = picks
               /\ at' = "accept" /\ UNCHANGED outcome
      BY <2>5
    <3>2. picks \subseteq found
      BY <3>1, AggregatesAreFound DEF AdmissibleAggregates
    <3>3. {c.need : c \in picks} \subseteq formal
      OBVIOUS
    <3>4. accepted' \subseteq formal' /\ locked' \subseteq found'
      BY <2>2, <3>1, <3>2, <3>3
    <3>5. QED BY <2>1, <2>2, <3>1, <3>4
  <2>6. QED BY <2>3, <2>4, <2>5
<1>12. CASE Accept
  BY <1>12 DEF Accept
<1>13. CASE EntitiesSelected
  <2>1. calls' \in Nat /\ identity' \in Models \union {None}
    BY <1>13, AnswerTypes DEF EntitiesSelected
  <2>2. /\ at \in {"select", "repair select"}
        /\ UNCHANGED <<limit, repairs, needs, formal, found, accepted, complete, plan>>
    BY <1>13 DEF EntitiesSelected
  <2>3. \/ \E picks : /\ AdmissibleEntities(picks) /\ locked' = locked \union picks
                      /\ at' = "lock" /\ UNCHANGED outcome
        \/ /\ UNCHANGED locked
           /\ at' = "ended" /\ outcome' = "ENTITY_SELECTION_INVALID"
    BY <1>13 DEF EntitiesSelected
  <2>4. locked' \subseteq found'
    BY <2>2, <2>3, EntitiesAreFound DEF AdmissibleEntities
  <2>5. QED BY <2>1, <2>2, <2>3, <2>4
<1>14. CASE Lock
  BY <1>14 DEF Lock
<1>15. CASE PresentFields
  BY <1>15 DEF PresentFields
<1>16. CASE ClaimsUnsupported
  <2>1. calls' \in Nat /\ identity' \in Models \union {None}
    BY <1>16, AnswerTypes DEF ClaimsUnsupported
  <2>2. /\ repairs' = repairs \/ repairs' = repairs + 1
        /\ UNCHANGED <<limit, agreed, plan>>
    BY <1>16 DEF ClaimsUnsupported
  <2>3. \/ at' = "repair claim" /\ UNCHANGED outcome
        \/ at' = "ended" /\ outcome' # "running"
    BY <1>16 DEF ClaimsUnsupported, ClaimConflict
  <2>4. at # "ended"
    BY <1>16 DEF ClaimsUnsupported
  <2>5. repairs' \in Nat
    BY <2>2, RepairTypes
  <2>6. QED BY <2>1, <2>2, <2>3, <2>4, <2>5
<1>17. CASE RepeatsClaim
  <2>1. calls' \in Nat /\ identity' \in Models \union {None}
    BY <1>17, AnswerTypes DEF RepeatsClaim
  <2>2. /\ UNCHANGED <<limit, repairs, agreed, plan>>
        /\ at' = "ended" /\ outcome' # "running"
    BY <1>17 DEF RepeatsClaim, ClaimConflict
  <2>3. QED BY <2>1, <2>2
<1>18. CASE RepairIsNoProposal
  BY <1>18, AnswerTypes DEF RepairIsNoProposal
<1>19. ASSUME Proposed PROVE plan' \in Proposals
  BY <1>19, ProposedTypes
<1>20. CASE ProposesPlan
  <2>1. calls' \in Nat /\ identity' \in Models \union {None}
    BY <1>20, AnswerTypes DEF ProposesPlan
  <2>2. QED BY <1>19, <1>20, <2>1 DEF ProposesPlan
<1>21. CASE ProposesRepair
  <2>1. calls' \in Nat /\ identity' \in Models \union {None}
    BY <1>21, AnswerTypes DEF ProposesRepair
  <2>2. QED BY <1>19, <1>21, <2>1 DEF ProposesRepair
<1>22. CASE ValidatePlan
  <2>1. /\ repairs' = repairs \/ repairs' = repairs + 1
        /\ UNCHANGED <<limit, calls, identity, agreed, plan>>
        /\ at = "validate"
        /\ \/ at' = "repair proposal" /\ UNCHANGED outcome
           \/ at' = "ended" /\ outcome' # "running"
    BY <1>22 DEF ValidatePlan
  <2>2. repairs' \in Nat
    BY <2>1, RepairTypes
  <2>3. QED BY <2>1, <2>2
<1>23. CASE ValidateRepair
  BY <1>23 DEF ValidateRepair
<1>24. CASE UNCHANGED harnessVars
  BY <1>24 DEF harnessVars
<1>25. QED
  BY <1>1, <1>2, <1>3, <1>4, <1>5, <1>6, <1>7, <1>8, <1>9, <1>10, <1>11, <1>12, <1>13, <1>14,
     <1>15, <1>16, <1>17, <1>18, <1>20, <1>21, <1>22, <1>23, <1>24 DEF HarnessNext

LEMMA HarnessTypesInitially == HarnessInit => HarnessTypes
<1> SUFFICES ASSUME HarnessInit PROVE HarnessTypes
  OBVIOUS
<1>1. NoProposal \in Proposals
  BY DEF NoProposal, Proposals
<1>2. at \in Steps /\ (outcome = "running") = (at # "ended")
  BY DEF HarnessInit, Steps
<1>3. NothingLocked
  BY DEF HarnessInit, NothingLocked
<1>4. QED BY <1>1, <1>2, <1>3 DEF HarnessInit, HarnessTypes, HarnessTypeOK

\* The harness keeps its types: it accepts only alternatives of stated needs
\* and locks only what discovery found.
THEOREM HarnessTypesHold == HarnessSpec => []HarnessTypeOK
<1>1. HarnessSpec => []HarnessTypes
  BY HarnessTypesInitially, HarnessTypesKept, PTL DEF HarnessSpec
<1>2. HarnessTypes => HarnessTypeOK
  BY DEF HarnessTypes
<1>3. QED BY <1>1, <1>2, PTL
-----------------------------------------------------------------------------
(* The call budget *)

\* A run can still make n calls.
Left(n) == calls + n <= limit

\* There are the calls this stage and those after it may need.
Room ==
  /\ at \in {"admit", "plan", "repair plan"} => Left(4)
  /\ at \in {"discover", "retrieve", "aggregate", "repair aggregate"} => Left(3)
  /\ at \in {"accept", "select", "repair select"} => Left(2)
  /\ at \in {"lock", "present", "bind", "repair bind", "repair claim", "repair proposal"}
       => Left(1)
  /\ Left(0)

BudgetInv == Room /\ repairs <= 1 /\ outcome # "MODEL_CALL_LIMIT_EXCEEDED"

BudgetTypes == calls \in Nat /\ repairs \in Nat /\ limit \in Nat

LEMMA BudgetTypesFollow == HarnessTypes => BudgetTypes
BY HarnessAssumption DEF HarnessTypes, HarnessTypeOK, BudgetTypes
\* Calls that are left for more are left for less.
LEMMA LeftForLess ==
  ASSUME BudgetTypes
  PROVE  /\ Left(4) => Left(3)
         /\ Left(3) => Left(2)
         /\ Left(2) => Left(1)
         /\ Left(1) <=> calls < limit
BY DEF BudgetTypes, Left

\* An answered call takes one.
LEMMA LeftAfterCall ==
  ASSUME BudgetTypes, calls' = calls + 1, UNCHANGED limit
  PROVE  /\ Left(4) => Left(3)'
         /\ Left(3) => Left(2)'
         /\ Left(2) => Left(1)'
         /\ Left(1) => Left(0)'
BY DEF BudgetTypes, Left

LEMMA LeftAfterRepair ==
  ASSUME BudgetTypes, calls' = calls + 1, UNCHANGED limit
  PROVE  /\ calls + 1 + 1 + 3 <= limit => Left(4)'
         /\ calls + 1 + 1 + 2 <= limit => Left(3)'
         /\ calls + 1 + 1 + 1 <= limit => Left(2)'
         /\ calls + 1 + 1 + 0 <= limit => Left(1)'
         /\ calls + 1 < limit => Left(1)'
         /\ calls < limit => Left(0)'
BY DEF BudgetTypes, Left

LEMMA FirstRepair ==
  ASSUME repairs = 0, repairs' = repairs + 1
  PROVE  repairs' <= 1
OBVIOUS

LEMMA LeftUnchanged ==
  ASSUME UNCHANGED <<calls, limit>>
  PROVE  \A n : Left(n) <=> Left(n)'
BY DEF Left

\* A run that ends within its limits keeps its budget.
LEMMA EndsInBudget ==
  ASSUME BudgetTypes, BudgetInv, UNCHANGED limit, at' = "ended",
         outcome' # "MODEL_CALL_LIMIT_EXCEEDED",
         \/ UNCHANGED calls
         \/ calls < limit /\ calls' = calls + 1,
         UNCHANGED repairs
  PROVE  BudgetInv'
<1>1. Left(0)'
  BY LeftUnchanged, LeftForLess, LeftAfterCall DEF BudgetInv, Room
<1>2. Room'
  BY <1>1 DEF Room
<1>3. QED BY <1>2 DEF BudgetInv

\* A step that waits for the model has its call.
LEMMA AskingHasItsCall ==
  ASSUME BudgetTypes, BudgetInv, at \in Asking
  PROVE  calls < limit
BY LeftForLess DEF BudgetInv, Room, Asking

LEMMA AnswerCounts ==
  ASSUME CallAnswered
  PROVE  calls < limit /\ calls' = calls + 1
BY DEF CallAnswered, MayCall

\* An output is sent back only if the stages after it keep their calls.
LEMMA GarbledKeepsBudget ==
  ASSUME BudgetTypes, BudgetInv, NEW step \in {"plan", "aggregate", "select", "bind"},
         OutputGarbled(step)
  PROVE  BudgetInv'
<1>1. /\ calls < limit /\ calls' = calls + 1 /\ UNCHANGED limit
  BY AnswerCounts DEF OutputGarbled
<1>2. CASE MayRepairOutput(step)
  <2>1. /\ repairs' = repairs + 1 /\ at' = RepairOf(step) /\ UNCHANGED outcome
    BY <1>2 DEF OutputGarbled, Continue
  <2>2. repairs = 0 /\ calls + 1 + 1 + Reserved(step) <= limit
    BY <1>2 DEF MayRepairOutput
  <2>3. \/ at' = "repair plan" /\ Reserved(step) = 3
        \/ at' = "repair aggregate" /\ Reserved(step) = 2
        \/ at' = "repair select" /\ Reserved(step) = 1
        \/ at' = "repair bind" /\ Reserved(step) = 0
    BY <2>1 DEF RepairOf, Reserved
  <2>4. /\ at' = "repair plan" => Left(4)'
        /\ at' = "repair aggregate" => Left(3)'
        /\ at' = "repair select" => Left(2)'
        /\ at' = "repair bind" => Left(1)'
        /\ Left(0)'
    BY <1>1, <2>2, <2>3, LeftAfterRepair
  <2>5. Room'
    BY <2>3, <2>4 DEF Room
  <2>6. QED BY <2>1, <2>2, <2>5, FirstRepair DEF BudgetInv
<1>3. CASE ~MayRepairOutput(step)
  <2>1. UNCHANGED repairs /\ at' = "ended" /\ outcome' = "HARNESS_SCHEMA_ERROR"
    BY <1>3 DEF OutputGarbled, End
  <2>2. QED BY <1>1, <2>1, EndsInBudget
<1>4. QED BY <1>2, <1>3

LEMMA BudgetKept ==
  ASSUME HarnessTypes, BudgetInv, [HarnessNext]_harnessVars
  PROVE  BudgetInv'
<1>1. BudgetTypes
  BY BudgetTypesFollow
<1> USE <1>1 DEF BudgetInv, Room, Continue, End, agreed, budget
<1>2. CASE Admit
  BY <1>2, LeftUnchanged, LeftForLess DEF Admit
<1>3. CASE CallFails
  <2>1. calls < limit
    BY <1>3, AskingHasItsCall DEF CallFails
  <2>2. /\ UNCHANGED limit /\ UNCHANGED repairs
        /\ at' = "ended" /\ outcome' # "MODEL_CALL_LIMIT_EXCEEDED"
        /\ UNCHANGED calls \/ calls' = calls + 1
    BY <1>3, <2>1 DEF CallFails, CallFromStranger, CallThrows, CallRefused, MayCall
  <2>3. QED BY <2>1, <2>2, EndsInBudget
<1>4. CASE RepairGarbled
  BY <1>4, AnswerCounts, EndsInBudget DEF RepairGarbled
<1>5. CASE Clarification
  BY <1>5, AnswerCounts, EndsInBudget DEF Clarification
<1>6. CASE EarlyUnsupported
  BY <1>6, AnswerCounts, EndsInBudget DEF EarlyUnsupported
<1>7. CASE \E step \in {"plan", "aggregate", "select", "bind"} : OutputGarbled(step)
  BY <1>7, GarbledKeepsBudget
<1>11. CASE DiscoveryPlanned
  <2>1. calls < limit /\ calls' = calls + 1 /\ UNCHANGED <<limit, repairs>>
    BY <1>11, AnswerCounts DEF DiscoveryPlanned
  <2>2. \/ at' = "discover" /\ UNCHANGED outcome
        \/ at' = "ended" /\ outcome' = "DISCOVERY_PLAN_INVALID"
    BY <1>11 DEF DiscoveryPlanned
  <2>3. at \in {"plan", "repair plan"}
    BY <1>11 DEF DiscoveryPlanned
  <2>4. CASE at' = "discover" /\ UNCHANGED outcome
    BY <2>1, <2>3, <2>4, LeftForLess, LeftAfterCall
  <2>5. QED BY <2>1, <2>2, <2>4, EndsInBudget
<1>12. CASE Discover
  BY <1>12, LeftUnchanged, LeftForLess DEF Discover
<1>13. CASE RetrieveAggregates
  BY <1>13, LeftUnchanged, LeftForLess DEF RetrieveAggregates
<1>14. CASE RetrievalThrows
  BY <1>14, LeftUnchanged, LeftForLess DEF RetrievalThrows
<1>15. CASE AggregatesSelected
  <2>1. calls < limit /\ calls' = calls + 1 /\ UNCHANGED <<limit, repairs>>
    BY <1>15, AnswerCounts DEF AggregatesSelected
  <2>2. \/ at' = "accept" /\ UNCHANGED outcome
        \/ at' = "ended" /\ outcome' = "AGGREGATE_SELECTION_INVALID"
    BY <1>15 DEF AggregatesSelected
  <2>3. at \in {"aggregate", "repair aggregate"}
    BY <1>15 DEF AggregatesSelected
  <2>4. CASE at' = "accept" /\ UNCHANGED outcome
    BY <2>1, <2>3, <2>4, LeftForLess, LeftAfterCall
  <2>5. QED BY <2>1, <2>2, <2>4, EndsInBudget
<1>16. CASE Accept
  BY <1>16, LeftUnchanged, LeftForLess DEF Accept
<1>17. CASE EntitiesSelected
  <2>1. calls < limit /\ calls' = calls + 1 /\ UNCHANGED <<limit, repairs>>
    BY <1>17, AnswerCounts DEF EntitiesSelected
  <2>2. \/ at' = "lock" /\ UNCHANGED outcome
        \/ at' = "ended" /\ outcome' = "ENTITY_SELECTION_INVALID"
    BY <1>17 DEF EntitiesSelected
  <2>3. at \in {"select", "repair select"}
    BY <1>17 DEF EntitiesSelected
  <2>4. CASE at' = "lock" /\ UNCHANGED outcome
    BY <2>1, <2>3, <2>4, LeftForLess, LeftAfterCall
  <2>5. QED BY <2>1, <2>2, <2>4, EndsInBudget
<1>18. CASE Lock
  BY <1>18, LeftUnchanged, LeftForLess DEF Lock
<1>19. CASE PresentFields
  BY <1>19, LeftUnchanged, LeftForLess DEF PresentFields
<1>20. CASE ClaimsUnsupported
  <2>1. calls < limit /\ calls' = calls + 1 /\ UNCHANGED limit
    BY <1>20, AnswerCounts DEF ClaimsUnsupported
  <2>2. \/ /\ repairs = 0 /\ repairs' = repairs + 1 /\ calls + 1 < limit
           /\ at' = "repair claim" /\ UNCHANGED outcome
        \/ /\ UNCHANGED repairs /\ at' = "ended"
           /\ outcome' # "MODEL_CALL_LIMIT_EXCEEDED"
    BY <1>20 DEF ClaimsUnsupported, ClaimConflict
  <2>3. CASE /\ repairs = 0 /\ repairs' = repairs + 1 /\ calls + 1 < limit
             /\ at' = "repair claim" /\ UNCHANGED outcome
    <3>1. Left(1)' /\ Left(0)'
      BY <2>1, <2>3, LeftAfterRepair
    <3>2. repairs' <= 1
      BY <2>3, FirstRepair
    <3>3. QED BY <2>3, <3>1, <3>2
  <2>4. QED BY <2>1, <2>2, <2>3, EndsInBudget
<1>21. CASE RepeatsClaim
  BY <1>21, AnswerCounts, EndsInBudget DEF RepeatsClaim, ClaimConflict
<1>22. CASE RepairIsNoProposal
  BY <1>22, AnswerCounts, EndsInBudget DEF RepairIsNoProposal
<1>23. CASE ProposesPlan
  BY <1>23, AnswerCounts, LeftForLess, LeftAfterCall DEF ProposesPlan
<1>24. CASE ProposesRepair
  BY <1>24, AnswerCounts, LeftForLess, LeftAfterCall DEF ProposesRepair
<1>25. CASE ValidatePlan
  <2>1. \/ /\ repairs = 0 /\ repairs' = repairs + 1 /\ calls < limit
           /\ at' = "repair proposal" /\ UNCHANGED outcome
        \/ /\ UNCHANGED repairs /\ at' = "ended"
           /\ outcome' # "MODEL_CALL_LIMIT_EXCEEDED"
    BY <1>25 DEF ValidatePlan, MayRepairProposal
  <2>2. UNCHANGED <<limit, calls>>
    BY <1>25 DEF ValidatePlan
  <2>3. Left(0)' /\ (calls < limit => Left(1)')
    BY <2>2, LeftUnchanged, LeftForLess DEF ValidatePlan
  <2>4. QED BY <2>1, <2>2, <2>3, FirstRepair
<1>26. CASE ValidateRepair
  BY <1>26, LeftUnchanged, LeftForLess DEF ValidateRepair
<1>27. CASE UNCHANGED harnessVars
  BY <1>27, LeftUnchanged DEF harnessVars
<1>28. QED
  BY <1>2, <1>3, <1>4, <1>5, <1>6, <1>7, <1>11, <1>12, <1>13, <1>14, <1>15, <1>16,
      <1>17, <1>18, <1>19, <1>20, <1>21, <1>22, <1>23, <1>24, <1>25, <1>26, <1>27
     DEF HarnessNext

\* Whatever the models answer, every stage finds its call unused: no run dies
\* of the call limit, and at most one output is repaired.
THEOREM BudgetAlwaysSuffices == HarnessSpec => []BudgetSuffices
<1>1. HarnessInit => BudgetInv
  <2> SUFFICES ASSUME HarnessInit PROVE BudgetInv
    OBVIOUS
  <2>1. limit \in Nat /\ limit >= 4 /\ calls = 0 /\ repairs = 0
    BY HarnessAssumption DEF HarnessInit
  <2>2. Left(4) /\ Left(0)
    BY <2>1 DEF Left
  <2>3. QED BY <2>1, <2>2 DEF HarnessInit, BudgetInv, Room
<1>2. HarnessTypes /\ BudgetInv /\ [HarnessNext]_harnessVars
      => (HarnessTypes /\ BudgetInv)'
  BY HarnessTypesKept, BudgetKept
<1>3. HarnessTypes /\ BudgetInv => BudgetSuffices
  <2> SUFFICES ASSUME HarnessTypes, BudgetInv PROVE BudgetSuffices
    OBVIOUS
  <2>1. calls \in Nat /\ limit \in Nat /\ calls + 0 <= limit
    BY BudgetTypesFollow DEF BudgetTypes, BudgetInv, Room, Left
  <2>2. calls <= limit
    BY <2>1
  <2>3. QED BY <2>2 DEF BudgetInv, BudgetSuffices
<1>4. QED
  BY HarnessTypesInitially, <1>1, <1>2, <1>3, PTL DEF HarnessSpec

-----------------------------------------------------------------------------
(* One source for every need *)

\* A locked candidate was found, is suitable, and an aggregation exactly where
\* one was accepted.
Admitted(c) ==
  c \in found /\ c.suitable /\ (c.kind = "aggregation") = (c.need \in accepted)

OnePerNeed(picks) == \A c, d \in picks : c.need = d.need => c = d

NeedsOf(picks) == {c.need : c \in picks}

\* While entities are selected, the accepted needs have their source; then
\* every need has.
Selecting == {"accept", "select", "repair select"}
Covered ==
  /\ at \in Selecting => NeedsOf(locked) = accepted
  /\ at \notin Early \union Selecting \union {"ended"} => NeedsOf(locked) = needs

LockInv == Covered /\ OnePerNeed(locked) /\ \A c \in locked : Admitted(c)

\* A step that keeps what was agreed, and moves on within the same part of the
\* run or ends it.
LEMMA LockUnchanged ==
  ASSUME LockInv, UNCHANGED agreed,
         \/ at' \in Selecting /\ at \in Selecting
         \/ at' \in Early \union {"ended"}
         \/ at \notin Early \union Selecting \union {"ended"}
            /\ at' \notin Early \union Selecting \union {"ended"}
         \/ UNCHANGED at
  PROVE  LockInv'
<1>1. UNCHANGED <<needs, found, accepted, locked>>
  BY DEF agreed
<1>2. NeedsOf(locked)' = NeedsOf(locked)
  BY <1>1 DEF NeedsOf
<1>3. Covered'
  BY <1>1, <1>2 DEF LockInv, Covered, Early, Selecting
<1>4. OnePerNeed(locked)' /\ (\A c \in locked : Admitted(c))'
  BY <1>1 DEF LockInv, OnePerNeed, Admitted
<1>5. QED BY <1>3, <1>4 DEF LockInv

\* An end keeps the invariant where no source has been locked since.
LEMMA EndKeepsLock ==
  ASSUME LockInv, at' = "ended", UNCHANGED <<found, accepted, locked>>
  PROVE  LockInv'
<1>1. Covered'
  BY DEF Covered, Early, Selecting
<1>2. OnePerNeed(locked)' /\ (\A c \in locked : Admitted(c))'
  BY DEF LockInv, OnePerNeed, Admitted
<1>3. QED BY <1>1, <1>2 DEF LockInv

\* Before anything is locked there is nothing to keep.
LEMMA NothingIsLocked ==
  ASSUME locked' = {}, at' \in Early
  PROVE  LockInv'
BY DEF LockInv, Covered, OnePerNeed, Early, Selecting

\* Admitting aggregates: one suitable candidate for each need accepted.
LEMMA AggregatesKeepLock ==
  ASSUME HarnessTypes, LockInv, AggregatesSelected
  PROVE  LockInv'
<1>1. /\ at' = "ended" /\ UNCHANGED <<accepted, locked, found>>
      \/ \E picks \in SUBSET {c \in Candidates : c.need \in formal /\ c.kind = "aggregation"} :
           /\ AdmissibleAggregates(picks)
           /\ accepted' = {c.need : c \in picks} /\ locked' = picks
           /\ at' = "accept" /\ UNCHANGED found
  BY DEF AggregatesSelected, Continue, End
<1>2. CASE \E picks \in SUBSET {c \in Candidates : c.need \in formal /\ c.kind = "aggregation"} :
             /\ AdmissibleAggregates(picks)
             /\ accepted' = {c.need : c \in picks} /\ locked' = picks
             /\ at' = "accept" /\ UNCHANGED found
  <2>1. PICK picks \in SUBSET {c \in Candidates : c.need \in formal /\ c.kind = "aggregation"} :
             /\ AdmissibleAggregates(picks)
             /\ accepted' = {c.need : c \in picks} /\ locked' = picks
             /\ at' = "accept" /\ UNCHANGED found
    BY <1>2
  <2>2. Covered'
    BY <2>1 DEF Covered, NeedsOf, Selecting, Early
  <2>3. OnePerNeed(locked)'
    BY <2>1 DEF OnePerNeed, AdmissibleAggregates
  <2>4. ASSUME NEW c \in locked' PROVE Admitted(c)'
    <3>1. c \in picks /\ c.suitable /\ c.kind = "aggregation" /\ c \in found
      BY <2>1, <2>4, AggregatesAreFound DEF AdmissibleAggregates
    <3>2. c.need \in accepted'
      BY <2>1, <3>1
    <3>3. QED BY <2>1, <3>1, <3>2 DEF Admitted
  <2>5. QED BY <2>2, <2>3, <2>4 DEF LockInv
<1>3. QED BY <1>1, <1>2, EndKeepsLock

\* Selecting entities: one suitable candidate for each need that is left.
LEMMA EntitiesKeepLock ==
  ASSUME HarnessTypes, LockInv, EntitiesSelected
  PROVE  LockInv'
<1>1. UNCHANGED <<needs, found, accepted>> /\ at \in Selecting
  BY DEF EntitiesSelected, Selecting
<1>2. \/ at' = "ended" /\ UNCHANGED locked
      \/ \E picks : /\ AdmissibleEntities(picks)
                    /\ locked' = locked \union picks /\ at' = "lock"
  BY DEF EntitiesSelected, Continue, End
<1>3. ASSUME NEW picks, AdmissibleEntities(picks), locked' = locked \union picks, at' = "lock"
      PROVE  LockInv'
  <2>1. NeedsOf(locked) = accepted /\ NeedsOf(picks) = needs \ accepted
    BY <1>1, <1>3 DEF LockInv, Covered, AdmissibleEntities, FallbackNeeds, NeedsOf
  <2>2. accepted \subseteq needs
    BY DEF HarnessTypes, HarnessTypeOK
  <2>3. NeedsOf(locked)' = NeedsOf(locked) \union NeedsOf(picks)
    BY <1>3 DEF NeedsOf
  <2>4. NeedsOf(locked)' = needs'
    BY <1>1, <2>1, <2>2, <2>3
  <2>5. Covered'
    BY <1>3, <2>4 DEF Covered, Selecting
  <2>6. \A c \in locked, d \in picks : c.need # d.need
    BY <2>1 DEF NeedsOf
  <2>7. \A c, d \in picks : c.need = d.need => c = d
    BY <1>3 DEF AdmissibleEntities
  <2>8. OnePerNeed(locked)'
    BY <1>3, <2>6, <2>7 DEF LockInv, OnePerNeed
  <2>9. ASSUME NEW c \in picks PROVE Admitted(c)
    <3>1. c \in found /\ c.suitable /\ c.kind = "entity" /\ c.need \in FallbackNeeds
      BY <1>3, EntitiesAreFound DEF AdmissibleEntities
    <3>2. c.need \notin accepted
      BY <3>1 DEF FallbackNeeds
    <3>3. QED BY <3>1, <3>2 DEF Admitted
  <2>10. \A c \in locked \union picks : Admitted(c)
    BY <2>9 DEF LockInv
  <2>11. (\A c \in locked : Admitted(c))'
    BY <1>1, <1>3, <2>10 DEF Admitted
  <2>12. QED BY <2>5, <2>8, <2>11 DEF LockInv
<1>4. QED BY <1>1, <1>2, <1>3, EndKeepsLock

LEMMA LockKept ==
  ASSUME HarnessTypes, LockInv, [HarnessNext]_harnessVars
  PROVE  LockInv'
<1> USE DEF Continue, End
<1>1. CASE Admit
  BY <1>1, LockUnchanged DEF Admit, Early
<1>2. CASE CallFails
  BY <1>2, LockUnchanged DEF CallFails, CallFromStranger, CallThrows, CallRefused
<1>3. CASE RepairGarbled
  BY <1>3, LockUnchanged DEF RepairGarbled
<1>4. CASE Clarification
  BY <1>4, LockUnchanged DEF Clarification
<1>5. CASE EarlyUnsupported
  BY <1>5, LockUnchanged DEF EarlyUnsupported
<1>6. CASE \E step \in {"plan", "aggregate", "select", "bind"} : OutputGarbled(step)
  <2>1. PICK step \in {"plan", "aggregate", "select", "bind"} : OutputGarbled(step)
    BY <1>6
  <2>2. at = step /\ (at' = RepairOf(step) \/ at' = "ended") /\ UNCHANGED agreed
    BY <2>1 DEF OutputGarbled
  <2>3. \/ at' \in {"repair plan", "repair aggregate"}
        \/ at \in Selecting /\ at' = "repair select"
        \/ at = "bind" /\ at' = "repair bind"
        \/ at' = "ended"
    BY <2>2 DEF RepairOf, Selecting
  <2>4. QED BY <2>2, <2>3, LockUnchanged DEF Early, Selecting
<1>7. CASE DiscoveryPlanned
  <2>1. at \in Early /\ UNCHANGED <<found, accepted, locked>>
        /\ at' \in {"discover", "ended"}
    BY <1>7 DEF DiscoveryPlanned, Early
  <2>2. locked' = {}
    BY <2>1 DEF HarnessTypes, NothingLocked
  <2>3. QED BY <2>1, <2>2, EndKeepsLock, NothingIsLocked DEF Early
<1>8. CASE Discover
  <2>1. at \in Early /\ UNCHANGED locked /\ at' = "retrieve"
    BY <1>8 DEF Discover, Early
  <2>2. locked' = {}
    BY <2>1 DEF HarnessTypes, NothingLocked
  <2>3. QED BY <2>1, <2>2, NothingIsLocked DEF Early
<1>9. CASE RetrieveAggregates
  <2>1. at = "retrieve" /\ UNCHANGED agreed /\ at' \in {"aggregate", "accept"}
    BY <1>9 DEF RetrieveAggregates
  <2>2. accepted' = {} /\ locked' = {}
    BY <2>1 DEF HarnessTypes, NothingLocked, Early, agreed
  <2>3. NeedsOf(locked)' = accepted'
    BY <2>2 DEF NeedsOf
  <2>4. Covered'
    BY <2>1, <2>3 DEF Covered, Early, Selecting
  <2>5. QED BY <2>2, <2>4 DEF LockInv, OnePerNeed
<1>10. CASE RetrievalThrows
  BY <1>10, LockUnchanged DEF RetrievalThrows
<1>11. CASE AggregatesSelected
  BY <1>11, AggregatesKeepLock
<1>12. CASE Accept
  <2>1. UNCHANGED agreed /\ at = "accept"
        /\ at' = IF FallbackNeeds # {} THEN "select" ELSE "lock"
    BY <1>12 DEF Accept
  <2>2. CASE FallbackNeeds # {}
    BY <2>1, <2>2, LockUnchanged DEF Selecting
  <2>3. CASE FallbackNeeds = {}
    <3>1. needs = accepted /\ NeedsOf(locked) = accepted
      BY <2>1, <2>3 DEF HarnessTypes, HarnessTypeOK, FallbackNeeds, LockInv, Covered, Selecting
    <3>2. UNCHANGED <<needs, found, accepted, locked>>
      BY <2>1 DEF agreed
    <3>3. NeedsOf(locked)' = needs'
      BY <3>1, <3>2 DEF NeedsOf
    <3>4. at' = "lock"
      BY <2>1, <2>3
    <3>5. Covered'
      BY <3>3, <3>4 DEF Covered, Selecting
    <3>6. OnePerNeed(locked)' /\ (\A c \in locked : Admitted(c))'
      BY <3>2 DEF LockInv, OnePerNeed, Admitted
    <3>7. QED BY <3>5, <3>6 DEF LockInv
  <2>4. QED BY <2>2, <2>3
<1>13. CASE EntitiesSelected
  BY <1>13, EntitiesKeepLock
<1>14. CASE Lock
  BY <1>14, LockUnchanged DEF Lock, Early, Selecting
<1>15. CASE PresentFields
  <2>1. at = "present" /\ at' = "bind" /\ UNCHANGED <<needs, found, accepted, locked>>
    BY <1>15 DEF PresentFields
  <2>2. NeedsOf(locked)' = needs'
    BY <2>1 DEF LockInv, Covered, Early, Selecting, NeedsOf
  <2>3. Covered'
    BY <2>1, <2>2 DEF Covered, Selecting
  <2>4. OnePerNeed(locked)' /\ (\A c \in locked : Admitted(c))'
    BY <2>1 DEF LockInv, OnePerNeed, Admitted
  <2>5. QED BY <2>3, <2>4 DEF LockInv
<1>16. CASE ClaimsUnsupported
  <2>1. at \in {"bind", "repair bind"} /\ UNCHANGED agreed /\ at' \in {"repair claim", "ended"}
    BY <1>16 DEF ClaimsUnsupported, ClaimConflict
  <2>2. QED BY <2>1, LockUnchanged DEF Early, Selecting
<1>17. CASE RepeatsClaim
  BY <1>17, LockUnchanged DEF RepeatsClaim, ClaimConflict
<1>18. CASE RepairIsNoProposal
  BY <1>18, LockUnchanged DEF RepairIsNoProposal
<1>19. CASE ProposesPlan
  BY <1>19, LockUnchanged DEF ProposesPlan, Early, Selecting
<1>20. CASE ProposesRepair
  BY <1>20, LockUnchanged DEF ProposesRepair, Early, Selecting
<1>21. CASE ValidatePlan
  <2>1. at = "validate" /\ UNCHANGED agreed /\ at' \in {"repair proposal", "ended"}
    BY <1>21 DEF ValidatePlan
  <2>2. QED BY <2>1, LockUnchanged DEF Early, Selecting
<1>22. CASE ValidateRepair
  BY <1>22, LockUnchanged DEF ValidateRepair, budget
<1>23. CASE UNCHANGED harnessVars
  BY <1>23, LockUnchanged DEF harnessVars, agreed
<1>24. QED
  BY <1>1, <1>2, <1>3, <1>4, <1>5, <1>6, <1>7, <1>8, <1>9, <1>10, <1>11, <1>12, <1>13, <1>14,
     <1>15, <1>16, <1>17, <1>18, <1>19, <1>20, <1>21, <1>22, <1>23 DEF HarnessNext

LEMMA LockInitially == HarnessInit => LockInv
BY DEF HarnessInit, LockInv, Covered, OnePerNeed, Early, Selecting

\* Whatever a model selects, when fields are bound every need has exactly one
\* source: found, suitable, and an aggregation exactly where one was admitted.
THEOREM EveryNeedKeepsItsSource == HarnessSpec => []EveryNeedHasOneSource
<1>1. HarnessTypes /\ LockInv /\ [HarnessNext]_harnessVars => (HarnessTypes /\ LockInv)'
  BY HarnessTypesKept, LockKept
<1>2. LockInv => EveryNeedHasOneSource
  BY DEF LockInv, Covered, Early, Selecting, NeedsOf, OnePerNeed, Admitted, EveryNeedHasOneSource
<1>3. QED
  BY HarnessTypesInitially, LockInitially, <1>1, <1>2, PTL DEF HarnessSpec

-----------------------------------------------------------------------------
(* What is returned *)

\* A feasible plan selects exactly the locked candidates.
LEMMA FeasibleIsLocked ==
  ASSUME LockInv, at \in {"validate", "validate repair"}, Feasible
  PROVE  plan.picks = locked /\ plan.sound
<1>1. NeedsOf(locked) = needs
  BY DEF LockInv, Covered, Early, Selecting
<1>2. NeedsOf(plan.picks) = needs /\ plan.picks \subseteq locked /\ plan.sound
  BY DEF Feasible, NeedsOf
<1>3. ASSUME NEW c \in locked PROVE c \in plan.picks
  <2>1. c.need \in NeedsOf(plan.picks)
    BY <1>1, <1>2 DEF NeedsOf
  <2>2. PICK d \in plan.picks : d.need = c.need
    BY <2>1 DEF NeedsOf
  <2>3. d = c
    BY <1>2, <2>2 DEF LockInv, OnePerNeed
  <2>4. QED BY <2>2, <2>3
<1>4. QED BY <1>2, <1>3

\* Only a validation ends with a plan.
LEMMA ReturnedKept ==
  ASSUME HarnessTypes, LockInv, ReturnedPlanIsLocked, [HarnessNext]_harnessVars
  PROVE  ReturnedPlanIsLocked'
<1>1. CASE UNCHANGED <<outcome, plan, locked>>
  BY <1>1 DEF ReturnedPlanIsLocked
<1>2. CASE UNCHANGED harnessVars
  BY <1>1, <1>2 DEF harnessVars
<1>3. CASE at = "ended" /\ ~UNCHANGED harnessVars
  BY <1>3 DEF HarnessNext, Admit, CallFails, Asking, RepairGarbled, Clarification,
     EarlyUnsupported, OutputGarbled, DiscoveryPlanned, Discover, RetrieveAggregates,
     RetrievalThrows, AggregatesSelected, Accept, EntitiesSelected, Lock, PresentFields,
     ClaimsUnsupported, RepeatsClaim, RepairIsNoProposal, ProposesPlan, ProposesRepair,
     ValidatePlan, ValidateRepair
<1>4. CASE HarnessNext /\ at # "ended"
  <2>1. outcome = "running"
    BY <1>4 DEF HarnessTypes, HarnessTypeOK
  <2>2. ASSUME outcome' = "feasibility"
        PROVE  /\ at \in {"validate", "validate repair"} /\ Feasible
               /\ UNCHANGED <<plan, locked>>
    BY <1>4, <2>1, <2>2 DEF HarnessNext, Admit, CallFails, CallFromStranger, CallThrows,
       CallRefused, RepairGarbled, Clarification, EarlyUnsupported, OutputGarbled,
       DiscoveryPlanned, Discover, RetrieveAggregates, RetrievalThrows, AggregatesSelected,
       Accept, EntitiesSelected, Lock, PresentFields, ClaimsUnsupported, RepeatsClaim,
       ClaimConflict, RepairIsNoProposal, ProposesPlan, ProposesRepair,
       ValidatePlan, ValidateRepair, RepairFeasible, Continue, End, agreed
  <2>3. outcome' = "feasibility" => plan'.picks = locked' /\ plan'.sound
    BY <2>2, FeasibleIsLocked
  <2>4. QED BY <2>3 DEF ReturnedPlanIsLocked
<1>5. QED BY <1>2, <1>3, <1>4

ReturnInv == HarnessTypes /\ LockInv /\ ReturnedPlanIsLocked

LEMMA ReturnAlways == HarnessSpec => []ReturnInv
<1>1. HarnessInit => ReturnInv
  <2>1. HarnessInit => ReturnedPlanIsLocked
    BY DEF HarnessInit, ReturnedPlanIsLocked
  <2>2. QED BY <2>1, HarnessTypesInitially, LockInitially DEF ReturnInv
<1>2. ReturnInv /\ [HarnessNext]_harnessVars => ReturnInv'
  BY HarnessTypesKept, LockKept, ReturnedKept DEF ReturnInv
<1>3. QED BY <1>1, <1>2, PTL DEF HarnessSpec

\* A returned plan, repaired or not, serves every need by its locked source.
THEOREM ReturnedPlansAreLocked == HarnessSpec => []ReturnedPlanIsLocked
<1>1. ReturnInv => ReturnedPlanIsLocked
  BY DEF ReturnInv
<1>2. QED BY <1>1, ReturnAlways, PTL
=============================================================================
