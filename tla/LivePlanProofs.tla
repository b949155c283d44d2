--------------------------- MODULE LivePlanProofs ---------------------------
(***************************************************************************)
(* For every acyclic plan and every limits: the execution keeps its types, *)
(* schedules every node, and returns of a source what SourceIsComplete     *)
(* says.  And of the numbers its nodes compute, for all operands: the      *)
(* quotients of Decimals are the nearest ones.                             *)
(***************************************************************************)
EXTENDS LivePlan, Decimals, FiniteSetTheorems, TLAPS

\* The types, apart from the record of the fetch.
ScheduleTypes ==
  /\ limits \in Limits
  /\ at \in {"plan", "pass", "fetch", "closing", "returned"}
  /\ pending \subseteq Nodes /\ pass \subseteq pending
  /\ progressed \in BOOLEAN
  /\ current \in Nodes \union {Nothing}
  /\ at = "fetch" => current \in pass
  /\ stored \subseteq Ids /\ lasting \subseteq stored
  /\ clients \subseteq Credentials
  /\ limitReached \in BOOLEAN
  /\ outcome \in {"running", "passed", "failed", "unscheduled"}

FetchType ==
  fetch \in [rows : SUBSET Ids, length : Nat, cursor : Nat, requests : Nat, full : BOOLEAN]

\* A page leaves these values behind.
Page(batch, next) ==
  [rows |-> fetch.rows \union batch, length |-> fetch.length + Cardinality(batch),
   cursor |-> next, requests |-> fetch.requests + 1, full |-> Cardinality(batch) = First]

\* The fields of a page, for any page.
LEMMA PageFields ==
  \A batch, next :
    /\ Page(batch, next).rows = fetch.rows \union batch
    /\ Page(batch, next).length = fetch.length + Cardinality(batch)
    /\ Page(batch, next).cursor = next
    /\ Page(batch, next).requests = fetch.requests + 1
    /\ Page(batch, next).full = (Cardinality(batch) = First)
BY DEF Page

\* The fields of an empty fetch.
LEMMA NoFetchFields ==
  /\ NoFetch.rows = {} /\ NoFetch.length = 0 /\ NoFetch.cursor = InitialCursor
  /\ NoFetch.requests = 0 /\ NoFetch.full = TRUE
BY DEF NoFetch

\* A page is a finite set of ids, and its number of rows a natural number.
LEMMA BatchFinite ==
  ASSUME NEW batch \in SUBSET Ids
  PROVE  IsFiniteSet(batch) /\ Cardinality(batch) \in Nat
<1>1. IsFiniteSet(batch)
  BY PlanAssumption, FS_Subset
<1>2. QED BY <1>1, FS_CardinalityType

\* What a step that receives a page does, with the page and the cursor named.
LEMMA PageStep ==
  ASSUME PageReceived
  PROVE  \E batch \in SUBSET stored : \E next \in Ids \union {InitialCursor} :
           /\ IsPage(batch)
           /\ IF Cardinality(batch) = First
              THEN NextCursor(batch, next) ELSE next = fetch.cursor
           /\ fetch' = Page(batch, next)
BY DEF PageReceived, Page
-----------------------------------------------------------------------------
(* Types *)

LEMMA ScheduleTypesKept ==
  ASSUME ScheduleTypes, [PlanNext]_planVars
  PROVE  ScheduleTypes'
<1> USE DEF ScheduleTypes, schedule, source
<1>1. CASE BeginPass
  BY <1>1 DEF BeginPass
<1>2. CASE EndPass
  BY <1>2 DEF EndPass, Settles
<1>3. CASE AllRun
  BY <1>3 DEF AllRun, Settles
<1>4. CASE \E n \in Nodes : Skip(n)
  BY <1>4 DEF Skip, Visits
<1>5. CASE \E n \in Nodes : RunOperator(n)
  BY <1>5 DEF RunOperator, HasRun, Visits
<1>6. CASE \E n \in Nodes : OperatorThrows(n)
  BY <1>6 DEF OperatorThrows, Settles
<1>7. CASE \E n \in Nodes : ReuseClient(n)
  BY <1>7 DEF ReuseClient, VisitsSource, Visits, Fetching
<1>8. CASE \E n \in Nodes : OpenClient(n)
  <2>1. PICK n \in Nodes : OpenClient(n)
    BY <1>8
  <2>2. CredentialOf[n] \in Credentials
    BY <2>1, PlanAssumption DEF OpenClient, VisitsSource
  <2>3. QED BY <2>1, <2>2 DEF OpenClient, VisitsSource, Visits, Fetching
<1>9. CASE \E n \in Nodes : NoClient(n)
  BY <1>9 DEF NoClient, Settles
<1>10. CASE PageReceived
  BY <1>10 DEF PageReceived
<1>11. CASE QueryFails
  BY <1>11 DEF QueryFails, Settles
<1>12. CASE FetchThrows
  BY <1>12 DEF FetchThrows, Settles
<1>13. CASE FetchEnds
  BY <1>13 DEF FetchEnds, HasRun
<1>14. CASE CloseClient
  BY <1>14 DEF CloseClient
<1>15. CASE Return
  BY <1>15 DEF Return
<1>16. CASE ProviderChanges
  BY <1>16 DEF ProviderChanges
<1>17. CASE UNCHANGED planVars
  BY <1>17 DEF planVars
<1>18. QED
  BY <1>1, <1>2, <1>3, <1>4, <1>5, <1>6, <1>7, <1>8, <1>9, <1>10, <1>11, <1>12, <1>13,
     <1>14, <1>15, <1>16, <1>17 DEF PlanNext, ExecutionStep

\* The fetch changes when a source is visited and when a page arrives.
LEMMA FetchChanges ==
  ASSUME [PlanNext]_planVars
  PROVE  /\ UNCHANGED limits
         /\ \/ UNCHANGED fetch /\ lasting' \subseteq lasting
            \/ fetch' = NoFetch
            \/ PageReceived /\ UNCHANGED lasting
<1> USE DEF schedule, source
<1>1. CASE BeginPass \/ EndPass \/ AllRun
  BY <1>1 DEF BeginPass, EndPass, AllRun
<1>2. CASE \E n \in Nodes : Skip(n) \/ RunOperator(n) \/ OperatorThrows(n) \/ NoClient(n)
  BY <1>2 DEF Skip, RunOperator, OperatorThrows, NoClient
<1>3. CASE \E n \in Nodes : ReuseClient(n) \/ OpenClient(n)
  BY <1>3 DEF ReuseClient, OpenClient, Fetching
<1>4. CASE PageReceived
  BY <1>4 DEF PageReceived
<1>5. CASE QueryFails \/ FetchThrows \/ FetchEnds
  BY <1>5 DEF QueryFails, FetchThrows, FetchEnds
<1>6. CASE CloseClient \/ Return
  BY <1>6 DEF CloseClient, Return
<1>7. CASE ProviderChanges
  BY <1>7 DEF ProviderChanges
<1>8. CASE UNCHANGED planVars
  BY <1>8 DEF planVars
<1>9. QED
  BY <1>1, <1>2, <1>3, <1>4, <1>5, <1>6, <1>7, <1>8 DEF PlanNext, ExecutionStep

LEMMA FetchTypeKept ==
  ASSUME ScheduleTypes, FetchType, [PlanNext]_planVars
  PROVE  FetchType'
<1>1. CASE UNCHANGED fetch
  BY <1>1 DEF FetchType
<1>2. CASE fetch' = NoFetch
  BY <1>2, PlanAssumption DEF FetchType, NoFetch
<1>3. CASE PageReceived
  <2>1. PICK batch \in SUBSET stored, next \in Ids \union {InitialCursor} :
               fetch' = Page(batch, next)
    BY <1>3, PageStep
  <2>2. batch \in SUBSET Ids
    BY <2>1 DEF ScheduleTypes
  <2>3. Cardinality(batch) \in Nat
    BY <2>2, BatchFinite
  <2>4. next \in Nat
    BY PlanAssumption
  <2>5. /\ fetch.rows \union batch \in SUBSET Ids
        /\ fetch.length + Cardinality(batch) \in Nat
        /\ fetch.requests + 1 \in Nat
    BY <2>2, <2>3 DEF FetchType
  <2>6. QED BY <2>1, <2>4, <2>5 DEF FetchType, Page
<1>4. QED BY <1>1, <1>2, <1>3, FetchChanges

LEMMA TypesInitially == PlanInit => ScheduleTypes /\ FetchType
<1>1. PlanInit => ScheduleTypes
  BY DEF PlanInit, ScheduleTypes
<1>2. InitialCursor \in Nat
  BY PlanAssumption
<1>3. PlanInit => FetchType
  BY <1>2 DEF PlanInit, FetchType, NoFetch
<1>4. QED BY <1>1, <1>3

LEMMA TypesSplit == PlanTypeOK <=> ScheduleTypes /\ FetchType
BY DEF PlanTypeOK, ScheduleTypes, FetchType

\* The execution keeps its types (PlanTypeOK).
THEOREM PlanTypes == PlanSpec => []PlanTypeOK
<1>1. PlanInit => PlanTypeOK
  BY TypesInitially, TypesSplit
<1>2. PlanTypeOK /\ [PlanNext]_planVars => PlanTypeOK'
  <2> SUFFICES ASSUME PlanTypeOK, [PlanNext]_planVars PROVE PlanTypeOK'
    OBVIOUS
  <2>1. ScheduleTypes /\ FetchType
    BY TypesSplit
  <2>2. ScheduleTypes' /\ FetchType'
    BY <2>1, ScheduleTypesKept, FetchTypeKept
  <2>3. QED BY <2>2 DEF PlanTypeOK, ScheduleTypes, FetchType
<1>3. QED BY <1>1, <1>2, PTL DEF PlanSpec
-----------------------------------------------------------------------------
(* Scheduling *)

\* A pass that has run no node has left behind only nodes that were not ready,
\* of a set of pending nodes that is not empty.
NoProgress ==
  at \in {"pass", "fetch"} /\ ~progressed =>
    /\ pending # {}
    /\ \A n \in pending \ pass : ~Ready(n)

Undecided == at \in {"plan", "pass", "fetch"} => outcome = "running"

ScheduleInv == NoProgress /\ Undecided /\ PlanIsScheduled

LEMMA SomeNodeIsReady ==
  ASSUME ScheduleTypes, pending # {}
  PROVE  \E n \in pending : Ready(n)
BY PlanAssumption DEF ScheduleTypes, Ready

LEMMA ScheduleInvKept ==
  ASSUME ScheduleTypes, ScheduleInv, [PlanNext]_planVars
  PROVE  ScheduleInv'
<1> USE DEF ScheduleInv, NoProgress, Undecided, PlanIsScheduled, Ready, schedule, source
<1>1. CASE BeginPass
  BY <1>1 DEF BeginPass
<1>2. CASE EndPass
  <2>1. CASE progressed
    BY <1>2, <2>1 DEF EndPass
  <2>2. CASE ~progressed
    <3>1. pending # {} /\ \A n \in pending : ~Ready(n)
      BY <1>2, <2>2 DEF EndPass
    <3>2. QED BY <3>1, SomeNodeIsReady
  <2>3. QED BY <2>1, <2>2
<1>3. CASE AllRun
  BY <1>3 DEF AllRun, Settles
<1>4. CASE \E n \in Nodes : Skip(n)
  BY <1>4 DEF Skip, Visits
<1>5. CASE \E n \in Nodes : RunOperator(n)
  BY <1>5 DEF RunOperator, HasRun, Visits
<1>6. CASE \E n \in Nodes : OperatorThrows(n)
  BY <1>6 DEF OperatorThrows, Settles
<1>7. CASE \E n \in Nodes : ReuseClient(n)
  BY <1>7 DEF ReuseClient, VisitsSource, Visits, Fetching
<1>8. CASE \E n \in Nodes : OpenClient(n)
  BY <1>8 DEF OpenClient, VisitsSource, Visits, Fetching
<1>9. CASE \E n \in Nodes : NoClient(n)
  BY <1>9 DEF NoClient, Settles
<1>10. CASE PageReceived
  BY <1>10 DEF PageReceived
<1>11. CASE QueryFails
  BY <1>11 DEF QueryFails, Settles
<1>12. CASE FetchThrows
  BY <1>12 DEF FetchThrows, Settles
<1>13. CASE FetchEnds
  BY <1>13 DEF FetchEnds, HasRun
<1>14. CASE CloseClient
  BY <1>14 DEF CloseClient
<1>15. CASE Return
  BY <1>15 DEF Return
<1>16. CASE ProviderChanges
  BY <1>16 DEF ProviderChanges
<1>17. CASE UNCHANGED planVars
  BY <1>17 DEF planVars
<1>18. QED
  BY <1>1, <1>2, <1>3, <1>4, <1>5, <1>6, <1>7, <1>8, <1>9, <1>10, <1>11, <1>12, <1>13,
     <1>14, <1>15, <1>16, <1>17 DEF PlanNext, ExecutionStep

\* A compiled plan is scheduled to its last node, in whatever order its nodes
\* are visited: the check that executeLivePlan ends a pass with never fires.
THEOREM PlanIsAlwaysScheduled == PlanSpec => []PlanIsScheduled
<1>1. PlanInit => ScheduleInv
  BY DEF PlanInit, ScheduleInv, NoProgress, Undecided, PlanIsScheduled
<1>2. PlanTypeOK /\ ScheduleInv /\ [PlanNext]_planVars => ScheduleInv'
  BY ScheduleInvKept, TypesSplit
<1>3. ScheduleInv => PlanIsScheduled
  BY DEF ScheduleInv
<1>4. QED BY <1>1, <1>2, <1>3, PlanTypes, PTL DEF PlanSpec
-----------------------------------------------------------------------------
(* Pagination *)

\* The rows so far are behind the cursor, as long as pages are full.
Behind == fetch.full => \A i \in fetch.rows : i <= fetch.cursor

\* Up to the cursor nothing is missed that was there throughout; nothing at
\* all after a page that was not full.
Seen ==
  /\ fetch.full =>
       \A i \in lasting : InitialCursor < i /\ i <= fetch.cursor => i \in fetch.rows
  /\ ~fetch.full => \A i \in lasting : InitialCursor < i => i \in fetch.rows

Counted ==
  /\ Cardinality(fetch.rows) = fetch.length
  /\ fetch.length <= limits.ceiling
  /\ fetch.requests <= limits.maxRequests

FetchInv == Counted /\ Behind /\ Seen

\* Between two nodes the source fetched last is no longer pending, and one
\* fetched to its end with a full page has met the ceiling.
Ended ==
  /\ at \in {"plan", "pass"} /\ current # Nothing => current \notin pending
  /\ Fetched /\ fetch.full => limitReached /\ fetch.length = limits.ceiling

\* The limits are positive numbers.
LEMMA LimitTypes ==
  ASSUME ScheduleTypes
  PROVE  limits.pageSize \in Nat /\ limits.maxRequests \in Nat /\ limits.ceiling \in Nat
BY PlanAssumption DEF ScheduleTypes

\* What a page may add to the rows, in numbers.
LEMMA FirstFits ==
  ASSUME ScheduleTypes, FetchType, fetch.length <= limits.ceiling
  PROVE  First \in Nat /\ fetch.length + First <= limits.ceiling
BY LimitTypes DEF First, FetchType

\* A page has only rows behind the cursor: none of them is there already.
LEMMA PageCounts ==
  ASSUME ScheduleTypes, FetchType, FetchInv, fetch.full,
         NEW batch \in SUBSET Ids, IsPage(batch)
  PROVE  Cardinality(fetch.rows \union batch) = fetch.length + Cardinality(batch)
<1>1. IsFiniteSet(fetch.rows) /\ IsFiniteSet(batch)
  BY BatchFinite DEF FetchType
<1>2. \A i \in batch : i \notin fetch.rows
  <2>1. \A i \in batch : i > fetch.cursor
    BY DEF IsPage
  <2>2. \A i \in fetch.rows : i <= fetch.cursor
    BY DEF FetchInv, Behind
  <2>3. fetch.cursor \in Nat /\ \A i \in Ids : i \in Nat
    BY PlanAssumption DEF FetchType
  <2>4. QED BY <2>1, <2>2, <2>3
<1>3. fetch.rows \intersect batch = {}
  BY <1>2
<1>4. Cardinality(fetch.rows) = fetch.length
  BY DEF FetchInv, Counted
<1>5. /\ Cardinality(fetch.rows \intersect batch) = 0
      /\ Cardinality(fetch.rows) \in Nat /\ Cardinality(batch) \in Nat
  BY <1>1, <1>3, FS_EmptySet, FS_CardinalityType
<1>6. Cardinality(fetch.rows \union batch)
        = Cardinality(fetch.rows) + Cardinality(batch) - Cardinality(fetch.rows \intersect batch)
  BY <1>1, FS_Union
<1>7. QED BY <1>4, <1>5, <1>6

\* A page keeps the count, the order and the completeness of the rows.
LEMMA PageKept ==
  ASSUME ScheduleTypes, FetchType, FetchInv, PageReceived,
         UNCHANGED limits, UNCHANGED lasting
  PROVE  FetchInv'
<1>1. PICK batch \in SUBSET stored, next \in Ids \union {InitialCursor} :
             /\ IsPage(batch)
             /\ IF Cardinality(batch) = First
                THEN NextCursor(batch, next) ELSE next = fetch.cursor
             /\ fetch' = Page(batch, next)
  BY PageStep
<1>2. /\ fetch.full /\ fetch.requests < limits.maxRequests
      /\ fetch.length < limits.ceiling
  BY DEF PageReceived, AsksAgain
<1>3. batch \in SUBSET Ids
  BY <1>1 DEF ScheduleTypes
<1>4. /\ fetch'.rows = fetch.rows \union batch
      /\ fetch'.length = fetch.length + Cardinality(batch)
      /\ fetch'.cursor = next
      /\ fetch'.requests = fetch.requests + 1
      /\ fetch'.full = (Cardinality(batch) = First)
  BY <1>1, PageFields
<1>5. /\ Cardinality(batch) \in Nat /\ next \in Nat /\ fetch.cursor \in Nat
      /\ fetch.length \in Nat /\ fetch.requests \in Nat
      /\ limits.ceiling \in Nat /\ limits.maxRequests \in Nat
  BY <1>3, BatchFinite, LimitTypes, PlanAssumption DEF FetchType
<1>6. First \in Nat /\ fetch.length + First <= limits.ceiling
  BY FirstFits, <1>2, <1>5
<1>7. Cardinality(batch) <= First
  BY <1>1 DEF IsPage
<1>8. Ids \subseteq Nat /\ fetch.rows \subseteq Ids /\ lasting \subseteq stored
      /\ InitialCursor \in Nat /\ stored \subseteq Ids
  BY PlanAssumption DEF FetchType, ScheduleTypes
<1>9. Counted'
  <2>1. Cardinality(fetch'.rows) = fetch'.length
    BY <1>1, <1>2, <1>3, <1>4, PageCounts
  <2>2. fetch'.length <= limits.ceiling
    BY <1>4, <1>5, <1>6, <1>7
  <2>3. fetch'.requests <= limits.maxRequests
    BY <1>2, <1>4, <1>5
  <2>4. QED BY <2>1, <2>2, <2>3 DEF Counted
<1>10. CASE Cardinality(batch) = First
  <2>1. next \in batch /\ \A j \in batch : j <= next
    BY <1>1, <1>10 DEF NextCursor
  <2>2. fetch.cursor < next
    BY <1>1, <1>5, <2>1 DEF IsPage
  <2>3. ASSUME NEW i \in fetch.rows PROVE i <= next
    <3>1. i \in Nat /\ i <= fetch.cursor
      BY <1>2, <1>8 DEF FetchInv, Behind
    <3>2. QED BY <1>5, <2>2, <3>1
  <2>4. Behind'
    <3>1. \A i \in fetch.rows \union batch : i <= next
      BY <2>1, <2>3
    <3>2. QED BY <1>4, <3>1 DEF Behind
  <2>5. ASSUME NEW i \in lasting, InitialCursor < i, i <= next
        PROVE  i \in fetch.rows \union batch
    <3>1. CASE i <= fetch.cursor
      BY <1>2, <2>5, <3>1 DEF FetchInv, Seen
    <3>2. CASE i = next
      BY <2>1, <3>2
    <3>3. CASE fetch.cursor < i /\ i < next
      BY <1>1, <1>8, <2>1, <3>3 DEF IsPage
    <3>4. i \in Nat
      BY <1>8
    <3>5. QED BY <1>5, <2>5, <3>1, <3>2, <3>3, <3>4
  <2>6. Seen'
    BY <1>4, <1>10, <2>5 DEF Seen
  <2>7. QED BY <1>9, <2>4, <2>6 DEF FetchInv
<1>11. CASE Cardinality(batch) # First
  <2>1. Behind'
    <3>1. ~fetch'.full
      BY <1>4, <1>11
    <3>2. QED BY <3>1 DEF Behind
  <2>2. \A j \in stored : fetch.cursor < j => j \in batch
    BY <1>1, <1>5, <1>6, <1>7, <1>11 DEF IsPage
  <2>3. ASSUME NEW i \in lasting, InitialCursor < i
        PROVE  i \in fetch.rows \union batch
    <3>1. CASE i <= fetch.cursor
      BY <1>2, <2>3, <3>1 DEF FetchInv, Seen
    <3>2. CASE fetch.cursor < i
      BY <1>8, <2>2, <3>2
    <3>3. i \in Nat
      BY <1>8
    <3>4. QED BY <1>5, <3>1, <3>2, <3>3
  <2>4. Seen'
    BY <1>4, <1>11, <2>3 DEF Seen
  <2>5. QED BY <1>9, <2>1, <2>4 DEF FetchInv
<1>12. QED BY <1>10, <1>11

\* A fetch that has not begun.
LEMMA NoFetchKept ==
  ASSUME ScheduleTypes, ScheduleTypes', fetch' = NoFetch, UNCHANGED limits
  PROVE  FetchInv'
<1>1. /\ fetch'.rows = {} /\ fetch'.length = 0 /\ fetch'.cursor = InitialCursor
      /\ fetch'.requests = 0 /\ fetch'.full = TRUE
  BY NoFetchFields
<1>2. Cardinality({}) = 0
  BY FS_EmptySet
<1>3. Counted'
  BY <1>1, <1>2, LimitTypes DEF Counted
<1>4. Behind'
  BY <1>1 DEF Behind
<1>5. \A i \in Nat : ~(InitialCursor < i /\ i <= InitialCursor)
  BY PlanAssumption
<1>6. lasting' \subseteq Nat
  BY PlanAssumption DEF ScheduleTypes
<1>7. Seen'
  BY <1>1, <1>5, <1>6 DEF Seen
<1>8. QED BY <1>3, <1>4, <1>7 DEF FetchInv

LEMMA FetchInvKept ==
  ASSUME ScheduleTypes, ScheduleTypes', FetchType, FetchInv, [PlanNext]_planVars
  PROVE  FetchInv'
<1>1. UNCHANGED limits
  BY FetchChanges
<1>2. CASE UNCHANGED fetch /\ lasting' \subseteq lasting
  BY <1>1, <1>2 DEF FetchInv, Counted, Behind, Seen
<1>3. CASE fetch' = NoFetch
  BY <1>1, <1>3, NoFetchKept
<1>4. CASE PageReceived /\ UNCHANGED lasting
  BY <1>1, <1>4, PageKept
<1>5. QED BY <1>2, <1>3, <1>4, FetchChanges

LEMMA EndedKept ==
  ASSUME ScheduleTypes, FetchType, FetchInv, Ended, [PlanNext]_planVars
  PROVE  Ended'
<1> USE DEF Ended, Fetched, ScheduleTypes, schedule, source
<1>1. CASE BeginPass
  BY <1>1 DEF BeginPass
<1>2. CASE EndPass
  BY <1>2 DEF EndPass, Settles
<1>3. CASE AllRun
  BY <1>3 DEF AllRun, Settles
<1>4. CASE \E n \in Nodes : Skip(n)
  BY <1>4 DEF Skip, Visits
<1>5. CASE \E n \in Nodes : RunOperator(n)
  BY <1>5 DEF RunOperator, HasRun, Visits
<1>6. CASE \E n \in Nodes : OperatorThrows(n)
  BY <1>6 DEF OperatorThrows, Settles
<1>7. CASE \E n \in Nodes : ReuseClient(n)
  BY <1>7 DEF ReuseClient, VisitsSource, Visits, Fetching
<1>8. CASE \E n \in Nodes : OpenClient(n)
  BY <1>8 DEF OpenClient, VisitsSource, Visits, Fetching
<1>9. CASE \E n \in Nodes : NoClient(n)
  BY <1>9 DEF NoClient, Settles
<1>10. CASE PageReceived
  BY <1>10 DEF PageReceived
<1>11. CASE QueryFails
  BY <1>11 DEF QueryFails, Settles
<1>12. CASE FetchThrows
  BY <1>12 DEF FetchThrows, Settles
<1>13. CASE FetchEnds
  <2>1. /\ ~AsksAgain /\ ~RequestsRanOut /\ UNCHANGED <<fetch, current, limits>>
        /\ limitReached' = (limitReached \/ (fetch.length >= limits.ceiling /\ fetch.full))
        /\ pending' = pending \ {current}
    BY <1>13 DEF FetchEnds, HasRun
  <2>2. /\ fetch.length \in Nat /\ fetch.requests \in Nat
        /\ limits.ceiling \in Nat /\ limits.maxRequests \in Nat
        /\ fetch.length <= limits.ceiling
    BY LimitTypes DEF FetchType, FetchInv, Counted
  <2>3. fetch.full => fetch.length >= limits.ceiling
    BY <2>1, <2>2 DEF AsksAgain, RequestsRanOut
  <2>4. fetch.length >= limits.ceiling => fetch.length = limits.ceiling
    BY <2>2
  <2>5. fetch.full => limitReached' /\ fetch.length = limits.ceiling
    BY <2>1, <2>3, <2>4
  <2>6. fetch'.full => limitReached' /\ fetch'.length = limits'.ceiling
    BY <2>1, <2>5
  <2>7. current' \notin pending'
    BY <2>1
  <2>8. QED BY <2>6, <2>7
<1>14. CASE CloseClient
  BY <1>14 DEF CloseClient
<1>15. CASE Return
  BY <1>15 DEF Return
<1>16. CASE ProviderChanges
  BY <1>16 DEF ProviderChanges
<1>17. CASE UNCHANGED planVars
  BY <1>17 DEF planVars
<1>18. QED
  BY <1>1, <1>2, <1>3, <1>4, <1>5, <1>6, <1>7, <1>8, <1>9, <1>10, <1>11, <1>12, <1>13,
     <1>14, <1>15, <1>16, <1>17 DEF PlanNext, ExecutionStep

LEMMA CompleteFollows ==
  ASSUME ScheduleTypes, FetchType, FetchInv, Ended
  PROVE  SourceIsComplete
<1> DEFINE missed == {i \in lasting \ fetch.rows : i > InitialCursor}
<1>1. lasting \subseteq Nat /\ InitialCursor \in Nat /\ fetch.cursor \in Nat
      /\ fetch.rows \subseteq Nat /\ fetch.full \in BOOLEAN
  BY PlanAssumption DEF ScheduleTypes, FetchType
<1>2. ASSUME NEW i \in missed PROVE fetch.full /\ fetch.cursor < i
  <2>1. i \in lasting /\ i \notin fetch.rows /\ InitialCursor < i
    BY <1>1
  <2>2. fetch.full /\ ~(i <= fetch.cursor)
    BY <1>1, <2>1 DEF FetchInv, Seen
  <2>3. i \in Nat
    BY <1>1
  <2>4. QED BY <1>1, <2>2, <2>3
<1>3. \A i \in missed, j \in fetch.rows : j < i
  BY <1>1, <1>2 DEF FetchInv, Behind
<1>4. missed # {} => fetch.full
  BY <1>2
<1>5. Fetched /\ missed # {} => limitReached /\ fetch.length = limits.ceiling
  BY <1>4 DEF Ended
<1>6. QED BY <1>3, <1>5 DEF SourceIsComplete, FetchInv, Counted

\* Whatever the provider inserts and removes between the pages of a source,
\* fetchLiveSource returns no row twice and misses none that lasts, except
\* behind the row ceiling, exactly met and reported.
THEOREM SourcesAreComplete == PlanSpec => []SourceIsComplete
<1> DEFINE Inv == ScheduleTypes /\ FetchType /\ FetchInv /\ Ended
<1>1. PlanInit => Inv
  <2> SUFFICES ASSUME PlanInit PROVE Inv
    OBVIOUS
  <2>1. ScheduleTypes /\ FetchType
    BY TypesInitially
  <2>2. fetch = NoFetch /\ current = Nothing /\ lasting = {}
    BY DEF PlanInit
  <2>3. Cardinality({}) = 0
    BY FS_EmptySet
  <2>4. Counted
    BY <2>1, <2>2, <2>3, NoFetchFields, LimitTypes DEF Counted
  <2>5. Behind /\ Seen
    BY <2>2, NoFetchFields DEF Behind, Seen
  <2>6. Ended
    BY <2>2 DEF Ended, Fetched
  <2>7. QED BY <2>1, <2>4, <2>5, <2>6 DEF FetchInv
<1>2. Inv /\ [PlanNext]_planVars => Inv'
  <2> SUFFICES ASSUME Inv, [PlanNext]_planVars PROVE Inv'
    OBVIOUS
  <2>1. ScheduleTypes' /\ FetchType'
    BY ScheduleTypesKept, FetchTypeKept
  <2>2. FetchInv'
    BY <2>1, FetchInvKept
  <2>3. Ended'
    BY EndedKept
  <2>4. QED BY <2>1, <2>2, <2>3
<1>3. Inv => SourceIsComplete
  BY CompleteFollows
<1>4. QED BY <1>1, <1>2, <1>3, PTL DEF PlanSpec
-----------------------------------------------------------------------------
(* The quotients *)

\* What is left of n when q times d is taken off.
Off(n, d, q) == n - q * d

\* Dividing natural numbers.
LEMMA Euclid ==
  ASSUME NEW m \in Nat, NEW e \in Nat \ {0}
  PROVE  /\ m \div e \in Nat /\ m % e \in 0..(e-1)
         /\ m = e * (m \div e) + (m % e)
OBVIOUS

\* A truncated quotient is off towards zero, by less than the divisor.
LEMMA TruncatedFacts ==
  ASSUME NEW n \in Int, NEW e \in Nat \ {0}
  PROVE  /\ Truncated(n, e) \in Int
         /\ n < 0 => Off(n, e, Truncated(n, e)) \in (1-e)..0
         /\ n >= 0 => Off(n, e, Truncated(n, e)) \in 0..(e-1)
<1> DEFINE m == Magnitude(n)
           q == m \div e
           rest == m % e
<1>1. m \in Nat
  BY DEF Magnitude
<1>2. q \in Nat /\ rest \in 0..(e-1) /\ m = e * q + rest
  BY <1>1, Euclid
<1>3. CASE n < 0
  <2>1. Truncated(n, e) = -q /\ n = -m
    BY <1>3 DEF Truncated, Magnitude
  <2> HIDE DEF q, m, rest
  <2>2. (-q) * e = -(e * q)
    BY <1>2
  <2>3. Off(n, e, Truncated(n, e)) = -rest
    BY <1>1, <1>2, <2>1, <2>2 DEF Off
  <2>4. Truncated(n, e) \in Int
    BY <1>2, <2>1
  <2>5. QED BY <1>2, <1>3, <2>3, <2>4
<1>4. CASE n >= 0
  <2>1. Truncated(n, e) = q /\ n = m
    BY <1>4 DEF Truncated, Magnitude
  <2> HIDE DEF q, m, rest
  <2>2. q * e = e * q
    BY <1>2
  <2>3. Off(n, e, Truncated(n, e)) = rest
    BY <1>1, <1>2, <2>1, <2>2 DEF Off
  <2>4. Truncated(n, e) \in Int
    BY <1>2, <2>1
  <2>5. QED BY <1>2, <1>4, <2>3, <2>4
<1>5. QED BY <1>3, <1>4

\* One more in the quotient takes off one more divisor.
LEMMA OffByOne ==
  ASSUME NEW n \in Int, NEW d \in Int, NEW q \in Int
  PROVE  Off(n, d, q + 1) = Off(n, d, q) - d /\ Off(n, d, q - 1) = Off(n, d, q) + d
<1>1. (q + 1) * d = q * d + d /\ (q - 1) * d = q * d - d /\ q * d \in Int
  OBVIOUS
<1>2. QED BY <1>1 DEF Off

\* integerFromDecimal "floor" is the greatest integer below the decimal and
\* "ceil" the least above it, for coefficients of either sign, although a
\* BigInt division goes towards zero.
THEOREM FloorAndCeilAreTight ==
  ASSUME NEW n \in Int, NEW d \in Nat \ {0}
  PROVE  /\ FloorQuotient(n, d) \in Int /\ Off(n, d, FloorQuotient(n, d)) \in 0..(d-1)
         /\ CeilQuotient(n, d) \in Int /\ Off(n, d, CeilQuotient(n, d)) \in (1-d)..0
<1> DEFINE q == Truncated(n, d)
<1>1. /\ q \in Int
      /\ n < 0 => Off(n, d, q) \in (1-d)..0
      /\ n >= 0 => Off(n, d, q) \in 0..(d-1)
  BY TruncatedFacts
<1>2. Off(n, d, q) = 0 <=> q * d = n
  BY <1>1 DEF Off
<1>3. FloorQuotient(n, d) = IF Off(n, d, q) # 0 /\ n < 0 THEN q - 1 ELSE q
  BY <1>2 DEF FloorQuotient
<1>4. CeilQuotient(n, d) = IF Off(n, d, q) # 0 /\ n > 0 THEN q + 1 ELSE q
  BY <1>2 DEF CeilQuotient
<1> HIDE DEF q
<1>5. Off(n, d, q + 1) = Off(n, d, q) - d /\ Off(n, d, q - 1) = Off(n, d, q) + d
  BY <1>1, OffByOne
<1>6. FloorQuotient(n, d) \in Int /\ Off(n, d, FloorQuotient(n, d)) \in 0..(d-1)
  BY <1>1, <1>3, <1>5
<1>7. n = 0 => Off(n, d, q) = 0
  <2>1. SUFFICES ASSUME n = 0 PROVE q = 0
    BY DEF Off
  <2>2. 0 \div d = 0
    OBVIOUS
  <2>3. QED BY <2>1, <2>2 DEF q, Truncated
<1>8. CeilQuotient(n, d) \in Int /\ Off(n, d, CeilQuotient(n, d)) \in (1-d)..0
  BY <1>1, <1>4, <1>5, <1>7
<1>9. QED BY <1>6, <1>8

\* Rounding the quotient of magnitudes: nearest, and even if two are.
LEMMA RoundedMagnitude ==
  ASSUME NEW m \in Nat, NEW e \in Nat \ {0},
         NEW q \in Nat, NEW rest \in 0..(e-1), m = e * q + rest,
         NEW up \in {0, 1},
         up = 1 <=> 2 * rest - e > 0 \/ (2 * rest - e = 0 /\ q % 2 # 0)
  PROVE  /\ 2 * Magnitude(Off(m, e, q + up)) <= e
         /\ 2 * Magnitude(Off(m, e, q + up)) = e => (q + up) % 2 = 0
<1>1. Off(m, e, q) = rest
  <2>1. q * e = e * q /\ e * q \in Int
    OBVIOUS
  <2>2. QED BY <2>1 DEF Off
<1>2. Off(m, e, q + 1) = rest - e
  BY <1>1, OffByOne
<1>3. CASE up = 1
  <2>1. q + up = q + 1 /\ Magnitude(Off(m, e, q + up)) = e - rest
    BY <1>2, <1>3 DEF Magnitude
  <2>2. 2 * (e - rest) = e => (q + 1) % 2 = 0
    BY <1>3
  <2>3. QED BY <1>3, <2>1, <2>2
<1>4. CASE up = 0
  <2>1. q + up = q /\ Magnitude(Off(m, e, q + up)) = rest
    BY <1>1, <1>4 DEF Magnitude
  <2>2. QED BY <1>4, <2>1
<1>5. QED BY <1>3, <1>4

\* The sign of a quotient is that of the exact one: what it is off is the
\* same but for the sign.
LEMMA SignedOff ==
  ASSUME NEW n \in Int, NEW d \in Int \ {0}, NEW p \in Nat
  PROVE  LET q == IF (n < 0) # (d < 0) THEN -p ELSE p
         IN  Magnitude(Off(n, d, q)) = Magnitude(Off(Magnitude(n), Magnitude(d), p))
<1>1. /\ p * d \in Int /\ p * (-d) = -(p * d)
      /\ (-p) * d = -(p * d)
  OBVIOUS
<1>2. CASE n < 0 /\ d < 0
  BY <1>1, <1>2 DEF Off, Magnitude
<1>3. CASE n < 0 /\ ~(d < 0)
  BY <1>1, <1>3 DEF Off, Magnitude
<1>4. CASE ~(n < 0) /\ d < 0
  BY <1>1, <1>4 DEF Off, Magnitude
<1>5. CASE ~(n < 0) /\ ~(d < 0)
  BY <1>1, <1>5 DEF Off, Magnitude
<1>6. QED BY <1>2, <1>3, <1>4, <1>5

\* roundedQuotient, by which Map divides and rounds, answers the integer
\* nearest to the quotient, and of two equally near the even one: whatever the
\* signs and however large the operands.
THEOREM QuotientsAreNearest ==
  ASSUME NEW n \in Int, NEW d \in Int \ {0}
  PROVE  LET q == RoundedQuotient(n, d)
         IN  /\ q \in Int
             /\ 2 * Magnitude(Off(n, d, q)) <= Magnitude(d)
             /\ 2 * Magnitude(Off(n, d, q)) = Magnitude(d) => q % 2 = 0
<1> DEFINE m == Magnitude(n)
           e == Magnitude(d)
           p == m \div e
           rest == m % e
           up == IF 2 * rest - e > 0 \/ (2 * rest - e = 0 /\ p % 2 # 0) THEN 1 ELSE 0
           q == IF (n < 0) # (d < 0) THEN -(p + up) ELSE p + up
<1>1. RoundedQuotient(n, d) = q
  BY DEF RoundedQuotient
<1>2. m \in Nat /\ e \in Nat \ {0}
  BY DEF Magnitude
<1>3. p \in Nat /\ rest \in 0..(e-1) /\ m = e * p + rest
  BY <1>2, Euclid
<1>4. /\ up \in {0, 1}
      /\ up = 1 <=> 2 * rest - e > 0 \/ (2 * rest - e = 0 /\ p % 2 # 0)
  OBVIOUS
<1> HIDE DEF m, e, p, rest, up
<1>5. /\ 2 * Magnitude(Off(m, e, p + up)) <= e
      /\ 2 * Magnitude(Off(m, e, p + up)) = e => (p + up) % 2 = 0
  BY <1>2, <1>3, <1>4, RoundedMagnitude
<1>6. p + up \in Nat
  BY <1>3, <1>4
<1>7. Magnitude(Off(n, d, q)) = Magnitude(Off(m, e, p + up))
  BY <1>6, SignedOff DEF m, e
<1>8. (p + up) % 2 = 0 => q % 2 = 0
  BY <1>6
<1>9. q \in Int
  BY <1>6
<1> HIDE DEF q
<1>10. QED BY <1>1, <1>5, <1>7, <1>8, <1>9 DEF e

\* divideDecimal, by which Aggregate averages, answers the nearest integer,
\* and of two equally near the one farther from zero.
THEOREM AveragesAreNearest ==
  ASSUME NEW n \in Int, NEW d \in Nat \ {0}
  PROVE  LET q == AverageQuotient(n, d)
         IN  /\ q \in Int
             /\ 2 * Magnitude(Off(n, d, q)) <= d
             /\ 2 * Magnitude(Off(n, d, q)) = d => Off(n, d, q) * n <= 0
<1> DEFINE t == Truncated(n, d)
<1>1. /\ t \in Int
      /\ n < 0 => Off(n, d, t) \in (1-d)..0
      /\ n >= 0 => Off(n, d, t) \in 0..(d-1)
  BY TruncatedFacts
<1>2. AverageQuotient(n, d) = t + (IF 2 * Magnitude(Off(n, d, t)) < d THEN 0
                                   ELSE IF n < 0 THEN -1 ELSE 1)
  BY DEF AverageQuotient, Off
<1> HIDE DEF t
<1>3. Off(n, d, t + 1) = Off(n, d, t) - d /\ Off(n, d, t - 1) = Off(n, d, t) + d
  BY <1>1, OffByOne
<1>4. CASE 2 * Magnitude(Off(n, d, t)) < d
  <2>1. AverageQuotient(n, d) = t
    BY <1>1, <1>2, <1>4
  <2>2. Magnitude(Off(n, d, t)) \in Int
    BY <1>1 DEF Magnitude
  <2>3. 2 * Magnitude(Off(n, d, t)) <= d /\ 2 * Magnitude(Off(n, d, t)) # d
    BY <1>4, <2>2
  <2>4. QED BY <1>1, <2>1, <2>3
<1>5. CASE ~(2 * Magnitude(Off(n, d, t)) < d) /\ n < 0
  <2>1. AverageQuotient(n, d) = t - 1
    BY <1>1, <1>2, <1>5
  <2>2. Magnitude(Off(n, d, t)) = -Off(n, d, t)
    BY <1>1, <1>5 DEF Magnitude
  <2>3. Off(n, d, t - 1) \in 0..d /\ 2 * Off(n, d, t - 1) <= d
    BY <1>1, <1>3, <1>5, <2>2
  <2>4. Magnitude(Off(n, d, t - 1)) = Off(n, d, t - 1)
    BY <2>3 DEF Magnitude
  <2>5. Off(n, d, t - 1) * n <= 0
    BY <1>5, <2>3
  <2>6. QED BY <1>1, <2>1, <2>3, <2>4, <2>5
<1>6. CASE ~(2 * Magnitude(Off(n, d, t)) < d) /\ n >= 0
  <2>1. AverageQuotient(n, d) = t + 1
    BY <1>1, <1>2, <1>6
  <2>2. Magnitude(Off(n, d, t)) = Off(n, d, t)
    BY <1>1, <1>6 DEF Magnitude
  <2>3. Off(n, d, t + 1) \in (-d)..0 /\ -2 * Off(n, d, t + 1) <= d
    BY <1>1, <1>3, <1>6, <2>2
  <2>4. Magnitude(Off(n, d, t + 1)) = -Off(n, d, t + 1)
    BY <2>3 DEF Magnitude
  <2>5. Off(n, d, t + 1) * n <= 0
    BY <1>6, <2>3
  <2>6. QED BY <1>1, <2>1, <2>3, <2>4, <2>5
<1>7. QED BY <1>1, <1>4, <1>5, <1>6
=============================================================================
