------------------------------ MODULE LivePlan ------------------------------
(***************************************************************************)
(* One execution of an immutable live plan.  executeLivePlan visits the    *)
(* nodes in passes until each has run; a source node pages through its     *)
(* provider by ascending id, while rows appear and disappear there.        *)
(*                                                                         *)
(* What operators do with rows is the subject of DagOperators: here an     *)
(* operator runs or throws.  A row is its id.  Nodes are visited in any    *)
(* order, as the plan may list them in any.                                *)
(*                                                                         *)
(* A definition marked "Slip" is no part of the model: it is the one after *)
(* it with a plausible mistake, for testing the properties.                *)
(***************************************************************************)
EXTENDS Naturals, FiniteSets

CONSTANTS
  Nodes,         \* the nodes of the plan
  Inputs,        \* the nodes a node has edges from
  CredentialOf,  \* the credential of a source; Nothing for an operator
  Credentials,
  Nothing,       \* no credential, no node
  Ids,           \* ids rows may have
  InitialCursor, \* the value pagination starts after
  Limits         \* page size, request limit and row ceiling of the sources

\* What a compiled plan is: acyclic, so that every set of nodes has one whose
\* inputs are outside; and with limits that let a source begin.
ASSUME PlanAssumption ==
  /\ Inputs \in [Nodes -> SUBSET Nodes]
  /\ CredentialOf \in [Nodes -> Credentials \union {Nothing}]
  /\ Nothing \notin Credentials
  /\ \A S \in SUBSET Nodes : S # {} => \E n \in S : Inputs[n] \intersect S = {}
  /\ IsFiniteSet(Ids) /\ Ids \subseteq Nat
  /\ InitialCursor \in Nat
  /\ Limits \subseteq [pageSize : Nat \ {0}, maxRequests : Nat \ {0}, ceiling : Nat \ {0}]

VARIABLES
  limits,        \* the compiled limits
  at,            \* what executeLivePlan does next
  pending,       \* nodes that have not run
  pass,          \* nodes this pass has still to visit
  progressed,    \* a node has run in this pass
  current,       \* the source fetched last
  fetch,         \* its rows, their number, the cursor and the requests
  stored,        \* the rows its provider has now
  lasting,       \* auxiliary: rows that were there throughout the fetch
  clients,       \* credentials with an open client
  limitReached,  \* sourceRowLimitReached
  outcome

schedule == <<pending, pass, progressed>>
source == <<current, fetch, stored, lasting, limitReached>>
planVars == <<limits, at, schedule, source, clients, outcome>>

NoFetch ==
  [rows |-> {}, length |-> 0, cursor |-> InitialCursor, requests |-> 0, full |-> TRUE]

PlanInit ==
  /\ limits \in Limits
  /\ at = "plan"
  /\ pending = Nodes
  /\ pass = {}
  /\ progressed = FALSE
  /\ current = Nothing
  /\ fetch = NoFetch
  /\ stored = {}
  /\ lasting = {}
  /\ clients = {}
  /\ limitReached = FALSE
  /\ outcome = "running"

\* The execution has its result; the clients are closed before it is returned.
Settles(result) == at' = "closing" /\ outcome' = result

-----------------------------------------------------------------------------
(* Scheduling *)

\* A pass visits the nodes that are pending when it begins.
BeginPass ==
  /\ at = "plan"
  /\ pending # {}
  /\ at' = "pass"
  /\ pass' = pending
  /\ progressed' = FALSE
  /\ UNCHANGED <<limits, pending, source, clients, outcome>>

EndPass ==
  /\ at = "pass"
  /\ pass = {}
  /\ IF progressed THEN at' = "plan" /\ UNCHANGED outcome ELSE Settles("unscheduled")
  /\ UNCHANGED <<limits, schedule, source, clients>>

AllRun ==
  /\ at = "plan"
  /\ pending = {}
  /\ Settles("passed")
  /\ UNCHANGED <<limits, schedule, source, clients>>

Ready(n) == Inputs[n] \intersect pending = {}

Visits(n) == at = "pass" /\ n \in pass

Skip(n) ==
  /\ Visits(n)
  /\ ~Ready(n)
  /\ pass' = pass \ {n}
  /\ UNCHANGED <<limits, at, pending, progressed, source, clients, outcome>>

\* Slip: a node that has run does not count as progress.
HasRunUnseen(n) ==
  /\ pending' = pending \ {n}
  /\ pass' = pass \ {n}
  /\ UNCHANGED progressed

\* Slip: a node that has run stays pending.
HasRunAndStays(n) ==
  /\ UNCHANGED pending
  /\ pass' = pass \ {n}
  /\ progressed' = TRUE

HasRun(n) ==
  /\ pending' = pending \ {n}
  /\ pass' = pass \ {n}
  /\ progressed' = TRUE

RunOperator(n) ==
  /\ Visits(n)
  /\ Ready(n)
  /\ CredentialOf[n] = Nothing
  /\ HasRun(n)
  /\ UNCHANGED <<limits, at, source, clients, outcome>>

OperatorThrows(n) ==
  /\ Visits(n)
  /\ Ready(n)
  /\ CredentialOf[n] = Nothing
  /\ Settles("failed")
  /\ UNCHANGED <<limits, schedule, source, clients>>

-----------------------------------------------------------------------------
(* Fetching a source *)

Fetching(n) ==
  /\ at' = "fetch"
  /\ current' = n
  /\ fetch' = NoFetch
  /\ stored' \in SUBSET Ids
  /\ lasting' = stored'

VisitsSource(n) == Visits(n) /\ Ready(n) /\ CredentialOf[n] # Nothing

\* Sources of one credential share its client.
ReuseClient(n) ==
  /\ VisitsSource(n)
  /\ CredentialOf[n] \in clients
  /\ Fetching(n)
  /\ UNCHANGED <<limits, schedule, clients, limitReached, outcome>>

OpenClient(n) ==
  /\ VisitsSource(n)
  /\ CredentialOf[n] \notin clients
  /\ clients' = clients \union {CredentialOf[n]}
  /\ Fetching(n)
  /\ UNCHANGED <<limits, schedule, limitReached, outcome>>

NoClient(n) ==
  /\ VisitsSource(n)
  /\ CredentialOf[n] \notin clients
  /\ Settles("failed")
  /\ UNCHANGED <<limits, schedule, source, clients>>

\* Indexing goes on at the provider between two pages.
ProviderChanges ==
  /\ at = "fetch"
  /\ \E i \in Ids : stored' = stored \union {i} \/ stored' = stored \ {i}
  /\ lasting' = lasting \intersect stored'
  /\ UNCHANGED <<limits, at, schedule, current, fetch, clients, limitReached, outcome>>

\* The loop goes on after a full page, within its two limits.
AsksAgain ==
  /\ fetch.full
  /\ fetch.requests < limits.maxRequests
  /\ fetch.length < limits.ceiling

\* The rows a page may have.
First ==
  IF limits.pageSize <= limits.ceiling - fetch.length
  THEN limits.pageSize ELSE limits.ceiling - fetch.length

\* first: First, orderBy: id, where: {id_gt: cursor}.
IsPage(batch) ==
  /\ \A i \in batch : i > fetch.cursor
  /\ \A i \in batch, j \in stored : fetch.cursor < j /\ j < i => j \in batch
  /\ Cardinality(batch) <= First
  /\ Cardinality(batch) < First => \A j \in stored : fetch.cursor < j => j \in batch

\* The cursor moves to the last id of a full page.
NextCursor(batch, next) == next \in batch /\ \A j \in batch : j <= next

PageReceived ==
  /\ at = "fetch"
  /\ AsksAgain
  /\ \E batch \in SUBSET stored :
       /\ IsPage(batch)
       /\ \E cursor \in Ids \union {InitialCursor} :
            /\ IF Cardinality(batch) = First
               THEN NextCursor(batch, cursor) ELSE cursor = fetch.cursor
            /\ fetch' = [rows |-> fetch.rows \union batch,
                         length |-> fetch.length + Cardinality(batch),
                         cursor |-> cursor,
                         requests |-> fetch.requests + 1,
                         full |-> Cardinality(batch) = First]
  /\ UNCHANGED <<limits, at, schedule, current, stored, lasting, clients,
                 limitReached, outcome>>

\* A timeout, an abort, errors in the answer, rows without an id, a cursor
\* that stands still.
QueryFails ==
  /\ at = "fetch"
  /\ AsksAgain
  /\ Settles("failed")
  /\ UNCHANGED <<limits, schedule, source, clients>>

\* Slip: the requests ran out, and the rows so far are taken for all.
RequestsRanOutQuietly == FALSE

\* More rows may be there than the requests have brought.
RequestsRanOut ==
  /\ fetch.requests >= limits.maxRequests
  /\ fetch.length < limits.ceiling
  /\ fetch.full

FetchThrows ==
  /\ at = "fetch"
  /\ ~AsksAgain
  /\ RequestsRanOut
  /\ Settles("failed")
  /\ UNCHANGED <<limits, schedule, source, clients>>

FetchEnds ==
  /\ at = "fetch"
  /\ ~AsksAgain
  /\ ~RequestsRanOut
  /\ at' = "pass"
  /\ HasRun(current)
  /\ limitReached' = (limitReached \/ (fetch.length >= limits.ceiling /\ fetch.full))
  /\ UNCHANGED <<limits, current, fetch, stored, lasting, clients, outcome>>
-----------------------------------------------------------------------------
(* Returning *)

\* Whether closing a client succeeds or fails makes no difference.
CloseClient ==
  /\ at = "closing"
  /\ \E c \in clients : clients' = clients \ {c}
  /\ UNCHANGED <<limits, at, schedule, source, outcome>>

Return ==
  /\ at = "closing"
  /\ clients = {}
  /\ at' = "returned"
  /\ UNCHANGED <<limits, schedule, source, clients, outcome>>

-----------------------------------------------------------------------------
ExecutionStep ==
  \/ BeginPass \/ EndPass \/ AllRun
  \/ \E n \in Nodes :
       \/ Skip(n) \/ RunOperator(n) \/ OperatorThrows(n)
       \/ ReuseClient(n) \/ OpenClient(n) \/ NoClient(n)
  \/ PageReceived \/ QueryFails \/ FetchThrows \/ FetchEnds
  \/ CloseClient \/ Return

PlanNext == ExecutionStep \/ ProviderChanges

\* The process goes on: every query is answered or given up.
PlanSpec == PlanInit /\ [][PlanNext]_planVars /\ WF_planVars(ExecutionStep)

-----------------------------------------------------------------------------
(* Properties *)

\* The execution keeps its types.
PlanTypeOK ==
  /\ limits \in Limits
  /\ at \in {"plan", "pass", "fetch", "closing", "returned"}
  /\ pending \subseteq Nodes /\ pass \subseteq pending
  /\ progressed \in BOOLEAN
  /\ current \in Nodes \union {Nothing}
  /\ at = "fetch" => current \in pass
  /\ fetch \in [rows : SUBSET Ids, length : Nat, cursor : Nat, requests : Nat,
                full : BOOLEAN]
  /\ stored \subseteq Ids /\ lasting \subseteq stored
  /\ clients \subseteq Credentials
  /\ limitReached \in BOOLEAN
  /\ outcome \in {"running", "passed", "failed", "unscheduled"}

\* The source fetched last has been fetched to its end.
Fetched == current # Nothing /\ current \notin pending

\* Whatever the provider inserts and removes between two pages, no row is
\* returned twice and none that was there all the time is missed; only the row
\* ceiling may cut the rest off, exactly at the ceiling, and then it is
\* reported.
SourceIsComplete ==
  /\ Cardinality(fetch.rows) = fetch.length
  /\ fetch.length <= limits.ceiling
  /\ fetch.requests <= limits.maxRequests
  /\ Fetched =>
       LET missed == {i \in lasting \ fetch.rows : i > InitialCursor}
       IN  /\ missed # {} => limitReached /\ fetch.length = limits.ceiling
           /\ \A i \in missed, j \in fetch.rows : j < i

\* A compiled plan can always be scheduled, whatever the order of its nodes,
\* and it passes when each has run.
PlanIsScheduled ==
  /\ outcome # "unscheduled"
  /\ outcome = "passed" => pending = {}

\* An execution ends, with no client left open.
ExecutionEnds == <>(at = "returned" /\ clients = {})
=============================================================================
