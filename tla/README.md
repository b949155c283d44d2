# A verification project for Sprue

Sprue turns a request in natural language into a data API over The Graph's
subgraphs and sells it, request by request, over the x402 protocol with
Hedera transfers settled by the Blocky402 facilitator. This directory holds
TLA+ models of the parts of the backend and the frontend where order,
concurrency and failure matter, TLC runs that check them on small instances,
and theorems that TLAPS checks for every instance.

All paths below are relative to the repository; a path that begins with the
name of a module (`deployments/`, `agent/`, ...) is below `backend/src/modules/`.

## 1. The system

| Component | State it keeps | Operations | What makes it correct |
|---|---|---|---|
| Deployment lifecycle (`deployments/postgres-repository.ts`, `service.ts`) | versions, one deployment per product and environment, commands, API keys, publication revisions | build a version, deploy, suspend, publish, retire | the pointer to the publication, its status and its internal key agree; what is withdrawn stays so; a retried command has one answer |
| Paid endpoint (`service.ts` `executeX402Request`, `payments/blocky402-client.ts`) | intents, attempts, access requests, proofs, settlements, ledger, usage | accept, verify, settle, confirm, execute, complete, fail | served implies paid; revenue is real; a proof buys one request |
| Live plan compiler and runtime (`deployments/live-plan.ts`, `runtime.ts`, `portable-runner.mjs`) | none between requests | compile, paginate a source, schedule nodes | every row once, limits respected, every node run after its inputs |
| Workflow DAG (`dag/`) | none | derive shapes, filter, map, aggregate, sort, union, join | what compiles runs; no row lost or counted twice; rounding and order as documented |
| Agent sessions (`agent/service.ts`, `postgres-repository.ts`) | sessions, messages, commands, trace streams; active runs in memory | submit a message, stream its trace, cancel, complete | one run at a time, one run to a key, whole traces, a cancelled run does not succeed |
| Agent harness (`agent/harness/controller.ts`, `agent/pushdown-equivalence.ts`) | one exploration: its budgets and what was agreed | plan, discover, select, bind, validate, repair; take filters and sorts out of a plan whose query performs them | budgets suffice; a model cannot change what an earlier stage agreed; what a query takes over keeps the answer |
| Product store (`products/`) | products, builder drafts, their lock versions, commands | create, update, delete, save a draft | a key acts once and its answers stay true; optimistic locks lose no write |
| Builder page (`frontend/src/features/builder/`, `pages/ProductBuilderPage.jsx`, `app/NavigationGuardProvider.jsx`) | per tab: the draft on the canvas, the lock version it saves under, clean or dirty, a copy in session storage | load, edit, save, build, leave, reload | no save replaces a draft unseen; what was left stays away |
| Wallet (`wallet/`) | wallets, addresses, activation commands | sign in, activate, observe | one wallet per owner; a reported activation is stored |
| Graph credential (`graph-credential/`), model profile (`model-profile/`) | encrypted secrets with a lock version | add, validate, select, revoke; save | one selected key, and a valid one; a version is changed once; a replaced key stays replaced |
| Auth bootstrap, identity (`auth/`, `identity/`) | users, workspaces | first sign-in | one workspace per user |
| Graph discovery (`graph/`) | schema cache, MCP session | discover, validate a source query (`graph/query-plan.ts`), query | a valid query pages through every branch; cache keyed by content, session closed |
| Demo runtime (`demo/runtime.ts`) | an in-memory fixture | the interface's operations | - |
| HTTP transport (`http/`) | requests in flight | validate, limit, route | limits hold |
| Worker (`backend/src/jobs/worker-runtime.ts`) | none: a standby | start, stop | - |
| The rest of the frontend (`frontend/src`) | plan polling, editor history, product cache | - | stale answers dropped, undo inverts |
| Command line (`x402-cli/src`) | configuration, a payment exchange | fetch, pay, shell | pays once for what it was shown |

How they interact: the frontend and the command line call the HTTP API; the
API process runs a service per call; services share nothing in memory but the
set of active planning runs, and otherwise the PostgreSQL database, Privy, the
facilitator, the Mirror Node and The Graph. What is concurrent is therefore
the interleaving of statements and of the awaits between them, in READ
COMMITTED isolation, and the browser tabs of one owner, each with its own
session storage. What fails is a process (it stops between two statements), a
call (it times out or answers with an error, possibly after it took effect),
and a COMMIT whose answer is lost.

The hard behaviours are listed as `hazards` in `PROJECT.json`, each at the
line where it bites, with the properties that cover it.

## 2. Modules

| Module | What it is |
|---|---|
| `Deployments` | the lifecycle of one product's deployment |
| `PaidRequests` | extends `Deployments`: the paid endpoint beside the deployment whose rows it reads |
| `Sale` | abstract: what the endpoint promises about money; `PaidRequests` implements it |
| `LivePlan` | one execution of a live plan: the schedule of its nodes and the pages of its sources |
| `Decimals` | pure: the integer quotients behind division, conversion and averages |
| `DagExpressions`, `DagOperators` | pure: the expression language, and the operators on rows and on shapes, as `LivePlan`'s nodes run them |
| `DagExecution` | extends `DagOperators`: tables taken through nodes the compiler accepts |
| `DagPushdown` | extends `DagOperators`: a proposed plan and its query, from the validation to the answer |
| `AgentSession` | the requests that submit messages to one planning session, their runs and their traces |
| `Conversation` | abstract: what a session promises about turns; `AgentSession` implements it |
| `AgentHarness` | one exploration, that is, what happens inside one run of `AgentSession` |
| `OwnerRequests` | sign-in, activation, and products under idempotency keys |
| `WorkspaceKeys` | extends `OwnerRequests` with the stored Graph keys and the model profile |
| `BuilderDrafts` | the working draft of a product: the row with its optimistic lock and the tabs that edit it |
| `MC...` | the instances TLC checks; `MCPlans` puts `LivePlan`, `DagExecution` and `DagPushdown` side by side, each in behaviours in which the others rest |
| `...Proofs` | the theorems and their proofs |

A definition marked `Slip` in a module belongs to no specification. It is the
definition after it with a plausible programming mistake; each property is
known to be violated when the slip takes its place.

### Deployments

One product, one environment (`local`, the only one the code writes), one
owner. The state is the tables: `versions` (ready versions by number),
`deployment` (the row), `commands` (by idempotency key), `apiKeys` (by the
idempotency key they are derived from), `publication`, `price` and
`internalKeys` (by revision number), `recipient` (does
`loadPublicationCandidate` find a payable address) and `deleted`.

- One action is one transaction. Where every statement of a transaction works
  on rows it has locked, the interleaving of its statements with others is not
  observable.
- `deploy` is the exception. Its first statement reads the newest version and
  the deployment's id, then waits for the row lock of the product. In READ
  COMMITTED, PostgreSQL re-reads only a locked row that was updated meanwhile.
  A deletion updates it; a build or another deploy locks the product and
  updates other rows. So the model splits it: `DeployRead` takes the snapshot,
  and one of `DeployNotFound`, `DeployAccepted`, `DeployAliasConflict` or
  `DeployRepeated` acts on it later.
- `publishX402` awaits the facilitator between loading its candidate and its
  transaction: `LoadPublicationCandidate`, then `PublishX402` or `OfferEnds`.
  Its locking SELECT re-reads the status and the active version.
- The aliases other deployments of the workspace hold (`TakenAliases`) do not
  change; only whether an alias is taken matters to the actions.
- The content of a version is opaque (`Specs`).
- `persistVersion` of a content that is already ready changes no table and is
  a stutter.

### PaidRequests

One process per paid HTTP request. `pc` says which await of
`executeX402Request` it is at; `gate` holds the gate it loaded and the header
it was called with; the rows are `payment` (intent and attempt, always written
together), `access`, `settledBy`, `ledger` and `usage`. A transfer is a signed
Hedera transaction; several headers may carry one transaction because the
proof is the hash of the header, not of the transaction.

- External: a transfer is submitted by the first settle call that carries it
  and is executed or rejected later, on its own, whether or not the caller
  still waits. A settle call succeeds only for an executed transfer; it may
  refuse a rejected one, or one that was submitted by another call. The
  facilitator may also confirm a transfer another call submitted.
- Every `Throws` is an exception out of an await: unreachable facilitator,
  error status, timeout, abort, a transaction rolled back (also by a unique
  key), a refused key, a failed source.
- `...AnswerLost` is a COMMIT that took effect and whose answer did not
  arrive; `BeginThrows` has both cases.
- `Crash` stops the process with all its requests. The worker takes no step
  (`jobs/worker-runtime.ts` is a standby), so nothing resumes them.
- `last_used_at`, `api_http_attempts` and the allocations (written and never
  read in these flows) are left out. A usage event of quantity 0 is not
  written by the code; a request that makes no source request is not
  distinguished.
- `Serve` has the guard of the deferred trigger of migration 0024.

### LivePlan

`executeLivePlan` visits the nodes that have not run, pass after pass, until a
pass runs none of them (`BeginPass`, `Skip`, `RunOperator`, `EndPass`). The
order within a pass is any: a plan may list its nodes in any order. A source
opens the client of its credential or reuses it (`OpenClient`, `ReuseClient`)
and asks for pages ordered by id after the last id it has (`PageReceived`),
until a page is short, the row ceiling is reached or the requests are used up
(`FetchEnds`, `FetchThrows`). Between two pages the provider may insert and
remove rows (`ProviderChanges`); `lasting` remembers which were there all the
time. Every exit closes the clients before it returns.

The ids are numbers; the page size, the request limit and the ceiling are the
compiled limits. An operator runs or throws: what it computes is the subject
of the next modules.

### Decimals, DagExpressions, DagOperators and DagExecution

`InferExpression` and `Evaluate` are the type inference and the evaluation of
`dag/map.ts` with its three-valued logic, its decimals (a coefficient and a
scale: "1.0" and "1" are two texts and compare equal), its rounding to even
and its nulls; the quotients themselves are in `Decimals`. What the code
computes in a loop or by calling itself is a recursive function over numbers,
or over the parts of an expression (`Parts`: the code refuses an expression
more than eight levels deep): none of these modules declares a recursive
operator, so that all of them can be proved about. `WellFormed` and
`WellConfigured` are what the compiler asks of expressions and nodes whatever
the shapes are; its bounds on the length of lists are left out, and so is its
limit of 128 nodes per expression, so the theorems are about more plans than
it accepts. `DagOperators` has, for each operator, the shape the compiler
derives (`dag/compiler.ts` `deriveNodeShape`) and the rows and the shape the
execution computes (`deployments/runtime.ts`), because a plan is checked with
the one and run with the other. `Sort` with a limit goes through the heap of
`dag/sort.ts`, step by step. `DagExecution` takes a table through up to
`MaxSteps` nodes, each accepted by the compiler, and remembers the shape of
each derivation (`compiled`, `runtime`) and the input of the last node. Its
constants are assumed to be what the program can meet: nodes as the compiler
admits them (`ConfigsAssumption`), and sources whose rows have the fields of
their schema, of its types, null only where it says so (`TablesAssumption`).

### DagPushdown

An agent proposes a plan, the query of its source, and the nodes of the plan
that this query already performs. `Validate` is `validateSourceFeasibility`
with the checks of `graph/query-plan.ts` and the comparison of
`agent/pushdown-equivalence.ts`; `Reduce` is the removal of the nodes in
`agent/service.ts` `builderDraft`; `Compile` is `compileStructuredDag`;
`Execute` runs what is left on the rows the query fetches. `FetchedRows`
pages through the provider as `live-plan.ts` does, `Answer` is the plan on
given rows with the operators of `DagOperators`. The state is the proposal (an
index into lists of plans, queries and pushed nodes), its stage, the plan that
is left, the provider's rows at the execution and the answer.

A query is its `where` argument as parsed: predicates, objects of a related
entity, and branches of `or`. How the provider selects rows is not in the
repository: it is modelled from what the code takes as equivalent (a
predicate on a null is false, `in` is membership, branches of `or` are
alternatives). There is one source, and it is not truncated.
`NeighboursAreCountedOnce` is a check of the agent's plan alone
(`controller.ts`): it refuses the plan in which one node feeds both ports of
another, which the compiler would accept.

### AgentSession

The state is the rows of one session (`deleted`, `intent`, `commands`,
`messages`, `streams`, `events`), where each request is in `submitMessage`
(`call`) and its planner in the memory of the process (`run`).

- `beginPlanning` is one statement: it reads whether the session is free in
  its snapshot (`BeginRead`), then meets what was committed since: the unique
  key of the command (`BeginMeetsKey`), of the sequence number
  (`BeginCollides`). What it found refused, it looks for again in later
  statements (`ReplayRead`, `NothingToReplay`, `ReadRefusal`).
- A run emits trace events at any time; a chain of transactions writes them
  one after the other and gives up the ones that fail (`Emit`,
  `TraceWritten`, `TraceLost`). The result is stored when the chain has
  settled (`Drained`).
- `CancelRecorded` and `CancelAborts` are the two halves of a cancellation;
  `Catches` decides by the abort whether a run is failed or cancelled. A
  `completePlanning` whose answer is lost is caught, and completes again
  (`CompletionThrows`, `FailureNotStored`).
- `Crash` stops the process; its active runs are forgotten and their commands
  stay running.

### AgentHarness

`at` is the stage of `explore`; `calls`, `repairs`, `identity` are its
budgets; `needs`, `formal`, `found`, `accepted`, `locked`, `complete` what the
stages so far have agreed; `plan` the proposal under validation. Every stage
that asks the model may get an answer, a garbled one, one of another model, no
answer, or none because the budget is spent. An answer is any value of the
form the schema admits: the deterministic checks of the stage decide. One
repair per run is allowed if each later stage keeps a call. The texts, the
trace events and the content of evidence are left out: a candidate is a need,
a kind and whether the evidence suits.

### OwnerRequests and WorkspaceKeys

A request is one HTTP call; a retry, a double click or another tab is another
request that asks the same. Each has its place in the code (`at`), what its
statement's snapshot showed (`sight`) and what it was told (`found`). A
workload says which requests a behaviour sends.

- Products: `WriteProduct` or `WriteRefused` is the statement that inserts the
  command and changes the product, `Replay` the second one that finds out why
  nothing was written, `ReadBack`, `ReadReplayed`, `ReadCurrent` the reads
  that word the answer. Each may fail or lose its answer (`ProductFails`).
- Sign-in: `FindPrimary`, `ListWallets`, `CreateWallet`, and the binding in
  two steps, since its snapshot may be older than the row it meets.
  External: Privy answers a repeated idempotency key with the wallet it made
  (`Made`), for ever; `OneWallet` rests on that for two sign-ins that both
  find no wallet. What is bound and answered is the code's own.
- Activation: begin (with its snapshot), read the Mirror Node, ask the faucet
  once, reconcile, record, finish or fail; the Mirror Node shows the ledger
  with a delay. `Stop` is the stop of the process.
- Graph keys: `OpenKey`, `ProbeKey`, `SetValidation` are the validation around
  the call to The Graph; a selection takes its snapshot, locks its target
  (`holder`) and commits, where the unique index of migration 0020 may roll
  it back; a revocation removes the secret.
- The model profile is read, compared and swapped, up to three times.

### BuilderDrafts

One product, its row in `product_builder_drafts` and several tabs of its
owner. `page` is the React state of a tab's builder page, `cache` its session
storage, `puts` the PUT requests in the order they were sent, `plan` the
number of the agent's newest answer (the origin key).

- `LoadPlan` and `LoadDraft` are the two reads of `load`: the messages of the
  session, then the saved draft. Between them the agent may answer and other
  tabs may save.
- `saveBuilderDraft` is one statement: `PutStored` (update or insert),
  `PutUnchanged` (the same content under the same lock version) or
  `PutRefused`. A statement that waits for a row another one updates no longer
  matches its lock version and is refused, as the model's later one is.
- A request is sent, is decided by the server, and is answered; `PutFails` may
  come at any point, and what was given up may still be stored. An answer to a
  save whose page has gone still writes the session storage
  (`PutConfirmedLate`); a build is aborted with its page (`Unmounted`).
- A drawing is a number, fresh for every edit, and undo draws a fresh one too.
  Validation, which may keep the save button disabled, is left out.
- One agent session per product, so the newest answer only advances. A tab
  that is closed is one that takes no more steps.
- `base`, `history` and `left` are auxiliary: the version a drawing descends
  from, the request behind each lock version, the drawings left unsaved.

## 3. Properties

Each is stated in words above its definition.

- `Deployments`: `PointerMatchesActive`, `InternalKeyFollowsRevision`,
  `SuspensionSeals`, `OneAnswerPerKey`; of steps: `WithdrawalIsFinal`.
- `PaidRequests`: `RevenueIsReal`, `SettledIsNotWrittenOff` (money the
  facilitator reported as taken is confirmed or still submitted, never
  failed); of steps: `ConfirmedIsFinal`, `ExecutesOnlyOffered`; liveness: `AcceptedIsClosed`; refinement:
  `ImplementsSale` (the moved transfers are the executed ones, a transfer's
  owner is its settlement, the stage of a sale is read off the payment and
  access rows).
- `LivePlan`: `SourceIsComplete`, `PlanIsScheduled`; liveness: `ExecutionEnds`.
- `DagExecution`: `RowsFitTheirShape` (rows fit the shape the compiler
  promised, null only where it is declared), `RowsAreAccountedFor`,
  `SortKeepsTheTop`, `RoundingIsNearest`, `FilterFormsAgree`: each compares an
  algorithm of the code with a definition of what it should compute.
- `DagPushdown`: `ChainedPushdownKeepsTheAnswer`: what is left of a plan
  answers, on the rows of the query, what the whole plan answers on all rows,
  where nothing between the source and a removed node selects, redefines or
  shares rows (`Undisturbed`). Without that condition it is
  `PushdownKeepsTheAnswer`, and false.
- `AgentSession`: `TranscriptAlternates`, `KeyStartsOneRun`,
  `IntentIsFirstMessage`, `TraceIsComplete`, `AbortedRunsDoNotSucceed`;
  liveness: `RunsEnd`; refinement: `ImplementsConversation` (the transcript is
  the messages, a request's key and outcome are those of its command). That
  one run is under way at a time (`OneRunAtATime`), and that an outcome is
  final, follow from it.
- `AgentHarness`: `BudgetSuffices`, `EveryNeedHasOneSource`,
  `ReturnedPlanIsLocked`.
- `OwnerRequests`: `KeysActOnce`, `AnswersStayTrue`, `OneWallet`,
  `ActivationIsStored`. `WorkspaceKeys`: `KeysAreOrdered`,
  `VersionChangesOnce`, `ProfileKeepsItsKey`.
- `BuilderDrafts`: `OneDraftPerETag`, `FreshTabsOverwriteNothing`,
  `LeftDrawingsStayAway`.

The type invariants (`TypeOK`, `PaidTypeOK`, `BuilderTypeOK`, `PlanTypeOK`,
`AgentTypeOK`, `HarnessTypeOK`, `OwnerTypeOK`, `KeysTypeOK`) are proved, so no
run spends time on them. So are `OneRunAtATime`, `KeyPerCommand`,
`ServedWasPaid`, `ProofUsedOnce`, `LedgerMatchesPayments` and
`NoUnpaidProviderUse`, which are simpler than what the runs check. The types of
rows in `DagExecution` are part of `RowsAreShaped`, which is proved.

## 4. Runs

| Run | Shows | Instance |
|---|---|---|
| `deployments` | all of `Deployments` | 2 keys, 2 calls, 2 publish calls, 2 versions, 2 revisions, 2 prices, 2 free aliases and a taken one |
| `replays` | money: two requests race with the same transfer in two encodings and with another transfer, with crashes and lost answers | 2 requests, 2 transfers, 3 headers, 1 revision |
| `withdrawal` | two paid requests while the owner retires, suspends, deletes and publishes again at another price: no execution without an offer, and each accepted request is closed | 2 requests, 1 transfer in 2 encodings, 2 revisions, 2 prices |
| `plans` | two sources of one credential under a join, paged while rows come and go; every operator against its reference; proposals validated, reduced, compiled and executed | 4 ids, page sizes 1 and 2, 2 requests, ceilings 1, 2, 3 and 5: below, on and above the page boundary and beyond what the requests bring; tables of up to 3 rows with nulls, ties and repeated keys, two nodes deep, and for the sorts all orders of 5 rows; 29 plans with each of 28 queries and 10 lists of pushed nodes on 3 providers of up to 4 rows, pages of 2, at most 2 groups of 3 predicates |
| `agent_turns` | two submissions race for a session | 2 requests, 2 keys, 2 texts, 1 event of the planner and the one of a failure; deletion, cancellation, failing writes, lost answers, a stop |
| `harness` | every output a model may give | 2 needs, 2 models, the limit of the code and the smallest with a call per stage |
| `workspace` | what an owner asks, two to four requests at a time | 20 workloads over 30 requests, 2 faults, 3 attempts of a save |
| `drafts` | one draft in two tabs, through saves, builds, reloads, a new plan and a deletion | 2 tabs, one with session storage, 2 plans, 2 edits, 2 requests |

Two of everything is where these properties can first fail: two deploys race
for a row, two publish calls for a pointer, two requests for a proof or a
transfer, two submissions for a sequence number, two selections for an index,
two tabs for a row; a second revision, version, plan or edit makes the first
one stale. Two needs are enough for the harness to lose one or to swap them,
five rows for a heap with two levels below its root, two groups
of three predicates stand for the code's 64 of 64, so that both limits are met. The paid runs start from
the state a build, a deploy, a wallet observation and a publication lead to, so
that their bounds are spent on what follows. Deadlock checking is off where a
run ends with its bounds.

Names that the model only compares (keys, calls, offers, requests, the two
encodings of one transfer, needs, models) are declared symmetric in safety
runs; no run with a liveness property has symmetry.

The runs that expect a violation state what a document of the repository says
and show how the code departs from it:

| Run | The document | The code |
|---|---|---|
| `uncharged` | an uncertain payment is never assumed unpaid (`data-model.md`) | a settle call that times out marks it failed |
| `silent_overwrite` | saving rejects stale writes (`frontend/workflow-editor.md`) | a cached draft is saved under the newest lock version |
| `pushed_too_far` | only the exactly equivalent filter or sort is removed (`backend/src/modules/dag/README.md`) | a filter is removed although a top K, a redefinition of its field or another branch stands before it, and a sort although another stands before it: the query filters and sorts too early |
| `null_checks` | nullable fields support explicit null checks (`backend/harness/operators.md`) | a union takes its left input's shape at run time, so a null check the compiler accepts throws |

More departures are visible in the models and have no run of their own:

- an accepted operation pins its version (`docs/api/consumer-payments.md`), but
  the execution runs the version active by then;
- a matching retry returns the original resource (`api-contract.md`), but the
  second of two first deploys compares the command with an id it drew itself;
- a paid, undelivered request is to be delivered on retry (`data-model.md`),
  but the retry is refused as a replay;
- an edit made while a save is under way is marked clean with it, and a draft
  restored from session storage starts clean;
- a deploy that waited for its lock activates the newest version of an older
  snapshot, and building an old specification again returns the old version
  while deploy activates the highest number;
- a payment is submitted for a revision retired after the gate was loaded, and
  a product deleted while its offer is being checked is published (`publishX402`
  does not read the product again); suspending a deleted product finds no row,
  so its keys stay;
- a served request is marked failed when the answer to its COMMIT is lost;
- after a stop of the process a planning command runs for ever and its session
  refuses every message; an activation's key conflicts for ever; a payment
  stays submitted;
- of two first sign-ins the second may bind under a snapshot without the
  wallet row and answers 503; the next sign-in succeeds;
- two selections of different keys at once may end in a unique violation,
  answered as a storage error;
- an older observation of the Hedera account may overwrite a newer one;
- a join leaves out its right keys where the left row has fields of these names
  (`deployments/runtime.ts:296`), but its shape leaves them out where the left
  shape has them (line 302). After a left join a row without a match lacks the
  added fields, so a second join with such a field among its right keys adds to
  that row a field no shape declares (an output leaves it out again). This is
  why the theorems about plans ask for `JoinKeysAreThere`;
- an `unsupported` result is to be an evidenced explanation of a missing
  source fact (`backend/harness/planner-orchestration.md:28`), but only the
  last stage of the harness compares such a claim with the evidence it showed;
  the three stages before it return what the model claims
  (`controller.ts:1626`, `1809` and `1897`; `EarlyUnsupported`);
- a deploy retried after a suspension is answered from its command: the answer
  says `healthy` and names the key that was revoked
  (`postgres-repository.ts:151`); neither is live, which is what
  `WithdrawalIsFinal` is about;
- the draft of the operators asks for `groupBy` fields that are not null
  (`backend/harness/operators.md:109`), but rows with a null key form a group
  like any other; `RowsAreAccountedFor` counts them;
- a join is to reject an implicit many-to-many fan-out (`operators.md:29`), but
  of several right rows with one key the last is joined and the others are
  dropped without a word (`deployments/runtime.ts:291`);
- a create repeated after the product was deleted throws
  (`PRODUCT_REPLAY_READ_FAILED`), a repeated update answers `not_found`; the
  fingerprint of an update does not tell an absent description from a null one
  (`products/service.ts:237`).

## 5. Fairness

- `AcceptedIsClosed` assumes weak fairness of each request's own steps, the
  exception out of an await among them: the facilitator is called with a
  timeout of 15 seconds (`blocky402-client.ts` `requestSignal`), and a running
  process answers a transaction one way or the other. Nothing is assumed of
  the network, of the owner or of the arrival of requests. It holds of
  `CalmSpec` only, in which the process does not stop and no COMMIT answer is
  lost: after such a failure a payment may stay submitted for good, because
  the worker reconciles nothing.
- `ExecutionEnds` assumes that the execution itself goes on: every query is
  answered or aborted by its timeout. The provider may change all the time.
- `RunsEnd` assumes that a request under way goes on: a run is
  aborted after `runTimeoutMs` at the latest, a statement is answered or fails. It allows that a process stopped or a
  write failed (`faulted`): then a command may run for ever, as said above.
  A cancellation is not assumed, nor that a message is ever submitted.

## 6. Theorems

All are of the full specifications, for any constants that satisfy the
module's assumption: `DeploymentAssumption` and `PaidAssumption` (finite sets
of requests and transfers, a header carries one transfer, `None` is none of
the values), `PlanAssumption` (an acyclic plan, finitely many ids, positive
limits), `HarnessAssumption` (call limits of at least four),
`AgentAssumption` (refusals are no requests), `BuilderAssumption` (the tabs
with storage are tabs, the bounds numbers), `OwnerAssumption` and
`KeysAssumption` (requests name products and keys that exist or that a request
of the behaviour makes; rows, requests and answers are not `None`, and the keys
and the product that are there at the start bear other names than those a
request makes: identifiers are drawn as UUIDs by the code), and for plans
`ConfigsAssumption` and `TablesAssumption` (section 2), `MarkersAreNoValues`
(null, an exception and a rejection are three things and no value of a field),
`PlacesAssumption` and `MaxStepsAssumption` (numbers).

- `PaidRequestsProofs` begins with the lifecycle: the type invariant and every
  property of `Deployments` the run checks. The inductive invariant `IInv` adds
  to them what the steps rely on: revision numbers are given out in order (so a
  new one was never used), a deployment that points at a revision is healthy,
  and what a call that answered `deployed` or `replayed` says of its command.
  Then come the type invariant, the safety and step properties and the
  refinement of `PaidRequests`. `PaidInv` ties the place of each process to
  its rows: before `begun` there is no payment; from `confirmed` on the
  payment is confirmed; a recorded failure is not followed by a step that
  confirms; each confirmed payment has one settlement of an executed transfer,
  and conversely. Revenue then follows from the injection of confirmed
  requests into executed transfers. That money taken is not written off
  (`SettledStaysOnRecord`) needs to know who still may fail: `ToldOfSettlement`
  says that such a request is past the settle call, where every path that
  still fails it passes on that the settlement had succeeded. The behaviour of `Deployments` is used
  through its own invariant only.
- `LivePlanProofs` proves types, `PlanIsScheduled` and `SourceIsComplete`.
  That every acyclic plan is scheduled rests on `ScheduleInv`: while a pass
  has run nothing, no node it has left behind is ready; acyclicity says that
  some pending node is, so a pass that ends has run one. `FetchInv` says of the pages so far
  that every lasting row up to the cursor is there and none is beyond it, so a
  short page or the ceiling ends what can be missed; `Ended` keeps it for the
  source after its fetch.
  It also has the theorems about `Decimals`, for integers of any size and
  sign, as BigInt has them: `QuotientsAreNearest` (the quotient of Map is the
  nearest, of two the even one), `AveragesAreNearest` (that of Aggregate, of
  two the one farther from zero) and `FloorAndCeilAreTight` (although the
  division truncates). They rest on Euclid's division, one sign at a time.
- `AgentHarnessProofs` proves types and the three properties. The budget
  argument is `Room`: at each stage the calls left are at least those that it
  and the stages after it need; a repair is only asked for while that stays so.
  `LockInv` says, stage by stage, which needs the locked candidates cover, that
  they are one per need, found and admitted; that a returned plan picks them
  follows from the deterministic validation alone.
- `AgentSessionProofs` proves types and all six safety properties. `Local`
  ties each request's place to its command, its planner's status and its trace
  (`Phase`, `Verdict`, `Trace`); `RowInv` is about the rows of the session:
  the only running command is the one of the last message (`LastRuns`), a
  snapshot with a free session saw at most the messages there are (`Sights`),
  user messages are those of accepted requests (`Authors`), one row of each
  key (`OneOfEachKey`); `AnswersInv` says which command an answer names. Two
  submissions that both saw the session free saw the same length, and the
  second to write collides with the first: that is where one run at a time
  comes from. `SessionImplementsConversation` follows: every step begins a
  command, completes one, or is quiet (`RowKinds`); by `RowInv` the first is
  `Ask`, by `Local` the second is `Reply`, and the third changes nothing the
  mapping shows.
- `BuilderDraftsProofs` proves the type invariant, that a lock version names
  one draft, that tabs without session storage overwrite nothing unseen, and
  that a drawing left unsaved comes back to no canvas, for any number of tabs
  and requests. Its invariant has four layers: `PagesInv` (a page awaits one
  request at a time and only while mounted), `RowInv` (the row is the last
  version; a stored request names the version with its content), `FreshInv`
  (drawing and lock version of such a tab come from one read or one answer)
  and `LeftInv`. The last is what `LeftDrawingsStayAway` needs to be
  inductive: a drawing that was never stored is on the canvas and in the
  session storage of one tab at most, and of none once it was left
  (`Private`); drawings are numbered in the order they are made (`Numbered`),
  so a new one is nobody's.
- `WorkspaceKeysProofs` proves types and all seven properties of the workspace,
  for any requests sent together.
  `OwnerInv` has three parts that do not depend on each other. `ProductInv`:
  every version of a product has the one command row that made it, and what a
  request was told has a witness that lasts: a stored row, or a version that
  has passed (`Refused`: neither it nor a request equal to it can be accepted
  any more). `SignInInv`: the provider holds one wallet at most, and what a
  sign-in is about to bind is that one. `ActivationInv`: a key has one row and
  one request that runs it; that one alone asks the faucet, and until it does
  nobody has asked under this key; it finishes only with an account on record. Each part names its own tables, so a step either
  belongs to it or is quiet for it.
  The steps of `WorkspaceKeys` are quiet for all three (`Foreign`); the stored
  keys have `KeysInv`, which adds to the properties what a request relies on
  between two of its statements (`KeyRequest`): a selection that took the lock
  of its target still has it as it was; an accepted change has moved its row
  past the version it named; a profile that was read is the one stored, or is
  older. Every step of another request leaves that alone (`Leaves`: rows stay
  and only count up, a locked row changes for its holder only, the profile
  goes on). `WorkspaceInvariant` composes the two.

- `DagOperatorsProofs` and `DagExecutionProofs` prove the five properties of
  `DagExecution`, for any nodes, sources and lengths of plans: `RowsFit`,
  `RowsAddUp`, `TopIsKept`, `RoundingStaysNearest` and `FormsAgree`, together
  in `PlansAreRight`.

  The invariant is that the rows have the compiled shape (`RowsAreShaped`, with
  `StepsAreBounded`): both derivations have the same fields and types, every
  value is of its field's type, null or missing only where the compiled shape
  says so. It is stronger than `RowsFitTheirShape`, which does not speak of the
  types of values, and needs to be: whether a comparison throws, and with that
  which shape the next node gets, depends on them. One lemma per operator says that its rows fit the
  shape derived for it; for filters and maps they rest on
  `ExpressionsAreSound`: an expression has, on rows of a shape, a value of the
  type inferred for it, null only if it was inferred nullable, or throws, even
  when the execution infers under a shape that differs in nullability.

  For joins the invariant is not inductive by itself, for the reason given in
  section 4: it needs the declared right keys to be in every row
  (`JoinKeysAreThere`). The theorems take that as a hypothesis about the
  behaviour, and `KeysStayThere` proves it from `NamesApart`, which looks at
  the names of the plan alone: no right key of a join begins with a join's
  prefix and goes on with the name of a field. `PlansAreRight` asks for
  `NamesApart` and nothing else; that the checked instance satisfies it is
  evaluated by TLC (`MCNamesApart`).

  From the invariant every step leaves a record (`Recorded`): what the last
  node made of its inputs, in terms of the operators. The other properties are
  about that record.
  - `SortKeepsTheTop`: comparing rows is a strict total order on a sort's items
    (the place in the input decides last), `SiftUp` and `SiftDown` preserve "no
    row is worse than its parent except at one place" and end where there is
    no such place: since a row moves at most as often as there are rows, that
    bound on the number of swaps is part of what is proved. `TopKFacts`: the heap always has
    the best of the rows seen so far. `SortFacts`: the nth row left has n - 1
    before it.
  - `RowsAreAccountedFor`: each row falls into the group of its key, keys are
    listed once, and totals are additive over a partition; decimal sums are
    compared as rational numbers, by their coefficients at a common scale,
    since groups are added in another order and at other scales than the input.
  - `RoundingIsNearest`: the theorems about `Decimals`, and that writing a
    decimal without its zeros keeps its value (powers of ten multiply).
  - `FilterFormsAgree`: a condition's comparison with null is false where the
    expression's is null; `and` and `or` of values in which null takes the
    place of some false ones are true together. `not_in`, `in` and `between`
    become nested expressions, for which evaluation is unfolded part by part.

  These are proofs by induction over numbers, lists and expressions. The
  theorems of the library that state induction take an operator as a parameter,
  which the provers cannot instantiate, so induction is done on sets: a set of
  numbers that is not empty has a least element (`LeastNumber`, from the well-foundedness of <),
  hence a set with 0 that is closed under successor has all numbers
  (`FromNumberToNumber`). That a recursive function exists and satisfies its
  equation, which TLA+ does not give for `f[n \in S] == ...`, is
  `IterationExists` for numbers and `InferenceIsRecursive` and
  `EvaluationIsRecursive` for expressions.

Stating the types showed that the second clause of `AnswersStayTrue` did not
say what its comment says: without parentheses, its implication bound only the
last of its alternatives. It was corrected before it was proved; TLC
and TLAPS now check all of it.

Writing the proofs changed the models of plans in form, not in what they
compute: recursive operators became recursive functions, and a CASE whose
guards overlapped (any of its branches may be taken) became a chain of IFs in
the order of the code. The slip for top K became one about `Worst`, which
every comparison of `siftDown` goes through.

Only model-checked: the liveness properties `AcceptedIsClosed`,
`ExecutionEnds` and `RunsEnd`, which the prover does not handle, and
`ChainedPushdownKeepsTheAnswer`. The latter compares two executions of a plan
that is a graph, node by node in an order the graph gives: `ResultAt` and
`ShapeAt` of `DagPushdown` are recursive operators over that graph, and the
comparison also rests on what the provider selects, which is modelled from
outside. The properties of the violation runs are false of the code and are
not theorems.

## 7. Not modelled, and what is left

- Operators on texts, instants, units and json; the form of configurations and
  most checks of the graph itself (`dag/compiler.ts`, beside shapes); the
  GraphQL text that `live-plan.ts` writes and the portable runner.
- Of the pushdown: the other arguments, variables and selected fields of a
  query, list-valued paths, fields of an object with the same key, the fetch
  ceilings, conversions of epochs, and the result and units the agent promised.
- The older `plan` and `run` entry points of the harness, its trace reports,
  the prompts and the ranking of candidates. Discovery and the MCP client are
  I/O against The Graph; of its schema cache only eviction and staleness would
  be worth a module.
- Signer grants, spending policies and balances of the wallet; the cipher; the
  one transaction that writes the rows of a new user under an advisory lock.
- The listings, the delivery projection, `exportBundle`, the demo runtime, the
  controllers, which validate and route, and the transport's limits.
- The rest of the frontend and the command line.

Next, in this order: an abstract product store (products with versions, keys
that act once) which `OwnerRequests` implements; step properties of the stored
keys (what is revoked stays so); the polling of the agent's plan in the
frontend (`useAgentPlan.js`) composed with `AgentSession`; the command line's
payment exchange composed with `PaidRequests` as the buyer; the editor's
history; the schema cache.
Not planned: generated and vendored code, styles, translations, evidence and
submission material.
