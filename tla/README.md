# A TLA+ verification project for the GeoNexus SDK

GeoNexus lets agents, web clients and federated nodes run geospatial *tasks*: a graph of tasks
with dependencies is driven to its end over a store, a scheduler and an execution backend.
Around that core stand a central dispatcher with remote workers (CAFE), registries that nodes
pull from one another, nodes that answer requests or hand them over (GeoMCP), a recipe
catalogue, agents that plan and replan, and adapters to external services.

This directory holds TLA+ models of that program, the TLC configurations that check them on
small instances, and TLAPS proofs that hold for every instance. The models are written from
the code; the documents (`docs/GEOTASK.md` in particular, which calls itself the frozen
contract) are only consulted for what the code is supposed to do.

Contents: [1 The system](#1-the-system), [2 Modules](#2-the-modules),
[3 Runs](#3-what-the-runs-show), [4 Bounds](#4-bounds-and-why-they-are-enough),
[5 Fairness](#5-fairness), [6 Proofs](#6-what-is-proved),
[7 Findings](#7-where-the-code-and-its-documents-disagree),
[8 Not modelled](#8-what-is-not-modelled-and-why), [9 Next](#9-what-is-left),
[10 Running](#10-running-the-checks).

## 1. The system

Paths are relative to `src/geonexus/` of the repository.

### 1.1 Task execution (`geotask/`) - the core

| part | state | operations |
|---|---|---|
| state machine, retry rule (`machine.py`, `model.py`) | none: nine states, the table of legal moves, the error codes with a retryable flag, attempts | `assert_transition`, `allows_another_attempt`, `backoff_for` |
| store (`store.py`) | per task: state, attempt, cancel flag, error, lease; a journal of events with sequence numbers; one reentrant lock | `put`, `transition`, `set_lease`, `report_progress`, `request_cancel`, `reconcile`, `events_since`; `JsonTaskStore` flushes all of it to a file at every event, transition and lease |
| graph (`graph.py`) | the tasks (shared with the store once bound), their order | `ready`, `mark_running/retry/done/failed/blocked/skipped/cancelled`, the cascade of failures |
| scheduler (`scheduler.py`) | reservations, arrival numbers, a rotation cursor per priority, backoff deadlines | `admit` (admitted, blocked, rejected), `release`, `defer`, `next_wakeup`, `forget` |
| backend (`backend.py`) | a thread pool, a future per task | `submit`, `poll`; `cancel` answers that it cannot |
| runner (`runner.py`) | handles, the set in flight | `run`: admit, launch the round, wait for one completion, apply it, again |

Interaction: the runner is one thread and calls the other parts synchronously. Bodies run on
the pool's threads and reach back into the store (progress, "should I cancel?"). Clients call
`request_cancel` from their own threads. The store's lock makes single calls atomic, never two
in a row. Who uses it: `agent/planner.py` (no scheduler, a memory store, settled steps
preloaded), `web/tasks.py` (the store and the state machine, its own pool), `cli.py` (reads
and reconciles the JSON file).

Hard: a cancellation may fall between any two steps of the runner; a task may be executing
before the store says so; outcomes are polled twice; retries, backoff and cascades overlap; the
process may die between two writes. Correct means: nothing executes on missing inputs; every
task ends, once; failures reach everything below them and nothing else; attempts, capacity and
concurrency stay within their limits; what the file says has ended stays so.

### 1.2 The other parts

The last column names the module that has it; section 2 says how.

| part | state | operations and hard behaviour | what makes it correct | module |
|---|---|---|---|---|
| web tasks (`web/tasks.py`) | callables and futures by task id over a `TaskStore`, a persisted view | submit (an id may be reused), cancel, status; state is read and changed under different locks, views are written outside them | a submission is settled, a cancellation is honoured, no view is ahead of its task | WebTasks |
| web API (`web/router.py`, `app.py`, `auth.py`, `datasets.py`) | per backend: keys, tasks, streams | login, discover, execute, poll, cancel, event stream; any backend may get any request, and restarts | nothing without a valid token; a stream tells the story in order and ends | WebApi, Onboarding |
| CAFE dispatch (`cafe/central.py`, `worker.py`, `protocol.py`, `remote.py`) | workers, leases by task id | register, route, dispatch with failover, reclaim; failover edits the shared worker table, a late answer meets a reclaim | a worker is lost only where two failovers meet, nobody is passed over, a dispatch ends | Cafe |
| CAFE events (`cafe/events.py`) | history, bounded subscriber queues, sequence numbers | publish, subscribe with replay, clear; full queues drop, replay overlaps with live events | a reader misses nothing it had room for | EventHub |
| registry and review (`registry/`) | cards, skills, plugins, recipes, review status and history, a file; cached probes | register, review, search, remove, sync; an answer may be lost and the call repeated | only what was reviewed or pulled from a peer shows | Registry, RegistryApi |
| registry federation (`registry/federation.py`) | last pull per peer | pull from peers, import | only what somebody vouched for spreads; a pull ends | Registry |
| federated query (`federation/client.py`) | health of nodes | locate, filter, push down, merge | no card is executed twice or left out in silence | FederatedQuery |
| recipes (`recipe/`) | recipes, review history, a file, a copy of it per process | register, fork, replace, review, reload, plan; validate, materialise, run | only approved recipes are run; only sound documents are accepted | RecipeCatalogue, RecipeRun |
| agents (`agent/`) | a plan and the status of its steps | text to goal, goal to plan, run, reflect, repair; code, fault, repair | a plan names what was there; a repair keeps the order | AgentPlanning, PlanReflection |
| model invocation, OGE, OGC processes, MCP tools (`model/`, `adapters/`, `mcp_client.py`) | remote jobs, two credentials that expire | gate, submit, poll, time out, collect | success is backed by a job; a call ends | RemoteJobs |
| contract registry (`gaag/`) | contracts, a SQLite file, a copy per process | register, remove, bind, enforce | the file holds the last word; the best suitable contract is bound | ContractRegistry |
| GeoMCP (`geomcp/`, `mcp_adapter.py`, `mcp_client.py`) | per server: skills, cards, the event loop | describe, plan, execute, invoke at three doors; delegate, push down; import foreign tools | an answer says what happened; a request is executed once; everybody is answered | GeoMcp, NodeServer |
| GeoNode, GGIHS (`geonode/`, `ggihs/`) | what a node holds and has advertised; a catalogue collected in rounds | load packages, advertise, serve, come up again; a round over all registries | a bound node is advertised; the catalogue is true | NodeLife |
| knowledge graph (`kg/`) | entities, relations, a cursor, a file | add, import, save, append, load | file and cursor together are the graph | KnowledgeGraph |
| cards (`geocard/`, `resource.py`, `market.py`), onboarding (`registration.py`, `register/`) | a card, a draft | build, validate, match, show; probe, draft, upload, submit | what is decided is what the card says; a card claims nothing nobody found | CardRules, Onboarding |
| security tables (`security/`), `metadata.py`, the other adapters, `cli.py`, Java client | data | parsing, formats, printing | - | section 8 |

`PROJECT.json` lists every component with its files and status, and every hazard at the line
where it bites, with the properties that cover it.

## 2. The modules

```
TaskMachine        states, moves, retry rule (pure)
   |-- GeoTask        runner + graph + store + backend + any admission order, one run()
   |      |-- TaskContract    what a graph of tasks promises; GeoTask implements it
   |      +-- TaskRestart     the same over the JSON file, with crashes and reconcile
   |-- TaskJournal    the journal and the file, two threads or two processes at once
   +-- WebTasks       the web task manager
Scheduler          the admission order, under the runner's loop

model checking     of                                         theorems
MCGeoTask          GeoTask, TaskContract                      GeoTaskProofs
MCTaskRestart      TaskRestart, TaskJournal                   TaskRestartProofs
MCScheduler        Scheduler                                  SchedulerProofs
MCPlatform         EventHub                                   EventHubProofs
                   WebTasks, WebApi, Cafe, Registry,
                   FederatedQuery                             PlatformProofs
MCRequests         RecipeCatalogue, RegistryApi, RemoteJobs,
                   PlanReflection, AgentPlanning,
                   KnowledgeGraph, RecipeRun                  RequestsProofs
MCNodes            ContractRegistry, Onboarding, NodeServer,
                   NodeLife, GeoMcp, CardRules                NodesProofs

StepByStep         induction by counting, for SchedulerProofs, RequestsProofs, NodesProofs
```

The MC modules give the constants small values. MCTaskRestart, MCPlatform, MCRequests and
MCNodes hold parts that share no state: a variable `focus` is chosen at the start and says which
part the behaviour is about; the others stay at their first state. So one run checks each part on
its own. They do not compose: where parts do interact, one module has both sides
(GeoTask the runner with store, graph and backend; Registry several registries; NodeServer several
nodes; RecipeCatalogue and ContractRegistry several processes over one file; Onboarding the
submitter, the network and the registry's handlers).

Definitions headed *Slip* are deliberate mistakes. They are used nowhere in the models: each is
the mutated form of the definition that follows it, and the corresponding property has been
seen to fail when it takes that definition's place (`PROJECT.json`, "mutants").

### 2.1 TaskMachine

The transition table, the terminal, runnable and satisfied states, the codes and
`AllowsAnotherAttempt`. `Move` is `TaskGraph._move`: a move the table refuses is dropped on a
terminal task. On a live task the code raises; `Move` then leaves the state alone, and
`NeverRaises` shows that this never happens.

### 2.2 GeoTask

State: `state`, `attempt`, `cancelReq`, `error`, `leased` are the store's; `held` and `deferred`
the scheduler's reservations and backoff; `pc`, `refused`, `round`, `current`, `inFlight` are
where `run()` stands and what it holds in its hands; `body[t]` is the execution behind the
handle the runner has, `orphans[t]` counts executions whose handle was dropped.

| action | code |
|---|---|
| `Admit`, `Refuse` | `_admit`: reserve, mark blocked what must wait; fail what fits nowhere, with the cascade |
| `Stop` | `should_stop()` |
| `LaunchCancelled` | the flag is up when the launch loop comes to the task |
| `Claim`, `Submit`, `MarkScheduled`, `MarkRunning` | lease; `backend.submit`; the two moves of `mark_running`; separate, because clients and bodies act in between |
| `SubmitRaises` | `submit` raised: release and apply the failure |
| `RoundDone`, `Idle` | wait, sleep for a backoff, or end |
| `WaitAny` | `_wait_any`: a first poll that is not RUNNING, or that raised |
| `CollectSuccess/Cancelled/Failure/Unsettled` | the second poll and `_apply`: done, cancelled, retry or fail; *unsettled* is a first poll that raised and a second one that says RUNNING |
| `RequestCancel` | `TaskStore.request_cancel`, by another thread |
| `BodyReturns`, `BodyRaises`, `OrphanEnds` | `LocalBackend._run`; a body that returns with the flag up is cancelled |
| `BackoffElapses` | time |

The grain is one store call. Calls are merged where no other thread can act in between to any
effect: the moves of one cascade, for instance, commute with a client's cancel, which either
came first (the task is terminal and is skipped) or is refused.

`Fits(S)` stands for capacity and the concurrency limit; all that is assumed is that a part of
what fits, fits. `Admissible` is then all one can say of greedy admission in an unknown order:
the set fits and nothing left behind would. `Downstream(S)`, what the cascade's search visits,
is written as the least set closed under its step, so that proofs can use it.

Initially tasks are fresh, or settled by the agent's preload (`succeeded` with satisfied
dependencies, `skipped`). `Flaky` chooses between the local backend, whose `submit` and `poll`
do not raise, and a remote one, whose do.

### 2.3 TaskContract

The abstract specification: a task waits, is active, or has ended. It begins on satisfied
dependencies only; attempts are bounded; and tasks that end without product (`Collapse`) take
waiting tasks with them only behind a lost dependency, and all of those directly behind what is lost
in that step. `GeoTask` implements it with `phase` as a function of `state` and `tries` as
`attempt`.

### 2.4 TaskRestart and TaskJournal: the state file

`TaskRestart` is `GeoTask` over the file. `disk[t]` is what the file says of `t`. A step of
`GeoTask` happens in memory and the file follows it task by task (`Write`) before the next store
call: `mark_failed` and `mark_cancelled` write their own task first and the cascade each dependent
after the one it was reached from, so `Writable` holds a dependent back until its cause is
written. A flag raised on a started task is not flushed by itself; it goes with the next flush
(`ReportProgress`, or any `Write`). `Crash` may come at any point, also between the writes of one
cascade. `Restart` loads the file and reconciles it; since leases are never renewed and the
restart may come at any time, any lease may have run out. The intermediate moves of one chain
(created, queued, blocked) are not written separately: reconcile and `ready()` treat the three
alike.

`TaskJournal` has what `TaskRestart` takes as one step: the flush. A store call changes memory
under the lock (`Put`, `SetLease`, `MoveOn`, `CancelBeforeStart`, `Progressed`, `Reconcile`,
`Explain`), most flush again after the lock (`Unlock`); a flush reads the tasks, then the events
(`ReadTasks`, `ReadEvents`), fills the one temporary file (`Open`, `Fill`) and renames it
(`Replace`). Two threads of the service, or a thread and the command line with a copy of its own
(`ComeUp`, `CommandEnds`), interleave; `Die` may fall anywhere, `OpenStore` loads what is there;
`EventsSince` is a reader with its cursor, `RemoveTask` forgets the task.

### 2.5 Scheduler

`Admit` with the code's order. `Precedes` puts `_fair_order` into one formula: priority, then
how many tasks of the same owner come before (`Depth`), then the owner's place in the rotation
(`Place`). `Greedy` says which set is admitted when candidates are tried in that order. The
rest is the loop of `run()`: one admission; then every task of the round is launched (`Launch`), released
because a client cancelled it meanwhile (`Skip`), or failed by a backend that would not take it
(`SubmitRaises`), in any order; then one completion or retry, and so on. `Withdraw` is a client's cancel of
what waits or is admitted and not yet launched; one of a running task shows in how it completes.
Several resource dimensions are one number; the order does not look at them.
`turn` and `dropped` are history variables that the actions never read.

### 2.6 The platform: what serves many clients at once

* **WebTasks** (`web/tasks.py`). `Submit` and the sections of `_worker` (`TakeUp`, `Look`, `Begin`,
  `BodyEnds`, `Judge`, `SettleJob`, `Fail`, `Drop`) each hold the manager's lock; `AcceptCancel` takes
  the store's only and falls between any two. `TakeView` and `HandView` are the projection of a
  task and its being handed to the callback, apart because no lock is held between them.
* **WebApi** (`web/router.py`, `auth.py`). Backends, each with its `JWTConfig`; a token is a record
  of who signed with which key and until when. A request goes to any backend: `Login`, `Discover`,
  `Execute`, `Goal`, `Poll`, `List`, `Cancel`, `OpenStream`; `Turn` is one turn of the generator of a
  stream; `Take` and `Finish` the pool; `ServerRestarts` forgets the tasks, `Tick` is the clock.
* **Cafe** (`cafe/central.py`, `worker.py`, `remote.py`). A dispatch in its steps: `Send` executes at the
  worker, `Answer` and `Blow` end it, `TryAnother` goes on or, in its last round, ends. In between is
  `_route_excluding`: `Check` and `Pop` take the tried workers out of the shared table one by one, with no lock and
  before the `try`, so another failover may come between (`PopFails`, a KeyError that puts nothing back);
  `Iterate` and `Choose` are the route, `Restore` the `finally`. `Explain` is the second route of a refusal. `RegisterWorker`, `Recover`, `Reclaim` come from outside at any time.
* **EventHub** (`cafe/events.py`). `PushEvent`, `SubscribeEvents`, `Replay` and `Deliver` (a generator's
  turns), `Leave`, `ClearEvents`. A push after a clear starts new lists: the n-th life of a request has
  generation n.
* **Registry** (`registry/`). Several registries: `Register`, `Review`, `Unregister` with a save that may fail, the
  sync entry by entry (`StartSync`, `Fetch`, `PeerFails`, `Import`, `Advance`), `Restart` from the file. A sync
  over HTTP holds the event loop, so two registries that pull from one another block each other.
* **FederatedQuery** (`federation/client.py`). `Resolve` one card, `FilterHealthy`, `PushDown` one node;
  meanwhile `Reregister`, `Flip`, `Forget` (the cached probe).

### 2.7 Requests: from a text to a result

* **RecipeCatalogue** (`recipe/registry.py`). Processes with a copy of one file and one temporary
  name: `Register`, `Fork`, `ReviewRecipe`, `RemoveRecipe`, the save in its steps (`Save`, `Replace`, `Stamp`), the
  reload in its two (`Reload` clears, `Load` fills), `PlanRecipe` of a reader without lock, `Restart`.
* **RecipeRun** (`recipe/model.py`, `materialize.py`). `Validate` a document from a set of all small graphs,
  readers, deliveries and parameters; `Materialize` it with a given value; run its tasks (`TaskStep`).
* **AgentPlanning** (`agent/llm_planner.py`, `planner.py`, `code_agent.py`). `GiveText`, with one repair,
  `GiveGoal`, then request by request (`RequestStep`) against a registry that moves (`RegistryMoves`); `WriteCode`
  and `TryCode` are the code agent.
* **PlanReflection** (`agent/planner.py`, `reflective.py`). First pass, then one failed step at a time: retry,
  replace, skip or give up, as the advisor says.
* **RemoteJobs** (`model/`, `adapters/oge_*.py`, `ogc_exec.py`, `mcp_client.py`). Five kinds of call go
  through `PassGate`, `EnsureKey`, `Renew`, `Submit`, `Poll`, `TimeOut`, `PollBreaks`, `Collect`, `Finish`; `Flip` is the
  service, `Expire` a credential.
* **RegistryApi** (`registry/server.py`, `client.py`). `Ask`, `Serve`, `Lost`, `GiveUp`: a call and what may
  become of it; the handlers with scopes, statuses and saves that raise; `Pulls` is a sync, by whom, whatever the peers
  list (how it goes entry by entry is Registry's subject); `Probe` with its cache.
* **KnowledgeGraph** (`kg/`). `AddEntity`, `AddRelation`, `ImportContracts`, `SaveGraph`, `AppendNew`,
  `WriteCutOff` (a write that stops at any line), `LoadGraph`, `NewProcess`.

### 2.8 Nodes and registries

* **NodeServer** (`geomcp/server.py`). `Send`, `Take` (the endpoint begins), then `Execute` here or
  `Relay` to the owner of a card, by the rules for delegation and for pushdown (`Decision` with its estimate);
  `Timeout` of a client, `Move` of an owner. A node that waits for another answers nobody.
* **GeoMcp** (`geomcp/`, `mcp_adapter.py`, `mcp_client.py`). The doors of a node: JSON-RPC over HTTP, MCP
  over a stream in chunks and batches, MCP over stdio. `Ask`, `Arrive`, `GoInside`, `Perform` call by call,
  `StopWaiting`, `Register` (an asset) and `Stray` (somebody else answers). The bridge lists the tools of a foreign
  server page by page (`List`, `Page`, `ListFails`) and takes them in (`TakeIn`).
* **NodeLife** (`geonode/`, `ggihs/`). `Boot`, then package by package, then advertising (`SiteStep`);
  `Stop`, `TakeOut`; a GGIHS round registry by registry (`StartRound`, `RoundStep`).
* **Onboarding** (`register/`, `registration.py`, `web/datasets.py`, `registry/server.py`). Three roads: `Wizard`,
  `MakeDraft` and `Complete`, `Login` and `Upload`; then the submission, whose answer may be lost, `Look`,
  `Withdraw` and `Rule` (the review).
* **ContractRegistry** (`gaag/`, `geomcp/server.py`). `Open` a process with its copy, `RegisterContract`,
  `RemoveContract`, `Bind` (search, then the tests of a contract), `Enforce`.
* **CardRules** (`geocard/`, `resource.py`, `market.py`). A card is built section by section, saved and
  loaded; `Search`, `ValidateContract`, `MatchResource` and `Show` decide by it. Reference definitions of what
  a card means (a point in both boxes, an instant in both windows) are in the properties.

## 3. What the runs show

| run | instance | properties | what it shows |
|---|---|---|---|
| `geotask_local` | fork of 3, two cores, local | TypeOK, DependenciesFirst, LedgerIsRight, NeverRaises, OneExecutionAtATime, RunIsComplete, RunEnds | with cancellation and backoff anywhere, nothing runs on missing inputs, reservations are exact and fit, `run()` never raises and ends, and without cancellation leaves open only what backed off and what waits for it |
| `geotask_remote` | diamond of 4, one core, raising backend, one task that fits nowhere, one without handler | CascadeIsRight, KeepsContract | failures reach what is below them and blame truly; the contract is implemented: attempts are bounded, ends are final |
| `task_restart` | chain of 3, raising backend, 2 crashes; and a journal | FileTypeOK, RestartIsSound, JournalIsKept | see below |
| `scheduler` | 5 tasks, 2 owners, 2 priorities, two cores | SchedulerTypeOK, AdmissionIsRight, EveryoneIsServed | the order outranks only as it should, leaves nothing out that fits, and serves everybody as long as rounds go on |
| `platform` | two of everything, section 4 | TypeOK, ReaderMissesNothing, EachCardOnce, OnlyVouchedSpreads, SubmissionsAreSound, WebAnswersAreSound, DispatchIsSound, EverythingEnds | one safety property for each part of 2.6, and that whatever is begun ends |
| `requests` | two of everything, section 4 | TypeOK, PlannedWereApproved, GraphIsKept, OutcomeIsBacked, RecipesRunSoundly, PlanningIsSound, RegistryAnswers, PlanIsSound, EverythingEnds | one safety property for each part of 2.7, and that whatever is begun ends |
| `nodes` | two of everything, section 4 | TypeOK, AnswerIsTrue, NodeLifeIsSound, OnboardingIsSound, ContractsAreKept, CardsAreRead, DoorsAreSound, EverythingEnds | one safety property for each part of 2.8, and that whatever is begun ends |
| `geotask_starved` | as local | NothingStarved **fails** | section 7 |
| `geotask_cascade` | as local | CancelCascades **fails** | section 7 |
| `geotask_cancel` | as local | PendingCancelKept **fails** | section 7 |
| `task_restart_ghost` | as task_restart | NoGhosts **fails** | section 7 |
| `scheduler_turns` | 4 equal tasks, one place | OwnersTakeTurns **fails** | section 7 |

A property of a part is the conjunction of what its callers rely on; the conjuncts are named and
commented in the module, so that one that fails is seen by replacing the conjunction in the cfg.
Safety and liveness are separate properties, because the first are proved (section 6) and the second are not.

* `CascadeIsRight`: `FailFast` (nothing stays open behind a failure, however long the chain) and `BlameIsTrue` (nothing is blamed
  whose inputs were fine). A cascade that is too short breaks the first, one that is too long the second.
* `RunIsComplete`: `run()` stops when nothing is in flight, which says nothing of what is ready. Undisturbed (no cancellation, no
  raising backend), what it leaves open is behind something open, or has backed off; section 7 has the case for that exception, and
  `NothingStarved` and `CancelCascades` what can be left with a disturbance.
* `RestartIsSound`: at every step, dead or alive, dependencies come first, blame is true, attempts are
  bounded, every execution is leased in the file; and what the file says has ended stays so.
* `JournalIsKept`: event numbers have no holes in any copy; a reader with a cursor inside the history is
  never sent to the middle; and, as long as one flush follows another, a death at any point
  leaves a file that can be read, agrees with itself and holds every call that returned.
  `exposed` marks the behaviours in which two flushes overlapped; what goes wrong then is in section 7.
* `AdmissionIsRight`: `NoHeadOfLine` (nothing is left behind that fits), `NoInversion`, `NumbersAreStable`,
  `OldestFirst`. The first is also what `GeoTask`'s `Admissible` assumes of an admission.
* `EveryoneIsServed`: a ready task is admitted or given up, or the run ended without it because something of the last round
  fell away before it ran while nothing else was running: the case of `NothingStarved` (section 7), and the only one.
* `SubmissionsAreSound`: no body starts for a settled task; an accepted cancel is honoured; a persisted
  view is never ahead of its task. Ids submitted again while they run are excepted (`restarted`):
  see `OneBodyPerId`.
* `WebAnswersAreSound`: nothing is learned or moved without a token some backend of the trust domain
  gave and that has not expired; a stream tells the task's story in order, and its last word is
  the task's.
* `DispatchIsSound`: a registered worker is in the table or in a failover's hands, and is lost in them only if
  that call ended in a KeyError because another caller had tried the same worker (`WorkersAccountedFor`; that it is
  lost at all is the finding `NoWorkerLost`); a lease stands for an execution, or for one that raised; an undisturbed
  dispatch tries every healthy suitable worker once.
* `ReaderMissesNothing`: what a reader was sent, will be sent and had no room for is its history; what
  comes out of order is a repeat.
* `OnlyVouchedSpreads`: a card is shown only with an endpoint under which some registry approved it. `EachCardOnce`: no card is executed at two nodes, and one is
  left out only with a node that was skipped as unhealthy.
* `PlannedWereApproved`: no fork, stale copy, lost update or half reload makes a node run a recipe
  nobody approved. `RecipesRunSoundly`: accepted documents are sound (no circle, whatever is read or
  delivered exists) and sound ones are accepted unless they list a dependency twice; parameters keep their
  contract, "nan" apart; what is not done is blamed on something.
* `PlanningIsSound`: a plan names what was offered at some moment while it was made and has an order; the
  model is asked twice at most; a code agent reports what it ran last. `PlanIsSound`: repairs
  keep the order of what a step names, what is done is not run again, the first pass fills templates and always has a step that can go.
* `OutcomeIsBacked`: success is backed by the job submitted last. `RegistryAnswers`: a public registry shows nothing that no reviewer approved, but cards a writer pulled from a peer; a node
  called healthy was alive within the cache's time. `GraphIsKept`: file and cursor are the graph.
* `AnswerIsTrue`: "ok" means one execution, at a node with the cards; a request is run by one node. `DoorsAreSound`: without a key nothing is done at any door,
  in any batch; an answer other than those that may hide work means nothing was done; what was described
  stays.
* `NodeLifeIsSound`: a node bound to a registry is advertised there, what is advertised for this start is
  held, the collected catalogue is true of the round. `OnboardingIsSound`: cards claim
  no extent where there was none to find (the bounds of a raster may count pixels, see the findings), a public registry shows complete and approved cards, what was
  confirmed is there, a repeated submission harms nothing. `ContractsAreKept`: the file holds the last word on
  every id, no report without sources is anywhere, the best passing contract is bound.
  `CardsAreRead`: verdicts against the reference definitions, for cards whose box is four numbers and has an inside, as has their
  window (nobody checks this of a card); composites never open by becoming stricter.
* `EverythingEnds`, in each joint run the conjunction of what its parts owe their callers. Platform: every submission is
  settled, streams and dispatches end, a sync ends even when the peer it asks is asking it. Requests: a call ends though
  the service may never answer, runs are delivered, agents end, plans are over, calls of the registry return. Nodes:
  nodes that wait for one another still answer, starts and rounds end, letters are answered and listings end.

`FailFast` is not among the properties of `task_restart`, and does not hold there: a crash in the
middle of a cascade, or a reconcile that fails a task by a bare transition, leaves open tasks
behind a failed one.

Deadlock is checked in the GeoTask, TaskRestart and Scheduler runs (`Returned` and `Over` are the steps
of a run that has returned). The three joint runs have bounded surroundings (so many
submissions, moves, calls): when these are used up, everything may have come to rest, so their cfg says
`CHECK_DEADLOCK FALSE`; that what has begun comes to its end is said by their liveness properties.

## 4. Bounds, and why they are enough

* GeoTask: three or four tasks. A fork gives contention between unrelated tasks, a chain a cascade of
  more than one step, the diamond a task with two ways to be taken down. The proofs have no bound.
  Attempts: one or two, so that a task can retry, exhaust its attempts, or have only one.
  `MaxAttempts` is a parameter of the code (`RetryPolicy.max_attempts`), no bound of the model.
  Capacity: two cores, one of the tasks needing both; or one core, which makes it impossible.
* Restart: `MaxCrashes = 2`, one more than needed to crash in a recovered run. Journal: two flushers, a
  retention of two events among at most seven (so that history is dropped), two store calls and one death.
* platform: one web id submitted twice over a pool of two, so two jobs of one id meet; two callers that
  dispatch the same task to two workers, one preferred by region, one by data; two readers with a
  queue of one, two events and one clearing (a full queue, a replay under a push, a reader of a cleared
  life); two registries that are each other's peer, one review and one sync each; a query of two cards over
  two nodes with one move; four backends: one with a secret, one with the same secret and a public key besides,
  a key pair and its public half.
* requests: two processes with two changes (a save inside a save), a recipe and its fork; all dependency
  lists from a set of eight over three steps, so every circle and repetition of that size; three reflections and two runs of a step; one
  call of each kind with two attempts and two changes of the service; a knowledge graph of two entities and
  five calls; one client with three keys of one scope each; a cache of one tick on a clock of two.
* nodes: three requests at two nodes that each wait for the other, one of them cheaper elsewhere; three posts on
  each road; two programs, two contracts of one similarity and two intents with a search that returns one candidate; two
  starts of two nodes with a package that fails and two registries; cards of two boxes, boxes with height, half boxes
  and unreadable dates; two callers with the letters that differ in how they are handled; a
  bridge of two tools and two cursors.

Each bound is a constant in the cfg or a named set of the MC module. No state constraint and no
view is used. Symmetry is not used: elements differ in their role, and liveness is checked.

## 5. Fairness

Weak fairness only, and only of the program's own steps; nobody is obliged to submit, cancel, move,
crash, fail or recover.

* `FairSpec` (GeoTask): the runner, a thread in a loop; each body's end, the assumption a user of
  `run()` makes (a body that hangs hangs `run()`); each backoff's end, which is time. Used by `RunEnds`.
* `Scheduler`: the same for its rounds, launches, completions and backoff; used by `EveryoneIsServed`.
  It is stated for tasks without backoff: with backoff, a deadline passing between `admit` and
  `next_wakeup` lets the run end early (scheduler.py:292 against 320).
* WebTasks: the threads of the pool (`JobStep`) and the projection; WebApi: the pool and a stream's loop.
* Cafe: a caller inside `dispatch` (`DispatchStep`); Registry: a sync (`SyncStep`), whose requests have a timeout.
* RecipeRun, PlanReflection, AgentPlanning: the one thread that runs (`TaskStep`, `PlanStepAction`, `RequestStep`,
  `TryCode`); RemoteJobs: a call (`CallStep`), whose deadline passes; the service has no fairness.
* RegistryApi: a client's call (`ClientStep`: it is served, lost or given up). NodeServer: the event loop of each node and its
  timeout (`NodeStep`); GeoMcp: the loop of each door and of the bridge; NodeLife: a start and a round.

In the joint modules the same fairness is stated of the focussed part, which for the others is
fairness of a disabled action.

## 6. What is proved

Eight modules hold theorems, proved by TLAPS for every value of the constants. Each rests on an
inductive invariant; what it states, TLC checks on a run's instance too.

### 6.1 GeoTaskProofs

For every finite or infinite set of tasks, every dependency relation, every policy, every
monotone `Fits` and both kinds of backend, from `GraphAssumption`, `PolicyAssumption` and
`FitsAssumption`:

* `Invariant`: `IInv` is an invariant of `Spec`, by induction;
* one theorem for each of `TypeOK`, `DependenciesFirst`, `LedgerIsRight` (reservations are exact and fit), `CascadeIsRight`
  (`FailFast` and `BlameIsTrue`), `AttemptsBounded`, `OneExecutionAtATime`, `NeverRaises`;
* `RunCompletes`, that `RunIsComplete`; and from it `NothingLeftOpen`: if the graph has an order (a rank that falls
  along dependencies) and no policy backs off, an undisturbed `run()` ends with every task ended;
* `TerminalIsFinal`: `TerminalAbsorbs`; and `Implements`: `GeoTask` implements `TaskContract`.

None of the invariants is inductive alone: that a collected task is running, that a task marked
scheduled was runnable, that a reservation belongs to somebody, all depend on where `run()`
stands. `Positions` says so for every value of `pc`: what the runner holds has the state its last
step gave it *unless a client cancelled it since*, and an execution exists only for such tasks.
`Core` is `Positions` with the safety invariants that hold from wherever `run()` starts; `IInv` adds
what a fresh graph has besides, `FailFast`, and that nothing is scheduled or running outside the
runner's hands (`Strays`).
The graph lemmas stand first: what the cascade visits is closed (`DownstreamClosed`); whatever it
visits has a dependency that is a source or was visited and is not satisfied
(`DownstreamBehind`), from leastness; a task whose dependencies are satisfied is out of the reach
of any cascade (`SuppliedOutOfReach`). `FailFast` follows from the first, `BlameIsTrue` from the
second, `DependenciesFirst` from the third: no cascade takes down what somebody runs on.
`FailEffect` and `CancelEffect` state what a failure and a cancellation do, and each action has
one lemma that it keeps the invariant.

What `run()` remembers is not in `IInv`: `NothingIsForgotten` proves `Remembered`, that from the end of an admission on, with
nothing in a round or in flight, whatever is ready is about to be refused or has backed off. It goes by the actions on top of
`IInv`: an admission that admits nobody while nothing is reserved leaves out only what does not fit an empty node, which is refused,
and what is deferred (`Admissible`); a task leaves the round into flight, unless it is cancelled or cannot be submitted, which
disturbs the run; and a collected task leads back to the admission. `RunCompletes`
is `Remembered` at "done" with `FailFast`: an open task
whose dependencies have all ended has satisfied ones, so it is ready. `NothingLeftOpen` takes the open task of least rank (6.8).

The refinement maps cascades to `Collapse`,
`MarkScheduled` to `Begin`, a retry to `TryAgain`, a cancel before the start to `Withdraw`, and
the rest to stuttering.

### 6.2 TaskRestartProofs

For every graph, policy, capacity and backend and any number of crashes (`CrashAssumption` only
says that their bound is a number): `RestartsAreSound`, that `RestartIsSound`, and the types.

`Core` is the part of `IInv` that a run keeps wherever it starts, also on a graph that was
reconciled. The two parts it leaves out do not survive a restart: a failure that was written may
have left dependents open (`FailFast`), and a task with a lease may be running in nobody's hands
(`Strays`). `GeoTaskProofs` proves for every action that it keeps `Core`, so each life of the process
needs no new proof. `RInv` adds what ties memory and file: the file alone is a sound graph at any
moment (`FileIsAGraph`), which is what a restart relies on; no end is only in the file and what somebody
runs on is already there (`FileFollows`), which is what each `Write` relies on; a lease is in the file
before its execution begins (`LeasesCover`); a dead process holds nothing (`NobodyHome`). That a cascade writes
a dependent after its cause (`Writable`) is used for the blame in the file, that a store call waits for the
one before it (`Synced`) for the leases.

`JournalKept` (`JournalIsKept`) and `FileTypeCorrect` (`FileTypeOK`) are about the other half, the store and its flushes, for
any threads, retention and bounds (at least four events, and `Nobody` is no thread). `JournalInv` has what always holds: every copy of
the journal is without holes (`AllTidy`), and who is inside the lock holds it (`LockIsHeld`). As long as no two flushes have met, it
has `Orderly` besides: one flush of one process (`OneFlush`, `OneProcess`), which writes what that process has (`WritesMine`), memory
no more than the current call ahead of the file (`MemoryIsAhead`), a file that can be read (`FileIsWhole`) and that holds
every call that returned (`InTheFile`).

### 6.3 EventHubProofs

For every set of readers, every queue size and every number of events and clearings
(`HubAssumption`): `NoGaps`, that `ReaderMissesNothing`. The safety of a reader needs the whole
hub at once: a push and a subscription interleave, and `push` works through a copy of the
subscribers. `HubInv` therefore says what each copy holds: `Histories` and `Lists` (what is
published and which queues exist), `Fresh` and `OfItsOwn` (whose event it is and of which life of the
stream), `Replayed` and `Queued` (how far each reader is, by its own part of the code), `Complete`
(an event of a reader's history is received, on its way, in the hand of the push, or was dropped
for a full queue), `Repeats` (what is out of order was also replayed).

### 6.4 SchedulerProofs

For every finite set of tasks, every graph, owner, need and capacity: `SchedulerTypeCorrect`, and `RoundsAreRight`, that
`AdmissionIsRight`. The sum of needs is a recursive function over a finite set; that a part needs no more than the whole, and
that a set with one more task needs that much more, is proved by counting. `Precedes` is shown to be a strict total order of the candidates, so
that `Greedy` has a first one at each turn. The invariant `SchedInv`: what is held fits; every number in the
queue has one owner (`OwnNumbers`) and is at most how many there are (`UpToCount`), which keeps the depth and place of
a task well defined while others come and go. `NoHeadOfLine` is the assumption of `GeoTask` on admission.

### 6.5 PlatformProofs

Over MCPlatform, so that the parts and the joint specification are one text:

* `NoCardTwice` (`EachCardOnce`), for any moves while a query runs: `QInv` is the query's stages: located (`Locating`), grouped by node
  (`Planned`), filtered, asked (`Pushed`), in this order (`Staged`).
* `VouchedSpreads` (`OnlyVouchedSpreads`), for any registries that pull from one another: `RegInv` says that *wherever* an approval is, in memory, in a file, in a
  save that failed, in the answer a pull holds, some registry gave it for that entry and endpoint (`VouchedEverywhere`).
* `FailoverIsAccountedFor` and `DispatchIsKept` (`DispatchIsSound`): `CafeInv` holds for any callers, workers and failovers at once:
  known workers are in the table or in hands, and those in the hands of a call that is over were met by another failover (`WorkersAccountedFor`), a lease stands
  for an execution (`LeaseIsAlive`), what a caller has still to take out, has seen and has taken out fits its place and what it has
  tried (`Proper`: who has seen a worker that is gone has been disturbed by one that tried it), and for a caller nobody disturbs, the table is all but
  what it holds (`Calm`). Assumed: the workers of `Starters` are different.
* `WebAnswersSound` (`WebAnswersAreSound`): `WebInv` says who signed which token, and that an open stream is behind its
  task and has not said its last word (`StreamFits`).
* `OutcomesStayHonest`, `NoSettledBody`, together `SubmissionsSound` (`SubmissionsAreSound`), for every pool. `WInv` says for each point of a job's
  thread which states its task may have (`Judged`), since the thread reads the state under one lock and moves it under
  another; what has ever been reached (`Reached`); what the views in hand and on disk may tell (`Views`).
* `PlatformTypeCorrect` (`TypeOK` of the joint run): a joint step is one part's or leaves it alone (`StepOfParts`), so the conjunction of
  the parts' invariants, with the hub's of 6.3, is inductive (`PlatformInvariant`).
* `PlatformSound`: all six safety properties of the joint run, of its own `Spec`. What a part's theorem shows of a state or of a step of the
  part is a lemma, and the joint theorem takes it from `PlatformInvariant` and `StepOfParts`; so it is with the next two.

### 6.6 RequestsProofs

* `RecipesWereApproved` (`PlannedWereApproved`): `CatInv` follows approvals into every copy: of a process, the file, the file half written, the load half
  done; each was given under the address it stands at.
* `RegistryAnswersWell` (`RegistryAnswers`): what is shown has a reviewer's key behind it, or came with a sync; beside this, `ApiInv` says when a node a probe found well was last alive.
* `OutcomesAreBacked` (`OutcomeIsBacked`): `JobInv` says for each stage of a call what it has seen of the job it submitted last, for any attempts and outages.
* `RepairsKeepOrder`, for any plan and advice; and `PlansAreSound` (`PlanIsSound`) for plans no template of which asks for its own step's
  output (`NoSelfTemplates`), which the code does not check: with one, the first pass has a template it cannot fill.
* `PassesAreNeverStuck` (`SomeStepCanGo`, a part of `PlanIsSound`), for any finite plan that is accepted: templates add edges to `depends_on`, and a
  pass is handed to a graph that takes no cycle. The check goes by `Below`, what is reached in so many edges, as many as there are steps;
  that a plan it accepts has a step which can go is not the definition but a theorem. `BelowSteps` says what `Below` computes. Were every step of some
  set behind another of it, a walk down within the set (6.8), longer than the plan, would come to a step twice (the library's
  pigeon-hole), and by `WaysDown` that step would be below itself: so every set of steps has one that is behind none of the others
  (`AcyclicIsGrounded`).
* `PlanningSound` (`PlanningIsSound`): `AgentInv` ties what a search found to a registration that once was, and what was launched to
  the order of the goal. Assumed: some goal, finitely many assets.
* `FileKeepsTheGraph` (`GraphIsKept`): `KeptInv` says that what is read from the file is the graph up to the cursor. The work is in the lemmas: reading is a
  recursion over the lines (`ReadOn`, `ReadAll`), reading two parts one after the other is reading the whole (`Split`), and adding an
  entity twice is adding it once.
* `RecipesAreSound` (`RecipesRunSoundly`). The sort by rounds is a recursive function, so it is first shown to be equal to its body. Nothing
  it takes is on a circle (`TakenIsNoCircle`: of a circle there is no first round); and where there is no circle each round takes
  another step, so that as many rounds as steps take all of them (`AllAreTaken`). Why a task failed is followed along the graph in `Blamed`.
* `RequestsTypeCorrect` (`TypeOK` of the joint run), as `PlatformTypeCorrect`. The names of calls must not be those of the other
  parts (`FocusAssumption`), since both are values of `focus`.
* `RequestsSound`: all seven safety properties of the joint run, of its own `Spec`; `PlanIsSound` is why it, too, assumes `NoSelfTemplates`.

### 6.7 NodesProofs

* `ContractsKept` (`ContractsAreKept`): the file has what was confirmed, each report its sources, whichever program writes; `ContractInv`.
* `OnboardingSound` (`OnboardingIsSound`): drafts, cards in hand and entries claim no more than was found, whether or not answers are lost; `OnboardInv`.
* `AnswersAreTrue` (`AnswerIsTrue`): `NodeInv` says a call is of at most two hops, a node serves one of them, and what ran was answered or is about to be.
* `NodeLivesSoundly` (`NodeLifeIsSound`): `LifeInv` says what a site has told and has still to tell, and what a round has seen and has still to see. The
  directory is a sequence of the registries, and `Nowhere` is no node.
* `CardsRead` (`CardsAreRead`): that a box with four verdicts has a point in both boxes, that the last band of a name is there (`FirstAndLast`, from
  the least member of 6.8), that of some levels one is the strictest, and that a set of parts that only got stricter shows no more.
* `DoorsSound` (`DoorsAreSound`): `CallerInv` says that nothing is recorded before a letter is inside, that a letter which writes is inside
  without the key at one door only, the one whose handlers ask for it, and that each entry of the log is true; and whatever was shown
  is there (`IsThere`). Assumed: a GET is an HTTP request without calls that write, and a method names assets of its own sort.
* `NodesTypeCorrect` (`TypeOK` of the joint run), as before, and `NodesSound`: all six safety properties of that run, of its own `Spec`.

### 6.8 StepByStep

Induction by counting. The library's induction theorems take an operator, which the installed provers cannot instantiate; but that `<` on the
naturals is well-founded, and that a non-empty set then has a least member, are stated without one. From these: a set of numbers has
a least one, a set with 0 and the successor of each of its members is all of them, there is a function that takes a step
for each number (`WalksExist`), which is what a recursive definition of one argument needs to be equal to its body; and one
that takes the same step for ever (`RepeatsExist`).

### 6.9 Only model-checked

* Liveness, beyond the prover: `RunEnds`, `EveryoneIsServed` and the three `EverythingEnds`.
* Nothing else: each safety property of a run that passes is stated by a theorem; those of the joint runs by theorems of the parts' own
  specifications and, all together, by one of the joint specification.
* What recursive definitions compute is proved where it decides a property (6.4, 6.6). `InCycle` in AgentPlanning and the filters by `SelectSeq` stay
  opaque: the theorems hold whatever they compute, and TLC compares them with reference definitions.

## 7. Where the code and its documents disagree

Five of these are runs that TLC ends with the trace that shows it.

* `NothingStarved`. Both tasks of a round may fall away before they run (cancelled between
  admission and launch, or a raised submit). Nothing is in flight then and nobody is deferred, so
  `run()` ends, leaving a task blocked on capacity that has just been released.
* `CancelCascades`. A task cancelled before its start is settled by the store; the graph is
  not told, and its dependents stay open for ever. GEOTASK.md 5.3 says they fail.
* `PendingCancelKept`. The retry after a failure resets the cancel flag: a cancellation accepted
  during the failed attempt is forgotten and the task executes again.
* `NoGhosts`. After a quick restart, a task with an unexpired lease stays running, nobody claims
  it, and the new `run()` neither polls it nor waits for its lease. GEOTASK.md 6.2 forbids it.
* `OwnersTakeTurns`. The list of owners is sorted by oldest task in every round and rotated by the
  cursor too: arrivals a1 b1 a2 b2 a3 b3, one at a time, are served a1 a2 b1 a3 b2 b3.

The others have no run of their own. Each has a property in its module, written out beside the ones
that hold; name it under INVARIANT or PROPERTY (its comment says which) in the cfg given here, and TLC
shows the violation. PROJECT.json has the code's line and the text it disagrees with.

* GeoTask_local.cfg. `BackoffIsWaitedFor`: a backoff that runs out between the two readings of the clock, in `admit` and in
  `next_wakeup`, is waited for by nobody, and `run()` ends with the retried task open.
* TaskRestart.cfg. `FileIsReadable`: the second flush of a call is outside the lock and shares one temporary
  file, so a death can leave half a file under the real name. `EndIsExplained`: a death between the
  two flushes of a failure leaves a failed task without its event. `NeverSkips`: `since=0` never
  raises for dropped history. `EndsStay`: `geonexus task reconcile` writes its whole copy back over
  what the service ended meanwhile.
* Platform.cfg. `OneBodyPerId`: an id submitted again while it runs gets a second body.
  `EveryCandidateTried`: one dispatch's failover hides workers from another. `NoWorkerLost` (an INVARIANT): two
  failovers that tried the same workers meet, one raises, and what it had taken out is gone. `SentOnce`: an event
  pushed during a replay comes twice. `HistoryOnlyGrows`: a pull replaces an entry with its review history.
  `AnswersEveryCard`: cards of unhealthy nodes are left out silently. `AnyBackendServes`, `OwnTokensAreGood`: with
  different keys, or a secret and a public key, a token is not good everywhere, or not even at home.
  `CountIsOfCards`, `CountIsOfTasks`: counts next to lists they do not count. `BudgetIsAsked`: a budget of 0 is 3.
  `EachNodeItsKey`: a goal sends one node's key to every node.
* Requests.cfg. Recipes: `FileIsWhole` and `StampIsTrue` (one temporary name, a stamp taken after the load),
  `RepeatIsNoCycle`, `InputsAreThere`, `DeliveriesDeclared`, `BoundsHold` ("nan"), `NeverCrashes` (a typed placeholder).
  Plans: `TemplatesAreFilled`, `CyclesRejected`, `CannotBePlanned`, `CardsLiveThere`, `SelectsWhatIsOffered`,
  `SuccessHasNoError`. Calls: `EndsAudited`, `SuccessIsKept`, `DismissedIsNoSuccess`, `ResultsAreReturned`. Registry
  server: `RefusedChangesNothing`, `StatusIsKnown`, `AmbiguityIsToldApart`, `SubmitterIsTheSender`. Knowledge graph:
  `AppendedCanBeRead`, `RevisionsAreAppended`, `DependenciesAreImported`.
* Nodes.cfg. Requests: `BindingVerified` (a delegated request skips the contract check), `EveryAnswerIsAnEnvelope`, `BadParamsAreNamed`. Registering: `DraftCanBeSubmitted` (a .cog),
  `DraftIsSubmitted`, `OneCardPerAsset`, `ExtentIsGeographic`. Contracts: `MemoryIsBacked`, `RevokedBindsNoAnswer`. Nodes: `BadPluginHarmsItself`,
  `AdvertisedLeadsHere`. Cards: `ComparableOnly`, `HeightIsNoArea`, `UnknownIsEnough`, `SavedCanBeLoaded`.
* Without a property: `PushTargets` of NodeServer has two rules for the owner of a request's cards, as
  the code has; the one that is checked may not be the one that is asked.

## 8. What is not modelled, and why

* *Data without control*: parsing and printing of the command line, JSON schema, texts, log lines; the formats of the adapters and
  of resource metadata; the market's listing; how a memory size is spelled. They keep no state and have no order to go wrong.
* *Static tables and one-shot rules*: the security policy's tables, the legal ontology, the templates. Each is one evaluation
  of a table the repository writes down; a model would be the table again.
* *Geometry*: boxes over the antimeridian and coverages with reversed axes. `CardRules` has the comparisons on ordered intervals, which is
  where the verdicts come from.
* *External services*: language models, OGC servers, OGE, the batch system, HTTP. They answer anything their callers
  are prepared for, or nothing; so they are choices of the actions that call them.
* *Inside modelled parts*: the several dimensions of a reservation (`Fits` stands for any of them), a scheduler shared by
  two runs (the runner makes its own by default), progress values, a catalogue whose reload meets a broken file, a malformed entry in a
  registry's sync. For these the code logs and goes on, or the state is out of the run's properties.
* *Outside the package*: the Java client, the demonstration server, the examples, the scripts, the deployment.

## 9. What is left

* Compositions: WebTasks over the runner through `TaskContract` instead of its own copy of the store's moves; PlanReflection over
  RemoteJobs.
* An abstract dispatch (a task is at one worker at most, and answered once) for Cafe to implement, for the case
  where no worker fails after it has begun.

## 10. Running the checks

```
tlc -config GeoTask_local.cfg MCGeoTask          # also GeoTask_remote, _starved, _cascade, _cancel
tlc -config TaskRestart.cfg MCTaskRestart        # also TaskRestart_ghost
tlc -config Scheduler.cfg MCScheduler            # also Scheduler_turns
tlc -config Platform.cfg MCPlatform
tlc -config Requests.cfg MCRequests
tlc -config Nodes.cfg MCNodes
tlapm GeoTaskProofs.tla                          # also TaskRestartProofs, EventHubProofs, SchedulerProofs,
                                                 # StepByStep, PlatformProofs, RequestsProofs, NodesProofs
```

On two cores the first three take seconds to a minute each, the joint runs two to three minutes each; the proofs, in the order given,
50, 120, 80, 16, 3, 170, 320 and 175 seconds.
