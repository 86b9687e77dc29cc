# Jobflow Engine: TLA+ verification

This directory holds TLA+ modules that model the core of the Jobflow Engine
(`src/src/`), TLC configurations that check them on small instances, and proofs
that TLAPS checks for every instance. `PROJECT.json` maps each definition to the
lines it models and lists runs, mutants, findings, hazards and theorems.

## 1. The system

The engine is one Node.js process. Clients register job definitions (task
graphs), start runs and look at them over HTTP. All stores are in memory.

| Part | State | Operations | Correct when |
|------|-------|------------|--------------|
| Job registration (`services/job-service.ts`, `validators/job-definition-validator.ts`) | job id → definition | `register` validates, then overwrites | only acyclic definitions with known dependencies get in |
| Run creation (`services/workflow-service.ts`) | workflow store, run store | `createRun`: two saves | run and workflow appear together, both pending |
| Execution (`services/execution-service.ts`) | `localLocks`, a local `workflow` per call | `executeRun`, `updateTask` | one executor per run, no lost update, locks returned, every run settles |
| Orchestrator and state machine (`engine/`) | none of its own | `applyTransition`, `startRun`; guard, rule table, history | only listed transitions, run status follows the workflow |
| Run locks (`engine/run-lock.ts`) | run id → owner | `acquire` (re-entrant), `release` | held exactly while a run executes |
| Scheduler, retry (`workers/scheduler.ts`, `workers/retry-handler.ts`, `domain/retry-policy.ts`) | none | `nextRunnable`, `allDone`, `decide` | dependencies first, attempts bounded |
| Dead letters (`storage/memory/dead-letter-store.ts`) | list of entries | `push` | a dead-lettered run is in it exactly once |
| Batch coordinator, worker pool (`batch/`, `workers/pool.ts`) | progress counters, shared queue | `execute` with parallel workers; `enqueue` | counters add up, nothing is run twice |
| Circuit breaker, HTTP invoker (`handlers/http/`) | state, failure count, time | `canExecute`, `recordSuccess`, `recordFailure`, `invoke` | open means no calls until the cooldown is over |
| Saga coordinator (`saga/`) | instances, compensation stack | `start`, forward steps, `compensate` | completed steps are undone in reverse order, once |
| Events and webhooks (`services/event-bus.ts`, `services/webhook-service.ts`, `webhooks/`) | listeners, endpoints, deliveries | `publish`, `emit`, `dispatch` with retries | every event of interest is delivered or recorded as failed |
| Schedules, cron ticker (`services/schedule-service.ts`, `workers/cron-ticker.ts`) | schedule store, timer | `create`, `disable`, `tick` | a due schedule triggers once per due time |
| Checkpoints, replay (`persistence/`, `replay/`) | snapshots per run | `captureCheckpoint`, `restoreToCheckpoint`, `replay`, `snapshot` | restoring does not race an executor |
| Planner, parallel executor (`engine/dag-planner.ts`, `engine/parallel-executor.ts`) | none | `plan`, `executeLevel` | levels respect dependencies |
| Expressions, constraints (`expressions/`, `validators/constraint-validator.ts`, `services/rule-engine.ts`) | none | tokenise, parse, evaluate; `apply` | a run is blocked by exactly the constraints that are true of it |
| DSL (`dsl/`, `services/dsl-service.ts`) | none | lex, parse, optimise, compile, register | what is registered is what was written; every source is answered |
| Catalog, templates, bundles, migrations (`definitions/`, `templates/`, `import/`, `migrations/`, `bootstrap.ts`) | job store, applied versions | `seedIfEmpty`, `instantiate`, `importDirectory`, `migrate` | every stored job has known handlers and an order of its tasks; no built-in id is missing |
| Handlers (`handlers/implementations/`, `workers/simulator.ts`) | none | `execute` per handler, `TaskExecutor.run` | gates are passed before what they guard; data reaches the next task |
| Rate limit, authentication (`middleware/`, `auth/`) | a bucket per address, a key store | two `preHandler` hooks | the limit holds for every span of time, nobody is refused without cause |
| Run queries (`query/`, `utils/pagination.ts`) | the run store | `search` page by page | no run is missed by a client that reads all pages |
| Metrics (`metrics/`) | counters, histograms | `increment`, `observe`, `formatPrometheus` | what is exported can be read as Prometheus text (not modelled) |
| File journal (`storage/file/journal.ts`) | a file, a counter | `append`, `readAll` | what was acknowledged is read back, in order |
| Quotas, audit, analytics, connectors, plugins, SQL helpers | little or none | see PROJECT.json | see section 7 |

**Interaction.** A route creates a run and drops the promise of `executeRun`
(`void`), another one awaits it; the batch coordinator, the cron ticker and the
replayer call the same two services. `executeRun` calls the orchestrator, which
saves the workflow, saves the run and publishes an event; listeners count
metrics and would start webhook deliveries.

**What is hard.** The code is single threaded but every `await` lets any other
activation go on: between the read of a workflow and its save lie handler calls
and backoff sleeps. Definitions can be replaced while a run is under way.
`executeRun` can be left by a throw at seven places. A rejection that nobody
handles ends the process and everything in memory. PROJECT.json lists these
hazards with the line where each bites.


## 2. Modules and the code they model

| Module | Models | Kind |
|--------|--------|------|
| `Workflow` | `domain/workflow-instance.ts`, `engine/state-machine.ts`, `engine/transition-guard.ts`, `validators/transition-validator.ts` | operators |
| `Scheduling` | `JobDefinitionValidator`, `TaskScheduler`, `RetryHandler`, the dead-letter threshold | operators |
| `Execution` | `createRun`, `executeRun`, `applyTransition`, the two locks, the stores, the routes that reach them, the end of the process | state machine |
| `RunLifecycle` | what `docs/architecture.md` promises of a run | abstract specification |
| `WorkerPool` | `workers/pool.ts` | state machine, instantiated by `Batch` |
| `Batch` | `BatchCoordinator.execute` composed with the pool | state machine |
| `CircuitBreaker` | `CircuitBreaker` and the invocations of `HttpHandlerInvoker` | state machine |
| `Saga` | `SagaCoordinator` and `CompensationStack` | state machine |
| `Webhooks` | `EventBus.publish`, the container's listeners, `WebhookService`, `WebhookDispatcher`, the delivery store | state machine |
| `Cron` | `ScheduleService`, the cron matcher, `CronTicker` | state machine over a calendar |
| `ParallelExecutor` | `DagPlanner`, `ParallelTaskExecutor` | operators and state machine |
| `Recovery` | `RunReplayer`, `RecoveryService`, `CheckpointStore`, next to the executors of `Execution` | state machine that extends `Execution` |
| `Expressions` | `Tokenizer`, `ExpressionParser`, `ExpressionEvaluator`, `ConstraintValidator`, `RuleEngine` | recursive operators, one action |
| `Dsl` | lexer, parser, optimizer and compiler of the workflow language, `DslService` | state machine, one step per round of a parser loop |
| `BuiltinJobs` | the definitions of the catalog, the enterprise pack, the templates and `config/jobs` | data as operators |
| `Catalog` | `bootstrap`, `MigrationRunner`, `CatalogLoader`, `JobService.register`, `HandlerResolver`, templates, bundle importer | state machine |
| `Pipeline` | handler implementations, `TaskSimulator`, `TaskExecutor.run` over the built-in jobs | state machine that follows the data |
| `Gateway` | `registerRateLimit`, `registerAuthHook`, `ApiKeyAuthenticator` | state machine |
| `RunQueries` | `RunQueryService.search`, `filterRuns`, `sortRuns`, `paginate` and a client that reads page by page | state machine |
| `Journal` | `FileJournal` | state machine with torn writes and restarts |
| `MCExecution`, `MCRecovery`, `MCCron`, `MCWebhooks`, `MCDsl`, `MCCatalog`, `MCExpressions`, `MCPipeline` | small instances of one component each | model values, data |
| `MCWorkers` | extends `CircuitBreaker`, `Batch`, `Saga`, `ParallelExecutor`, `MCCron` | see section 3 |
| `MCServices` | extends `Gateway`, `Webhooks`, `Journal`, `RunQueries` | see section 3 |
| `MCDefinitions` | extends `Catalog` and `Pipeline`, instantiates `Dsl` and `Expressions` | see section 3 |
| `Execution_proofs`, `Recovery_proofs`, `Cron_proofs`, `Batch_proofs`, `ParallelExecutor_proofs` | theorems about the module of that name; `Recovery_proofs` extends `Execution_proofs` | proofs |
| `Workers_proofs` | theorems about `CircuitBreaker` and `Saga` | proofs |
| `Services_proofs` | theorems about `Gateway`, `Webhooks`, `Journal` and `RunQueries` | proofs |
| `Definitions_proofs` | theorems about `Catalog` and `Pipeline` | proofs |

**Granularity.** Code between two awaits is one action, and at an await any
other call may go on. With the in-memory stores most awaits end within the same
turn of the event loop, so the model allows more interleavings than this build
has; it follows the Promise-based interfaces of the stores, so what holds in the
model also holds for stores that really wait.

**Execution.** A call is one activation of `createRun`/`executeRun`; `pc[c]` is
the await it is suspended at. `jobStore`, `workflowStore`, `runStore` and
`deadLetters` are the stores; `localLocks` and `runLocks` the two locks;
`workflow[c]` and `definition[c]` the locals of the call with the same names,
which may be older than the stores. Clients `Register` definitions at any time
(also over one that is in use), ask for a run (`RequestRun`) or for the execution
of a known or unknown run (`RequestExecute`: `/runs/:id/execute` and replay).
`Create`, `SaveWorkflow`, `SaveRun` are `createRun`; `AlreadyExecuting` ... `Push`
are `executeRun` in its order, with `ApplyTransition` and `Mirror` the two halves
of `applyTransition`. `Throw` is a rejection: `finally` releases the locks, and
if the promise was dropped (`mode[c] = "void"`) the process ends and `Restart`
empties all stores. A handler's result, and whether a blocking constraint holds,
is a choice. Task ids, run ids and jobs are opaque. Outputs, contexts, timestamps
and delays are left out: a backoff is a state in which anything else may happen.

**Batch.** Each of the workers holds an item and is suspended in `createRun` or
`executeRun`, each of which resolves or rejects (`RunCreated`, `ItemCompleted`,
`ItemFailed`); `progress` is what a client polls. The pool's queue is shared by
all batches and sorted by priority on every enqueue.

**CircuitBreaker.** `failures` and `elapsed` saturate at the threshold and the
cooldown, above which the code does not tell values apart. The remote service is
an environment that goes down and up; a fetch may fail only if the service was
down at some time while it was open. Breakers of different handlers share
nothing, so one is modelled.

**Saga.** One instance; `steps`, `stack`, `status` are the fields of the same
name, `order` the rest of the loop in `compensate`. `effect` records which steps
reported success and have not been undone, for the properties. Step ids are
assumed distinct, as in every definition of the repository.

**Webhooks.** A publisher announces each run at most once (`Publish`); the two
listeners count it and start an `emit`, whose promise is dropped, so several are
waiting for the answer to a POST at the same time. `todo[r]` is the rest of the
loop in `emit`, `delivery[r]` the delivery under way; its id is the clock in
milliseconds, as in the code. `sent` records what really went out. `ListForEvent`
is given by what it must be, the increasing list of the endpoints that want the
event: there is exactly one.

**Cron.** Time counts minutes, the finest unit of an expression. All awaits of a
tick are on in-memory stores, so no timer and no request is served before it is
through: `due`, the schedules it still has to deal with, is non-empty while it runs
and blocks the other actions. They are taken in the order of the store. The
calendar is a parameter; the run uses a small one with every field and a leap
day in its first year, and a horizon of one long year as the code has.

**ParallelExecutor.** `levels` grows by one level in each turn of the planner's loop:
a task follows when its in-degree, the length of its list, has been counted down to
nothing by the distinct tasks it names. The plan is refused if a cycle is found.
Workers of a level take tasks in any order; `runs` are the tasks that have a TaskRun,
the others are skipped.

**Recovery.** Extends `Execution` by replays (an `executeRun` between two reads of
the workflow, answering `diffWorkflows`), checkpoints, and the two operations that
save a workflow without the run lock: `restoreToCheckpoint` and
`RunReplayer.snapshot`, which reads at one await and saves at the next. `quiet`
and `answer` record, for the properties, which replays nobody disturbed.

**Expressions.** A text is a sequence of atoms (words, digits, other characters);
tokens, trees and JavaScript values are records. `constraints` carries with each
text the tree it was printed from, which is the reference the verdict is compared
with. Decimal fractions and quotients are left out.

**Dsl.** A source is a sequence of lexemes. The parser takes one round of a loop at
a time, so a loop that never ends is a behaviour. Sources are printed from the
workflows they were written for, or are damaged forms of such a text. `Register` is
`compileAndRegister` with all of `JobService.register`: handlers are checked, a
timeout above twice the handler's default is cut to that (`Capped`), and the
validator decides. The optimizer has dropped a second task with the same id before
the validator could see it, so `RegisteredIsWritten` is about sources with distinct
ids.

**BuiltinJobs, Catalog.** All 102 shipped definitions are data; the eighty
enterprise jobs follow one formula of their number, which agrees with each of
their files. The seed is saved as it is, one definition at a time (`BeginSeed` looks
at the store, each `SeedNext` is a round of the loop, `seeded` counts them), before
the server listens; everything else passes `register` (validator, handler check,
timeout cap); an import awaits one file after the other while other requests are
served; a restart empties the store. `Runnable` asks for an order in which each task
comes once and after all it depends on; it is written without reference to the
validator, which looks for cycles. Constraints are left out (`blocks` is FALSE in
`AsDefinition`), so the property is about order and handlers: a run may still be
blocked when its tasks are done, as section 4 says of one template.

**Pipeline.** One run of a job after the other, in task order: each job lists its
tasks after those they depend on (`PipelineAssumption`). A handler is the set of
results it may return for a context; `outputs` are kept by task id, and handlers
get `priorOutputs`, which `TaskExecutor.run` always passes empty. The manifest's
`retryable` flag is read by nothing and therefore absent.

**Gateway.** One bucket per address; `passed` and `answer` record what the limit
let through. `Date.now()` is taken to be monotone. Keys are looked up in a store
nothing writes to.

**RunQueries.** A run is what the query looks at, `runs` the store in the order of
creation. `SortRuns` is the list in which each run stands at its `Rank`, which is what
a stable sort returns. The client is external: it takes
the next page until the answer's `totalPages` is reached. Saves of one
`createRun` end within one turn of the event loop, so no page is computed between
them. The route passes a status only; the other parts of `RunFilter` are modelled
too. `walk`, `query`, `page` and `seen` are the client's; `wanted` records what
matched when it began.

**Journal.** An append waits for `mkdir` and for `appendFile`. `appendFile` may
leave nothing, part of a line or a line without newline. A restart keeps the file
and starts the counter again. Numbers of different processes are not compared:
they repeat.

## 3. What the runs check

| Run | Instance | Shows |
|-----|----------|-------|
| `execution_safety` | 2 runs, 2 calls, 1 job, three definitions, symmetry on runs and calls | seven invariants, that finished work is kept, and the refinement of `RunLifecycle` |
| `execution_liveness` | 2 runs, 2 calls, definitions without blocking constraint | every call returns; every run that is started settles |
| `execution_dead_letter` | 1 run | finding 1 (violation) |
| `execution_blocked` | 1 run, a definition with a blocking constraint | finding 2 (violation) |
| `recovery` | 1 run, 2 calls, two definitions; one replay, checkpoint and restore at a time | only a restored or copied backoff can park a run; replaying a completed run changes nothing |
| `recovery_dead_letter` | 1 run, 1 call | finding 6 (violation) |
| `workers` | breaker: 3 overlapping invocations, threshold 2, cooldown 2 | state and count agree, probes, shielding, recovery |
| | batch: 2 batches with the same manifest id, 3 and 1 items, 2 workers each, 1 slot | counters, no item twice, stop after failure, pool order, every batch returns |
| | saga: all definitions of up to 3 steps | reverse order, once, honest final status |
| | parallel executor: all graphs of 3 tasks with up to 2 dependencies each, repeated and unknown ones too | levels and estimate against reference definitions, dependencies first, all executed |
| | cron: 2 schedules, 2 jobs, 4 expressions, 8 minutes | once per match while enabled, nothing due is forgotten while the process lives |
| `services` | gateway: 2 addresses, limit 2, window 2, 7 ticks | at most twice the limit in a window's span; a refusal only after a full window's worth of requests |
| | webhooks: 2 events, 2 endpoints of 2 tenants, 3 attempts, 3 ms | subscribers served, attempts bounded, records true |
| | run queries: 3 runs of 2 jobs, pages of 1 and 2, six filters | a client that reads all pages misses nothing |
| | journal: 2 writers, 4 appends, 2 processes | acknowledged entries are read back in order with distinct numbers |
| `definitions` | catalog: the 102 shipped jobs, requests, templates, damaged bundles, restarts | the tasks of every stored job have an order, no built-in id is missing |
| | DSL: sources of about a thousand workflows, timeouts around the limit, cut and damaged texts | what is registered is what was written, up to the limit on timeouts; dependencies first; nothing acceptable refused |
| | expressions: about 4000 trees of every precedence in 3 contexts | the verdict is what the expression means |
| | handlers: the jobs of the catalog, the templates and one cycle of the enterprise pack, risk factors around the threshold | provisioning serves the run's customer, and never one whom a gate of the job refused |
| `webhooks_unfed` | the one event type the orchestrator publishes | finding 3 (violation) |
| `dsl_answers` | a few sources, fair | finding 4 (violation) |
| `pipeline_posted` | the invoice template, two invoices | finding 5 (violation) |

**Three runs of several components.** `workers` checks five components, `services`
and `definitions` four each. As modelled these share no variable, so every behaviour
of them together is an interleaving of a behaviour of each, and a property of one
component holds in all interleavings if it holds when the others stand still. The
variable `part` picks the component a behaviour is about; the others keep the state
they had before their first step. The theorems of section 5 are about the components
one by one. So the state spaces add up and do not multiply.
The components that do share state are composed properly: `Batch` with
`WorkerPool`, `Recovery` with `Execution`.

**Bounds.** Two calls are what it takes to race on one run and two runs what it
takes to confuse them; every property of `Execution` relates at most two calls.
A second concurrent request for a run that executes returns at once, so a third
call adds no new kind of step. One job that is registered again and again with
different definitions covers the stale-definition cases. The definitions are
chosen for the branches: `Chain` lists a task before its dependency, is optional
in part and has the default of three attempts; `Solo` has one attempt, which is
the shortest way to the dead-letter store, and a blocking constraint; `Cycle` must be
rejected. Registering `Chain` over `Solo` and back adds and removes tasks of a
run under way. `Batch` has more items than workers in one batch and fewer in the
other. The breaker needs one invocation more than the threshold for a late
failure to meet a half-open circuit. Three saga steps show a step without
compensation between two with one. Three milliseconds let two deliveries share
an id or not, whichever of them ends first. Eight minutes of the small calendar
reach the leap day, after which there is no match within the horizon. DSL timeouts lie
below, at and above the limit, which is twice a default of 1. Three tasks
make every shape of dependency a level can have towards the next two. One replay,
one checkpoint and one restore (`MaxReplays`, `MaxCheckpoints`, `MaxRestores`)
already meet an executor at each of its awaits. Seven ticks (`MaxTime`) are three
windows and a half of the rate limit, and `MaxCount` lets a bucket count to twice
the limit. Three runs and pages of one let a run be created or end between any two
pages. Four appends of two writers put two overlapping calls before and after a
restart. In `Execution` attempts are bounded by the policy and the history by the
rule table; the other caps are the named bounds of each module.

That a terminal run stays in its state and that a run is filed at most once, after
it was dead-lettered, are not listed on their own: `RunLifecycle` has no step that
breaks them but the end of the process, so they are part of `RefinesLifecycle`.

**Fairness.** `Execution`: weak fairness of each accepted call, since the event
loop resumes every settled promise, timers fire and the simulated handlers all
end; nothing is assumed of clients, and nothing of a process that has ended.
`Batch`: weak fairness of the workers of each batch, which rests on
`CallsReturn`. `CircuitBreaker`: the clock runs, a fetch ends at the latest by its
abort signal, and clients keep invoking; without further invocations an open
circuit stays open by design. `Cron`: `setInterval` keeps firing and a tick that
has begun goes on; the clock itself need not. `Dsl`: synchronous code goes on.
The other modules are checked for safety only: a saga ends if its handlers do (`timeoutMs` is not enforced by the
coordinator), an emit because its POSTs are aborted after five seconds.
Two runs switch the deadlock check off: in `services` and `webhooks_unfed` the
bounded clients, clocks and writers come to their end. In `workers` and
`definitions` the ends of a plan and of a verdict are explicit steps, so that any
other state without a step would be reported.

**Mutants.** Each property has at least one faulty variant of a definition ("Faulty
variant" in the modules) that a plausible slip in the code would produce and that
TLC refutes. They are not part of any specification.

## 4. Findings

1. `execution_dead_letter`: `docs/runbook.md` says the dead-letter list holds
   failed runs after retry exhaustion. `RetryHandler.decide` gives a task one
   attempt fewer than `maxAttempts`, and the dead-letter test asks for all of
   them from every task: with the default policy no failed run is ever filed.
2. `execution_blocked`: `docs/architecture.md` draws a run as ending in
   completed, failed or dead_lettered. A blocking constraint throws out of
   `executeRun` and leaves the run in `running` for good.
3. `webhooks_unfed`: `docs/architecture.md` says domain events feed metrics
   counters and webhook dispatch. The listeners act on `run.completed` and
   `run.failed`, the orchestrator publishes `workflow.transitioned` only: with
   what is really published no run is counted and no webhook is sent. The run
   `services` drives the bus with the events its listeners are written for.
4. `dsl_answers`: the loop over a constraint's fields neither takes nor rejects a
   token it does not know, so such a source stops the process; the loops beside it
   throw.
5. `pipeline_posted`: the invoice template is described as fetching, normalising
   and posting invoices; since `priorOutputs` is always empty nothing is posted.
6. `recovery_dead_letter`: `docs/runbook.md` says the `dead_letter` transition stores
   a run's payload for operator replay. `replay` calls `executeRun`, which starts only
   pending runs and executes only running ones: a dead-lettered run is read and left
   as it is, and the answer is that nothing changed. `CompletedReplayIsSilent`, which
   holds, is about completed runs only.

Other disagreements met while modelling, visible in the modules but without a run
of their own:

- `docs/architecture.md` says cron schedules enqueue runs when expressions match. A
  schedule whose job is not registered makes the tick throw; the other due
  schedules are not triggered, and the dropped promise ends the process (`crashed`
  in `Cron`, which `DueIsTriggered` has to allow). A schedule for 29 February ends it
  in the same way after its first run, since the next match lies beyond the horizon.
- `validators/job-definition-validator.ts:16` calls a duplicate task id an error. In a
  DSL source it is none: `optimizer.ts:11` keeps the last task of an id, and the rest
  is registered (`SortTasksTopologically` in `Dsl`).
- A true expression counts as violated (`Violated` in `Expressions`), so
  `tenant_required: ctx.tenantId` in `config/jobs/invoice-sync.json` blocks every run
  that has a tenant and none that lacks it; `ctx.tenantId != ""` of the template
  `erp_invoice_sync` (`templates/catalog.ts:33`) blocks every run whose tenant is not
  the empty string.
- `handlers/resolver.ts:12` caps a task's timeout at twice the manifest's default
  "for safety"; the seed is saved without it and exceeds the cap (`SeedNext` in
  `Catalog`).
- The enterprise jobs call themselves pipelines with validation gates; ten of them
  begin with `onboard.provision` and have no validation (`EnterpriseJob` in
  `BuiltinJobs`). `ProvisionedAfterKyc` is therefore about the gates a job has;
  `GatesAssumption` of `MCPipeline` computes that every provisioning task of the
  catalog and the templates has one.
- The README says API keys authenticate tenants when authentication is on; the key
  store has no way in and every key is refused (`KeyStore` in `Gateway`).
- `GET /metrics` is called a Prometheus scrape target; the registry's buckets are
  cumulative already (`metrics/registry.ts:18`) and the formatter adds them up again
  (`metrics/prometheus.ts:19`), so buckets exceed `_count`.

Not findings, for want of a statement to hold the code against: a batch counts an
item whose run failed as completed (`coordinator.ts:49`); `GET /admin/dead-letter`
with limit 0 lists everything; one torn line makes the whole journal unreadable, which
`JournalIsKept` excuses; an executor saves its copy over a workflow that was restored
meanwhile.

## 5. What is proved

Theorems are about the safety part of each component's specification, `Spec`, or
`CronSpec`, `BatchSpec`, `SagaSpec`, `DagSpec`, `HookSpec`, `JournalSpec`, `QuerySpec` and
`PipelineSpec` of the components that share an MC module, and `RSpec` of `Recovery`,
for every value of the constants the assumptions allow.
TLC evaluates each assumption in the runs.

| Assumption | Says |
|------------|------|
| `CandidatesAssumption`, `NoneAssumption` | candidates are definitions; `None` is none of the ids |
| `BreakerAssumption` | a positive threshold, a natural cooldown |
| `GatewayAssumption` | a positive limit and window |
| `CronAssumption` | natural horizon and clock; `None` is no time |
| `SagaAssumption` | definitions are sequences of steps |
| `ManifestAssumption` | items have a priority and a flag, at least one worker |
| `DagAssumption` | finitely many tasks, lists of names, at least one worker |
| `HookAssumption` | at least one attempt; `None` is no event and no record |
| `QueryAssumption` | a positive largest page, integer page sizes, natural bounds; `Unset` is no time |
| `PipelineAssumption` | customers are naturals; every job has tasks, with distinct ids, each listed after those it depends on |
| `CatalogAssumption` | requests, instantiated templates and the files of bundles have the form of definitions |
| `SeedAssumption` | the tasks of each of the 102 shipped definitions have an order: data, computed by TLC |

`JournalSpec` needs none.

| Theorem | States | Inductive invariant |
|---------|--------|---------------------|
| `TypeCorrect` | `[]TypeOK` | `TypeInv`: a call that works on a run has a run, a definition and a current task |
| `MutualExclusion` | `[]OneExecutorPerRun` | `SafeInv` |
| `LocksAreExact` | `[]LocksMatchExecutors` | `SafeInv` |
| `RunLocking` | `[]RunsAreLocked`, the conjunction of the two | `SafeInv` |
| `CopiesAreCurrent` | `[]NoLostUpdate` | `SafeInv` |
| `RunsNeverStall` | `[]NeverStalls` | `TaskInv` with `DefinitionsValid` |
| `CompletionIsSound` | `[]CompletedMeansDone` | `TaskInv` with `DefinitionsValid` |
| `RunsShowTheirWorkflow` | `[]StatusFollowsWorkflow` | `EngineInv`, all of the above with `StatusInv` |
| `HandlersWait` | `[]DependenciesFirst` | `EngineInv` |
| `ProgressIsNeverLost` | `ProgressIsKept`, an action property | a step from `EngineInv` |
| `EngineImplementsLifecycle` | `RefinesLifecycle`: `Execution` implements `RunLifecycle` | steps from `EngineInv` |
| `RestoredRunsRarelyStall` | `[]StallsOnlyInBackoff` | `RInv` |
| `CompletedReplaysAreSilent` | `[]CompletedReplayIsSilent` | `RInv` |
| `RestoresKeepLocking` | `[]RunsAreLocked` of `RSpec` | `RInv` |
| `StateMatchesCount`, `HalfOpenIsProbed` | the two invariants of the breaker | `BreakerInv`, their conjunction with the type |
| `OpenCircuitShields` | `OpenShields`, an action property | a step from `BreakerInv` |
| `AtMostTwiceTheLimit` | `[]SpanLimited` | `LimitInv`: `BucketInv` of each address |
| `RefusalsAreEarned` | `[]RefusalIsEarned` | `LimitInv` |
| `TriggersMatchOnce` | `FiresOncePerMatch`, an action property | `CronInv` |
| `CompensatesBackwards` | `[]LastInFirstOut` | `SagaInv` |
| `EndsAreHonest` | `[]EndIsHonest` | `SagaInv` |
| `ItemsAreTakenOnce` | `[]ItemsOnce` | `CoordinatorInv` |
| `ProgressIsTrue` | `[]CountersAgree` | `CoordinatorInv` |
| `FailureStopsTheBatch` | `StopsAfterFailure`, an action property | a step from `CoordinatorInv` |
| `PoolKeepsOrder` | `[]PoolOrdered` | `PoolInv` with `CoordinatorInv` |
| `TasksWaitForTheirNeeds` | `[]BegunAfterNeeds` | `DagInv` |
| `AllPlannableExecuted` | `[]DoneMeansExecuted` | `DagInv` |
| `LevelsAreLongestChains` | an accepted plan has `LevelsAreRight`, the first half of `PlanIsRight` | `DagInv` |
| `EmitServesSubscribers` | `[]SubscribersServed` | `HookInv` |
| `DeliveryRecordsAreTrue` | `[]RecordsAreTrue` | `HookInv` |
| `JournalKeepsEntries` | `[]JournalIsKept` | `JournalInv` |
| `WalksAreComplete` | `[]WalkIsComplete` | `QueryInv` |
| `GateComesFirst` | `[]ProvisionedAfterKyc` | `PipelineInv` |
| `StoredJobsRun` | `[]ServesRunnableJobs` | `CatalogInv` |

*Locks and copies.* `OneExecutorPerRun` is not inductive alone: the lock set must
say exactly which runs are being executed (`LockInv`), so that a call that finds
no lock knows there is no executor. `NoLostUpdate` needs, besides, that a call in
`createRun` shares its run id with nobody (`OwnInv`: ids are fresh), since it
writes the workflow without a lock. The three are proved together as `SafeInv`.

*Tasks.* Outside of a handler call and a backoff no stored task is running or
retrying (`TaskSettled`): only the one executor puts it there and takes it away
before it leaves. Then an executor that finds nothing runnable and not all done
would hold a non-empty set of unfinished tasks each waiting for another one in
the set, which the validator excludes (`Acyclic`); hence no run is ever parked in
`waiting`, and completion means that every task is done, the optional ones too.

*The two stores and the refinement.* Run and workflow are saved one after the other,
so they agree except while the run's executor stands between the two saves
(`RunInv`), and what that executor writes next is fixed by where it stands
(`StepInv`). A filed run is dead-lettered and nobody is about to file it again
(`FiledInv`). From these each step of the engine is a step of `RunLifecycle` or
changes nothing of it, whatever calls of other runs do; the end of the process is
the one step that takes runs away. That the work of a finished task is kept follows
from the copies being current.

*Recovery.* A restore or a snapshot saves a workflow without the lock, so an executor's
copy may be older than the store: `NoLostUpdate`, and with it `TaskInv` and
`EngineInv`, are false here. What survives is the part of `SafeInv` that does not
mention copies (`ExclusionInv`: locks and fresh run ids), the definitions, and what is
true of every workflow wherever it is kept, in the stores, with a call, in a checkpoint
or waiting to be saved by a snapshot (`Sound`): no task was ever saved as running, and
a parked workflow has a task in its backoff. An executor that finds nothing runnable
and nothing in backoff would contradict the validator, as above. For replays `QuietInv`
says that while the replayed run was completed when it was read and nobody saved over
it, all calls for that run stand at the steps a completed run passes through, with the stored
workflow in hand; none of them can change it.

*Breaker.* A single failure re-opens a half-open circuit because the count is
still at the threshold; that link between state and count is `ClosedMeansHealthy`.

*Rate limit.* A span as long as the window meets at most two windows of a bucket.
`BucketInv` says of each address that the last requests to pass, as many as the
bucket has counted up to the limit, are those of the present window, that all
earlier ones lie before its beginning, and that those more than a limit further
back lie more than a whole window before it; the bound on a span, and that a
refused address had its limit in the present window, follow.

*Cron.* The stored `nextRunAt` is the first match after the minute the schedule was
last dealt with, for enabled and disabled schedules, and what a tick has listed is
still due when its turn comes. So a trigger stands for exactly one match and the
next lies after it.

*Saga.* The stack is 1, 2, ... up to the last completed step, the rest of the loop in
`compensate` counts down from there, and of the completed steps those above it are
undone where they can be (`Undone`).

*Batch.* The items that have not ended are shared out between the queue and the
workers without overlap (`ItemsInv`), so an item is taken once, and the counters are
the cardinalities of what the workers hold and of what ended each way (`CountInv`).
A batch that was stopped has an empty queue for good. In the pool an insertion keeps
a queue sorted and items of equal priority in the order of their run ids.

*Planner.* Each level holds what became ready by the level before it (`LevelsInv`).
Chains of dependencies through planned tasks are shorter than the number of levels,
by the pigeonhole principle, and one as long as the level of a task ends in it, by
descent; hence the level is the length of the longest chain. During execution the
levels before the present one are through, and in it a task without result is with a
worker or waits for one (`RunInv` of that module).

*Webhooks.* Of the subscribers of a run, those in the rest of the list were sent
nothing, except that the first is being served, and the others came to an end
(`Serving`); the list names every endpoint that wants the event, since an increasing
list as long as the set is onto. Later registrations do not change who the
subscribers are. A record in the store fits the delivery it names; it can be
overwritten only by one that began in the same millisecond (`RecordsInv`).

*Journal.* A call that may still write is not on disk; one that returned is. A stamped
entry that waits to be written has a number nobody else has, above those of all
entries its call came after (`StampInv`). What is on disk comes after only what was
on disk, so no line that is added later can belong before it.

*Run queries.* A run's place in the list is one more than the number of runs before it,
so places are distinct and the list is a permutation. As runs only join a list with a
lasting filter, what has a place keeps it or moves back. `WalkInv` says that after k
pages the client has been given, of every run that matched at the beginning, at least
those among the first k pages of the present list (`Covered`), and the first k pages
exactly if nothing joined; the last page then covers the whole list.

*Handlers.* The tasks before the present one, and only these, have an output, and each
output is one its handler may return for the run's input. A gate returns one only for
a customer it lets pass; and since every handler is given empty prior outputs,
provisioning takes the customer of the context.

*Catalog.* Every stored definition is one of the seed or passed `register`. The validator
accepts a definition whose graph has no set of tasks each depending on another of the
set; from that an order is built one task at a time: as long as a task is left, one of
them depends on none that is left, and by the pigeonhole principle the order ends with
all of them. The induction is by a least length that cannot be reached. Cutting
timeouts changes neither ids nor dependencies. Of the seed, which the validator never
sees, `SeedRunnable` is assumed and evaluated.

*Only model-checked.* Liveness, that is `CallsReturn`, `EveryRunSettles`,
`EveryBatchReturns`, `Recovers` and `DueIsTriggered`, since fairness and ENABLED are
outside the prover. The second half of `PlanIsRight`, the estimate, is a sum and a
maximum over a recursive definition. `RegisteredIsWritten`, `DependenciesListedFirst`
and `VerdictIsMeaning` are about parsers and evaluators written with recursive
operators, out of the prover's reach. The six violations are counterexamples. All
other properties of the runs are proved.

## 6. Plan

Done, in this order: `Execution` with its parts and its abstract specification,
the components with state of their own, recovery next to an executor, the
languages, the catalog and what its jobs compute, the gateway, queries and the
journal; then the proofs of section 5, the core first. Left: the Python engine, whose
executor has no run lock, as a comparison; and should the languages change, a form of
`Dsl` and `Expressions` as step-by-step machines, which could be proved about.

## 7. What is not modelled

The metrics registry counts without control flow of its own; that its collector
hears of no run is `webhooks_unfed`. Analytics, reporting and export read and
format. Audit keeps records no route writes; tenant quotas are called by nothing.
Connectors, notifications, integrations, plugins, health checks and retention keep
no state the engine relies on. The SQL repositories delegate to the in-memory
stores and the query builder puts text together. `FileSnapshotStore` is used by
nothing, and what two overlapping writes leave depends on the bytes of both. The
page of dead letters, `listActive` and the OpenAPI document are plain reads. Schema
checks of requests reject before any state changes. The Python snapshot under
`.fieldops_engine_snapshot` is a separate, earlier engine.
