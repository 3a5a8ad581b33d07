# Verification of ultra-computer's execution core

TLA+ models, TLC runs and TLAPS proofs about ultra-computer, a TypeScript server
that takes a chat request, plans it, runs agents and tools for it and posts an
answer. What is hard to test there is not the prompt engineering: it is that an
accepted request is executed at most once although messages are delivered again,
processes are killed and restarted and several stores (SQLite, Redis, plain
files) each remember a part of the story. The project models that core first and
then the services around it: messaging, sandboxes, browser pages, caches, model
roles, agents' protocols and the supervisor that keeps the server running.

## Inventory

### The execution pipeline (`src/server`)

| component | state it keeps | operations | interacts with |
|---|---|---|---|
| Durable runs, `durableExecution.ts` | run, claim and idempotency files | begin, record step, mark status, reconcile at startup | orchestrator; `privateStateLock.ts` |
| Admission and outbox, `routes.ts:466-550`, `executionOutbox.ts` | `messages`, `execution_outbox` rows | accept a message, admit, read unfinished, advance a state | task queue, orchestrator |
| Task queue, `taskQueue.ts` | queue availability, flush flag, Redis jobs (BullMQ) | initialise, enqueue, flush, process a job, cancel, shut down | outbox, Redis, orchestrator |
| Orchestrator, `orchestrator.ts` | conversation, tasks, agent runs, messages | run a request, recover at startup | all of the others |
| Plan and DAG executor, `taskPlan.ts`, `orchestrator.ts:633-788` | pending / running / completed task sets | validate a plan, find cycles, run waves of ready tasks | worker agents |
| Spending, `spendGuard.ts`, `modelRouter.ts` | ledger and reservation rows by month | reserve, settle, settle conservatively | every model and image call |
| Run budget, `modelRunBudget.ts` | calls and tokens of one run | reserve, settle | model calls |
| Retry and fallback, `errorRecovery.ts` | none | up to three attempts, then one fallback model | model calls |
| Lifecycle, `index.ts`, `lifecycle.ts`, `script/private-service.mjs` | drain flag, active requests; the private lock, the supervisor's lease, its state and stop files | start, drain, clean up; supervise, stop | all of the others |

### The services around it

| component | state it keeps | operations | interacts with |
|---|---|---|---|
| Messaging hub, `messagingHub.ts` | channels, subscriptions, delivery queue, one snapshot row | register, test, update, remove; send, deliver, retry; accept inbound; restore | providers, orchestrator, SQLite |
| Docker pool, `dockerSandbox.ts` | map session to container, its statuses, pending creations | exec, create, evict, reap, remove, clean up | docker, worker agents |
| Browser tool, `browserTool.ts` | pages and contexts by session, warm pool | get page, close page, warm, refill, shut down | Chromium, worker agents |
| Model connections, `modelConnections.ts`, `modelService.ts`, `modelReadiness.ts` | rows of `models`, two core roles | create, connect, test, update, disconnect, delete, reconcile | providers, router |
| Circuit breaker, `circuitBreaker.ts` | state, failure window, probes in flight | execute, trip, reset | no caller in the default build |
| Response cache, `cacheEngine.ts` | two LRU tiers, byte counts | get, set, sweep, clear, warm from Redis | router, Redis |
| A2A tasks, `a2aProtocol.ts` | task registry | message/send, tasks/cancel, eviction | orchestrator |
| Swarm engine, `swarmEngine.ts` | sessions of agents and tasks, loops in flight | start, stop, terminate, run, assign, complete, fail, detect stale agents | model calls, tools |
| NIP sessions, `nipEngine.ts`, with the standing of `identityEngine.ts` | sessions, trusted parties, alerts, reports | create, send, pause, resume, terminate, complete, report; register, approve, revoke; suspend, ban, reactivate | operators over HTTP |

Further parts: the model catalog, tools, governance (`policyEngine.ts`,
`governedFetch.ts`), memory and knowledge, MCP, gRPC, GraphQL, the other
experimental engines behind `ULTRA_EXPERIMENTAL=1`, the optional Temporal worker,
backup and import, and the React client. `PROJECT.json` lists each with its status.

### What is hard here, and the properties that make it correct

- **Durable runs.** Several files remember one run and a process may die between
  any two writes. At most one execution of a workflow ever acts; the files keep to
  the ledger they stand for; a resumable run is resumed and any other orphan is put
  up for review.
- **Admission and queue.** SQLite, Redis and the run files disagree for a while
  after every kill and every outage. An acknowledged message is answered at most
  once, is never lost, and a recovery that is not itself killed announces what it
  found interrupted.
- **Task graph.** Up to eight agents run concurrently over shared scheduling
  sets, and each of them can fail, or fail to record what it did. Dependencies
  end first, a turn is answered only if all of it succeeded, nothing of it runs on.
- **Spending.** Money is admitted before the price is known and settled by
  callers that may be cut off, a month later or never. What is committed to a
  month never exceeds its ceiling, and covers what providers bill for every request
  that is open, and for every settled one whose adapter reports all that was billed.
- **Messaging.** The hub lives in memory and one row; a death or a refused write
  separates what providers, memory and disk believe. What is saved as settled is
  not sent again, an inbound event is dispatched once at most, what was accepted is
  settled in the end.
- **Sandboxes and pages.** Creations, removals and refills are awaited while the
  same session goes on. No agent's command loses its container (those of a shared
  session may), no browser context serves two sessions, and agents' containers keep
  to the pool's limit.
- **Supervisor and app.** Two locks, two files and a killed supervisor's orphan.
  Two apps never serve at once, a confirmed stop is quiet, and an app that is not
  stopped comes back.
- **Late results.** A probe of an earlier half-open period, of a model since
  disconnected, of a stale agent: each is applied to whatever the state has become.

## Plan

Done, in this order:

1. `RunLedger` (abstract: what a durable run promises), `DurableRun` (its files),
   `DurableRunProof`.
2. `Execution`: outbox, queue and orchestrator composed in one module around the
   same kill; it uses `RunLedger` as the abstraction of its durable runs.
3. `ModelSpending` (ledger, run budget and retries composed), `ModelSpendingProof`.
4. `TaskGraph`: plan, waves, workers.
5. `MessagingHub`: inbound dispatch over a crash; the delivery queue with its
   retries, its saved snapshot and a store that may refuse a save.
6. `SandboxPool`, `CircuitBreaker`, `RecencyList` (abstract) with `LinkedLru`,
   `ResponseCache`, `A2ATasks`, `PrivateService` (supervisor, private lock and the
   order of a shutdown), `ModelConnections`, `Swarm`, `BrowserPool`, `NipSessions`,
   and `Services`, which checks them.
7. `SumLemmas`, `ExecutionProof`, `TaskGraphProof`, `MessagingHubProof`,
   `ServicesProof` and `BoundsProof`.

Every safety property, action property and refinement that a passing run checks is a
theorem by now. What stays with TLC is liveness. What could still be added is a
refinement of the messaging hub to an abstract mailbox, and the parts of components
listed as `partly` in `PROJECT.json`.

## Modules and the code

`MC*.tla` only give values to constants; `PROJECT.json` maps each definition to
its lines. Operators under a comment `Seeded fault` are not part of any
specification: each is a variant of the definition below it, with a plausible
bug, kept to show that a property would notice that bug.

JavaScript runs one synchronous stretch at a time, so an action is such a
stretch between two `await`s, split further where a kill or another process can
come between two writes. All SQLite calls are synchronous.

### RunLedger, DurableRun (`durableExecution.ts`)

`run`, `claim` and `link` are the three kinds of file; `life` are the processes,
each started once, so a restart is the next process. `at`, `ask` and `view` are
where a process is inside `beginDurableRun` and what it has read. Each file
operation is an action: `ReadExisting`, `InspectClaim`, `OpenClaim`, `FillClaim`,
`PersistClaimed`, `WriteLink`, ... `ReadForStep`/`WriteStep` and
`ReadForMark`/`WriteMark` are separate because these functions take no lock.
`Effect` stands for anything the orchestrator does that the outside can see.
`ExclusiveOwner` is private mode: the lock of `privateStateLock.ts` lets one
process live at a time. Pids and namespaces decide what `ownerAlive` sees.

`RunLedger` says the same without files: a run is claimed, armed by a recorded
step, settled, reviewed; it acts only while armed by its one executor.

### Execution (`routes.ts`, `executionOutbox.ts`, `taskQueue.ts`, `orchestrator.ts`)

A message's row (`outbox`), its job in Redis (`job`, `tries`, `stalls`), the call
that executes it (`exec`), its durable run (`run`, `owner`, `armed`) and its
conversation (`conv`, `answers`, `notices`). BullMQ and Redis are external,
modelled by how `taskQueue.ts` uses them: one job per id, redelivery when the
lock lapses, failure when that happens twice or the attempts are used up.
Acting is one step here, `Plan` .. `Answer`; what happens in between is `TaskGraph`.
An execution may also fail after it has answered (`Fail`). `cancelJob` has both its
branches: of a waiting job, which it removes (`CancelRemove`) before it closes the row
(`CancelMark`), and of an active one, which it marks as failed in Redis while the worker
goes on (`CancelActive`).

### ModelSpending (`spendGuard.ts`, `modelRunBudget.ts`, `modelRouter.ts`, `errorRecovery.ts`, `imageGenTool.ts`)

A row per admitted request: its month, what it reserved, whether it is settled.
`recorded[month]` is the running total of the settled rows and `Committed(month)`
adds the reserved ones, which the code sums in SQL. A call is admitted by the run
budget and the ledger in one stretch, then the provider generates (`Generate`) and
bills (`Bill`) whenever it likes, also after the process has died. Amounts are
small integers, one price per token; rounding and the price table are left out.
What a request is billed and what its adapter reports of it are two things: a model in
`Understated` may be billed for tokens that its adapter's usage leaves out, as the
Anthropic adapter's does with cached input and the Google adapter's with thinking
output. The ledger settles at the report.
Providers are assumed to honour the output allowance they are given.

### TaskGraph (`taskPlan.ts`, `orchestrator.ts`)

`plan` is what the model proposed, any lists of dependencies whatever;
`Validated` is the depth-first search of the code and `dependsOn` what is stored.
`pending`, `running`, `completed` are the three sets of `executeDAG`. A worker
goes through `setup`, `model`, `tool`, `cleanup`. A journal write may be refused
(`faults`), and the error goes where the code's `throw` goes. Two branches of the
code are never taken and do not appear: a wave is awaited before the next, so
nothing runs when the loop looks for ready tasks, and a stored graph has no
cycle, since only earlier tasks resolve. Several tool calls of one response stand
as one.

### MessagingHub (`messagingHub.ts`)

`mem` is all the hub remembers and `disk` the row `persistState` wrote last; each
request that ends in `persistState` is one step in which the write succeeds
(`Persisted`) or throws with the memory changed all the same (`Unpersisted`). A pass
of the queue is `PassBegins`, then `Deliver` and `AnswerArrives` for each due
entry, one awaited at a time, then `PassEnds`; `pass` also says whether a timer is
set. A write that throws in a pass is an unhandled rejection, which `index.ts` answers
with a shutdown (`Stop`). `acceptInbound` is one turn of the event loop; only a kill
splits it, and `KillWhileAccepting` does so between the message's row and its
dispatch. Adapters are external: they answer, in time, anything `_deliver` accepts.

### Services, and the ten components it checks

The ten components below share no variable with each other, so their interleaving
would multiply states without showing anything. In a behaviour of `Services` one of
those in `Moving`, chosen by `service` at the start, does all the moving. Each is a
module of its own with its own properties; `Services` names them.

- **SandboxPool** (`dockerSandbox.ts`). A command (`call`) creates at most one
  container, named after it. `containers` is the map by session, `status` the field of
  the objects, `docker` what the daemon has, `removing` the removals under way. The
  daemon is slow (`DaemonRuns`, `DaemonRemoves` are its own steps), refuses a taken
  name, fails or is cut off (`faults`). `serial` tells agents' sessions, whose owner
  runs one command at a time and removes the container in the end, from shared ones
  such as MCP's. `CleanupBegins` .. `CleanupSweeps` are `POST /api/sandbox/cleanup`.
- **CircuitBreaker** (`circuitBreaker.ts`). Transitions and counters; the window is a
  count from which any number may have expired; a call remembers only whether it was
  admitted as a probe, which is what its end depends on. A function may throw before it
  returns its promise (`ProbeThrows`): its slot is then counted by nobody, which `leaked`
  remembers until the counters are next reset.
- **LinkedLru**, **RecencyList**, **ResponseCache** (`cacheEngine.ts`). The doubly
  linked list pointer by pointer implements a sequence in order of use. In
  `ResponseCache` the tiers carry what the code counts beside them, and the model keeps
  the code's miscounts.
- **A2ATasks** (`a2aProtocol.ts`). The handler of `message/send` up to its await,
  the orchestrator's run, its events and the thirty-second timer; cancellation and the
  registry's eviction go on meanwhile.
- **PrivateService** (`private-service.mjs`, `index.ts`, `privateStateLock.ts`).
  Supervisors with their lease, apps with the private lock, the state file and the
  stop file. Locks are SQLite transactions and end with their process. Names of apps
  are used again, so a supervisor may spawn without end.
- **ModelConnections** (`modelConnections.ts`, `modelService.ts`, `modelReadiness.ts`).
  A row is enabled, connected and has a method with what it needs given or not;
  `Probed` is `testConnection` up to its await and `ProbeEnds` the rest, on whatever
  row there is by then. Several probes of a model may be in flight, so whether one
  that ends was the last is left open. `Reconcile` is `reconcileModelRoles`.
- **Swarm** (`swarmEngine.ts`). One session: loops of `runSwarm`, executions, the stale
  detector, the operator. The clock and the tokens used are left open, so a limit may
  be found reached at any turn. An agent is added under any id, one in use or once removed
  included. A wave gives tasks to the agents they are awarded to and, where nobody has a
  score, hands them out to those idle before it (`direct`, `handed`); a loop may throw
  before its first claim and leave the session as it is (`Rejects`). `doubled` remembers
  the agents added again while an execution of theirs was in flight, or handed a task
  besides the one they were awarded. `claimed` lasts within one turn and `waiting` is never
  set, so neither is told apart. A dependency can only name an existing task, so there
  are no cycles for `detectDeadlocks` to break.
- **BrowserPool** (`browserTool.ts`). Contexts are numbered as they are made; `getting`,
  `refills`, `creating`, `closing` are the calls that await something.
- **NipSessions** (`nipEngine.ts`, `identityEngine.ts`). One organisation. A session has
  its state, how many messages it keeps and, for the properties, how many have been
  said; the limit, which the request may set to anything, is compared with the former.
  `Speak` is `sendMessage` with every alert a
  message can raise on its way, whatever patterns and clocks decide (`injected`,
  `drifted`). `party` may be revoked and registered again with another limit.

## Runs

Every property of a passing run is broken by a seeded fault under the same
configuration. Runs that expect a violation are disagreements between the code and
what it says of itself (`findings` in `PROJECT.json`).

| run | instance | shows |
|---|---|---|
| `durable_private` | 3 incarnations, 1 workflow, 2 conflicting requests, 2 steps | one execution acts, the files name it, orphans are reviewed; `DurableRun` implements `RunLedger` |
| `durable_shared` | 3 processes of one pid namespace without the lock, symmetric, tool steps only | no two live executors; a workflow never changes request |
| `execution_crashes` | 1 message, 1 kill, 2 Redis faults, 2 attempts, queue required | at most one answer, a failed row stays closed, everything settles; runs follow `RunLedger` |
| `execution_restarts` | 1 message, no queue required, cancels, 2 kills, 2 faults | at most one answer from queue and direct execution together; every recovery that gets to its end announces what the last incarnation left interrupted |
| `execution_stuck_row` ✗ | 1 kill, no fault | a kill before the `failed` listener leaves the row queued for ever |
| `spending_months` | text call with retry and dearer fallback, image, 2 months, 1 death; the first model's adapter leaves tokens out | totals are sums, ceiling, bills held, only the dead stay reserved, closed months only shrink |
| `spending_budget` | 2 workers of one run, 2 retries, local fallback | where ledger and run budget each refuse, the run's output stays bounded and every call ends |
| `graph_waves` | every plan of 3 tasks (4096), both engines, 2 waves, 2 rounds, 2 refused journal writes | validation is exact, order, outcome, cleanup; every turn ends |
| `graph_unordered_plan` ✗ | plans of 2 tasks | an admitted plan that lists a task before its dependency never finishes |
| `messaging_hub` | 1 channel, 2 deliveries, 1 event delivered twice, 1 kill, 1 refused write | nothing saved as settled is sent again, an event is dispatched once at most, accepted deliveries settle |
| `messaging_lost` ✗ | 1 event | an event stored and not dispatched is answered with success when it comes again, and never dispatched |
| `services` | the ten components, one at a time (bounds below) | pool bound, agents' commands undisturbed, breaker slots accounted for, cache budget, LRU refinement, A2A answers, one serving app, confirmed stops, service until stopped, core roles, one task per swarm agent, unshared browser contexts; the types of all ten |

`TypeOK` of every specification is proved. `services` checks that of its ten
components too; a run of another module that wants it adds one line to its `.cfg`.

### Bounds, and why they are enough

- Three processes: one that dies, one that recovers, one that meets what the
  recovery left. Two requests for one workflow: equal and conflicting. Two steps:
  a read, after which a run may resume, and a tool, after which it may not
  (`durable_shared` has the tool only: a run may resume before its first step).
- `MaxEpochs`, `MaxFaults` of `Execution`: one kill meets every stretch of the
  server, two also the recovery from the first (`execution_restarts`); each fault kind
  needs one, an outage during a retry two.
  `MaxAttempts` 2 instead of the configured number: first and last.
- `MaxIds`, `LastMonth`, `MaxCrashes` of `ModelSpending`: three attempts cover
  first, retry, fallback; the month turns once between any two steps. The ceiling
  and budgets are chosen so that some admissions are refused by each limit. The
  invariants are also proved for every value.
- `N` = 3 has chains, forks, joins, cycles of length 1 to 3 and every order of
  listing. `MaxRounds` = 2 lets a task use a tool and still succeed.
  `MaxIterations` = 2 cuts a chain of three. `MaxFaults` = 2 refuses a step and
  then the record of its failure.
- `MessagingHub`: two deliveries, so that a pass may fail with one settled and one
  waiting; one retry more than none; an event that arrives twice, one kill and one
  refused write, each of which may meet either arrival.
- `SandboxPool`: three commands, two of one session, room for one container: every
  creation of the other session evicts. One docker fault, one cleanup. The commands
  of a session are alike, so they are numbered as they come.
- `CircuitBreaker`: four calls in flight, of at most one probe a period: a stale
  probe, a present one and two plain calls that fail and open the breaker under both.
- `LinkedLru`: four keys in a list of three nodes: head, middle, tail and one outside.
  `ResponseCache`: two keys of two sizes in tiers of one entry, so that the byte counts
  go wrong in every way the code allows, and one entry warmed.
- `A2ATasks`: three tasks and a registry of two. `PrivateService`: two
  supervisors, three apps (an orphan, the present one and a replacement), one killed
  supervisor, two app faults. Apps are alike, so a new one takes any free name.
  `ModelConnections`: two models; the environment may
  change with each restart.
- `Swarm`: two agents, one added later, a task added later that passes from one to the
  other, two loops of one turn that may be run again, failures up to the breaker's
  threshold. Two tasks that do not wait for each other make waves of two; with them the
  swarm alone has 850,000 states, too many to keep in this run, and `OneTaskPerAgent` held
  in all of them.
  `BrowserPool`: two sessions, three contexts, a pool of one.
- `NipSessions`: two sessions, limits of one and two; four messages, since a session has
  three when it first becomes active, and a list that keeps as many.

Deadlock is not checked: a served message, a spent budget, a finished turn and a
used-up bound are ends.

### Fairness, and why the code justifies it

Everything fair is work of the event loop or of a component that retries by
itself. `DurableRun`: a live server's startup scan and the first part of a begin
go on. `Execution`: the supervisor restarts a dead server, Redis comes back, the
five-second flush timer fires, BullMQ delivers waiting jobs and redelivers stalled
ones, orchestrator calls go on. `ModelSpending`: an attempt is admitted or
refused, a sleeping retry wakes, a stream ends, breaks or times out. `TaskGraph`:
the scheduler and each worker go on, since model and tool calls have timeouts.
`MessagingHub`: the queue's timer fires, adapters time out, backoffs end, and the
supervisor starts a stopped server. `A2ATasks`: only the thirty-second timer.
`PrivateService`: every wait of the supervisor and of a shutdown has a timeout; a
hung app is owed nothing. Nothing is assumed of kills, faults, cancels or providers'
bills, and no action is assumed strongly fair.

## Promises the code does not keep

Met while modelling. The models have the behaviour unless a bullet says otherwise;
three of them are runs of their own (✗), the others are not spent a run on. A property
named in a bullet is stated in the component's module and fails there; to see it fail,
name it in a `.cfg` with the constants that the bullet gives.

Durable runs and admission:

- Killed between creating and writing the claim file (`OpenClaim`, `FillClaim`), a
  process leaves a file no later begin can parse (`InspectTorn`): the workflow can
  never start, though README.md:71-72 says early interruptions can resume.
- Without the private lock a begin that decides on a stale copy acts again
  (`EffectsOnce` in the configuration of `durable_shared`).
- The app and the Temporal worker's container (docker-compose.yml:141) share the
  files but not the pid namespace: a live owner there is taken for dead
  (`OwnerAlive` with two `Namespaces`), against the comment durableExecution.ts:198.
- "Later interruptions are marked interrupted with visible guidance" (README.md:72): a
  second kill between `RecoverRun` and `RecoverChat` leaves an interrupted run that no
  later scan looks at (durableExecution.ts:242), and whose conversation never gets its
  guidance (`InterruptionsAnnounced` in `execution_restarts`). One before planning leaves a
  run that BullMQ fails at its second stall, and that nobody then resumes.
- "For active jobs, attempt to mark failed (worker will detect this)"
  (taskQueue.ts:460): the worker never looks, so a message whose cancellation was
  answered with true is answered all the same (`MarkedNotAnswered` with `Cancels`). Of a
  waiting job, a flush may add it again between the two steps of `cancelJob`; it is
  executed only if the worker's replies from Redis overtake the one `cancelJob` waits
  for. Nothing in the server calls `cancelJob` yet.

Spending:

- "Anthropic includes the adapter's five-minute cache writes. These are budget bounds"
  (spendGuard.ts:33-35): the price includes them, the usage it is multiplied with does
  not. anthropicAdapter.ts:198-203, 220 and 253-256 report `input_tokens` without the
  cached ones that its `cache_control` blocks cause to be billed, and
  googleAdapter.ts:236-242, 278-285 leave out thinking tokens. A settled row may hold less
  than its bill (`EveryBillHeld` in the configuration of `spending_months`), so a month's
  bills may pass the ceiling that `WithinCeiling` keeps for the ledger.

Task graph and sandboxes:

- The dependents of a failed task start (orchestrator.ts:779), though the planning
  prompt says "tasks must complete before dependents start".
- `DockerSandbox.removeContainer` swallows a failed `docker rm` (dockerSandbox.ts:447),
  so the failure orchestrator.ts:1072 would report is seen with OpenShell only
  (`EndsBadly`).
- "Container stays alive for the session" (dockerSandbox.ts:17), "Evict the oldest idle
  container" (453): commands of one session that join one creation (245-248) share its
  container, the first to end calls it ready (374), and eviction or the reaper then take it
  from under the others (`CommandsUndisturbed` in the configuration of `services`). Such
  sessions are the default one (tools.ts:245) and MCP's; an agent runs one command at a
  time.
- "Idle containers are reaped" (dockerSandbox.ts:18) fails (`NoStrays`): a removal that
  ends late deletes the session's newer entry; a `docker run` that was cut off leaves a
  container in no map; and after `POST /api/sandbox/cleanup` the reaper stays off until
  the next `resetDetection`.
- Browser: two first calls of `getBrowser` launch two processes, of which
  `shutdownBrowser` closes one (not in the model, which has no processes). Concurrent
  refills exceed `POOL_SIZE`; a close that ends late deletes a newer context from the
  maps; after a crash a stale slot entry makes `closePage` close the old slot and leak
  the new context; a slot whose egress guard fails is leaked.
- OpenShell (not modelled): a failed create whose delete fails leaves a session entry; a
  timed-out command whose delete fails is used again; one sandbox that cannot be
  deleted blocks reaping and admission.

Messaging:

- A stored event whose dispatch was lost is answered with success ever after
  (`messaging_lost`); after the first channel of its type changes, the same event is
  dispatched again, since the first registered channel is part of its identity.
- "Removes a channel and all its subscriptions" removes every other one
  (`RemoveChannel`, `SubscriptionsOfChannels`); a removed or disconnected channel's
  deliveries go on until the next restart; a connection test that ends late overwrites
  a disconnection.
- A message whose `enqueue` could not be saved is sent although its caller got an error.
  One saved as sent may become failed in a restart. A duplicate without a thread
  subscribes to a conversation that is never created.

Breaker, cache, agents:

- "Maximum concurrent requests allowed in HALF_OPEN state" (circuitBreaker.ts:27): probes
  of an earlier half-open period come on top, and their success may close the breaker. A
  function that throws before it returns a promise, as the plain arrow of the documented
  use (455) may, leaves its slot counted (267-269): with all slots so lost, the half-open
  breaker refuses every call with none in flight until an operator resets or trips it
  (`SlotsAreHeld` in the configuration of `services`).
- Cache: overwriting adds bytes without subtracting the old ones, `SemanticCache.clear`
  keeps `bytesPerKey`, and `warmFromRedis` passes the budget, may overwrite a newer
  answer and bring back a cleared one. What holds is the bound of `BudgetKept`.
- A2A: a task cancelled while the orchestrator works is set to completed or failed
  afterwards (`CancelledStays`).
- Swarm: a loop does not look at the session's status, so agents whose executions end
  after a stop or a termination are given further tasks. With every agent stale, or
  after the turn limit, `stopSwarm` says `completed` with tasks pending, on which
  orchestrator.ts:344-350 relies. A stale agent's late completion is refused and its
  work done again, its failure is not refused, and a completed task may become failed.
  "Only allow 1 agent at a time" (swarmEngine.ts:1667): a whole wave is assigned. An
  execution of more than four minutes counts as stale.
- Swarm, an agent with two executions (`doubled`): `POST /agents` with the id of an agent
  at work, or removed while at work, makes it idle at once (swarmEngine.ts:540, 561;
  swarmRoutes.ts:219-221); and when negotiation finds no score for a task, as with a
  profile whose numbers make it NaN (718), the task is handed to the first of those who
  were idle before the wave (1701-1704), whom it may just have been awarded another.
  `claimTask` asks for no status (737-763). A profile without specialties, or dependencies
  that are no list, reject `runSwarm` and leave the session "running" without a loop.
- NIP: "Lockdown ... requires human review to unlock" (nipEngine.ts:1222): nothing
  unlocks; a session that completed may be locked by a later alert and its report made
  again with another outcome. "Hard cap on total messages exchanged"
  (nipEngine.ts:201): a limit above 1000, which `createSession` does not clamp (592-596),
  is never reached, since the list it is compared with is cut at 1000 (1733-1735;
  `HardCap` with `MaxMessages` above `MessagesCap`).
  `negotiateSession` always throws; a pause and a resumption make a
  session active all the same. Revocation and suspension leave its sessions running.
- Identities (tiers are not in the model): approving an older request for a lower tier
  lowers the tier that a later one had given, though it is logged as "upgraded"
  (identityEngine.ts:1071).

Models and lifecycle:

- "Keep both core roles on connected ... models when possible" (modelConnections.ts:768):
  enabling the only connected model again leaves both roles empty. A late probe marks a
  disconnected or re-credentialed model connected; a new key keeps the old status until
  its probe ends.
- "Held for the private process lifetime" (privateStateLock.ts:4): `index.ts:56-57`
  releases the lock and closes SQLite while the task queue may still wait for its job
  (`Drained`, `Closed`). An orphan that hangs keeps ports and lock: "No PID from disk is
  killed" (private-service.mjs:106), which is why `ServesUntilStopped` has its exception.
  The stop command's check of the outbox races with new messages.
- Cron (not modelled): a job that times out leaves the running set while it runs on;
  `detectMissedRuns` is never called. Checkpoints (not modelled): the heartbeat renews
  every running checkpoint, so none is ever found abandoned.

## Proofs

TLAPS proves each theorem for every value of the constants that satisfies the named
assumptions of its module (`DurableRunAssumption`, `SpendingAssumption`, ...), which
TLC evaluates on the instances. A hypothesis beyond those stands in the theorem as
`ASSUME`, and is named below with its reason. The pattern is the same throughout: the
property is not inductive, a stronger invariant is, one lemma per group of actions
shows that they keep it, and the theorem combines them.

`DurableRunProof` (any processes, workflows, keys and steps):

- `TypeCorrect`: `Spec => []TypeOK`, in both modes.
- With the private lock (`ExclusiveOwner`): `ActsOnce`, `FilesNameExecutor` and
  `CreatedOnlyBeforeActing` state `EffectsOnce`, `ExecutorOwnsFiles` and
  `CreatedIsSafe`. None is inductive: whether a begin may execute depends on what it
  has read, and on the steps the last executor had recorded when it died. `IInv` is
  `TypeInv` and `Core`: one live process (`Alone`); files agree with each other
  (`Filed`); whatever acted has its step on file (`ActedOnRecord`); the executor is on
  record (`ExecutorOnRecord`); a settled or unstarted workflow looks so
  (`SettledOnRecord`, `Unstarted`); and the copy a process holds is the file
  (`ViewsOfRuns`), which is what private mode gives and what fails without it.
- `PrivateModeIsALedger` (`ImplementsLedger`), from the same `IInv`: a write of the run
  file is a claim, an arming, an outcome or an interruption of `RunLedger`, or no step,
  according to what the copy changes (`WritesClaim`, `WritesOutcome`, `WritesSame`);
  everything else, a crash apart, leaves the ledger alone.
- `ExecutesAlone` (`OneExecutor`), without the lock but in one pid namespace: between
  two namespaces it is false, as said above. `SharedInv` bounds what each process may be
  about to write or claim, however stale its copy is (`ViewAllowed`): a record that
  says "running" names whoever executes, and who claims holds the mutex and has seen
  the owner dead.
- `WorkflowsStayTheirs` (`IdentityStable`), in every mode and with any namespaces: a
  stale copy is at least of the same request as the file (`ViewTrue`), and who is going
  to write a key file holds the mutex and found none that says otherwise.

`ExecutionProof` (any messages, kills, faults, attempts). `Inv`, kept in every mode,
says who waits for which execution and what job, row, run and conversation may say of
each other meanwhile (`Retries`, `Idle`, `Admitted`, `Executing`, `Ledgered`):

- `TypeCorrect`; `AnsweredOnce` (`AnswerOnce`), with `Receipts`: whatever reports a
  completion, the worker, the row or the job, reports a completed run.
- `RunsImplementLedger` (`RunsFollowLedger`): the composition of outbox, queue,
  orchestrator and recovery treats its runs as `RunLedger` allows.
- `FailedStaysClosed` (`NoResurrection`), assuming `~Cancels`, since nothing in the
  server calls `cancelJob`: a row fails only after the worker has given up (`Refused`).
- `RestartIsAnnounced` (`RestartAnnounces`), for any number of kills: what a startup scan
  has marked is in `found` until it is announced, and the server does not serve before
  that. A run whose owner's successor was itself killed in its recovery is outside the
  statement, since there the guidance is lost, as said above.

`TaskGraphProof` (plans of any length, any number of waves, rounds and refused writes):

- `TypeCorrect`, `DependenciesFirst` (`DependenciesEndFirst`), `NothingLeft`
  (`NoLeftovers`), from an invariant that ties the three sets to the rows
  (`RowsAgree`), each stage of a worker to its agent run and its container
  (`WorkersOwe`), and a task that has left `pending` to what it names
  (`DependenciesDone`).
- `ValidationExact` (`ValidationIsExact`): the depth-first search finds a cycle exactly
  where some set of tasks has each wait for another of it. The recursive function is
  shown to exist and to keep its promises (`Promises`) by induction on how many nodes
  the path leaves, an induction written out over a set of numbers.
- `SuccessWhole` (`SuccessIsWhole`): each way `executeDAG` ends has its reason
  (`Reasons`); that no validated task waits for itself comes from `ValidationExact`.

`MessagingHubProof` (any channels, deliveries, events, kills and refused writes):

- `TypeCorrect`, with the bound on how often a provider is handed one message: every
  attempt not on record cost a kill or a refused write (`Counted`, `Spare`).
- `DispatchedAtMostOnce` (`DispatchedOnce`): what was dispatched is stored (`Inbound`).
- `SavedStaysFinal` (`SavedIsFinal`): memory and row agree on what the row says is
  settled (`Saved`), and only the unsettled are due (`Turns`).

`ModelSpendingProof` (any calls, runs, prices, limits up to the hard maximum, any
months):

- `TypeCorrect`, `CeilingHolds` (`WithinCeiling`), `BillsCovered` (`BillsHeld`),
  `OnlyDeadReservations` (`OnlyTheDeadStayReserved`) and `ClosedMonths`
  (`ClosedMonthsOnlyShrink`). `IInv` ties a call to its open request and the request to
  its row: while a request is open its row holds the full reservation, priced at the
  dearer of model and admission price, so any later bill and any settlement is at most
  that; a settled row is bound to its bill only where the adapter reports all of it
  (`Metered`); ids not yet used have neither row nor bill (`Unsent`).
- `TotalsAddUp` (`TotalsAreSums`): every write of a row moves its month's total by as
  much (`Booked`).
- `RunOutputHolds` (`RunOutputBounded`): a request weighs what it was promised until the
  provider has completed it, then what it made (`Weight`). The weights of a run are
  covered by what it counted and what its calls in flight were promised (`Shares`).

`ServicesProof` and `BoundsProof` (any number of processes, agents, models, sessions,
containers, calls, keys; from `ServicesAssumption`, which is what the components assume
of their constants). Each theorem has an inductive invariant of one component's own
steps, and a lemma that any other step of `Services` leaves that component as it is
(`PrivateAlone`, `PoolAlone`, ...):

- `OneAppServes` (`OneServes`), by `ServingHoldsLock`: an app holds the lock from
  before it listens until its requests are over. Nothing about supervisors is needed,
  which is why their deaths do no harm.
- `StoppedIsQuiet` (`StoppedMeansQuiet`), by `StopInv`: a supervisor on record as
  stopped, or whose stop was confirmed, is done, and one that is done has no app.
- `AgentsWorkAlone` (`OneTaskPerAgent`): an agent that is idle, or not yet added, has no
  execution (`FreeAgentsRest`), and nobody has two (`OneExecutionEach`), apart from those
  in `doubled`, so a wave adds one execution each to agents that have none and an
  execution that ends may set its agent idle. Awards are injections into the idle agents
  (`AwardsAreFair`), and so is what a wave hands out without scores; only who is in both
  claims two tasks (`ClaimsAre`), and who is added again at work is doubled from then on.
- `RolesHeldByServing` (`CoreRoles`): whatever a request does to the rows, it either ends
  in `Reconcile`, which leaves nobody or one ready model in each role (`Reconciled`), or
  leaves every holder able to serve (`FitAfter`, `ProbedStep`).
- `ContextsServeOnce` (`ContextsUnshared`): contexts in the pool or still to be made have
  served nobody (`Clean`), and each leaves the pool for one session (`ServedOnce`).
- `AdmittedWithinLimit` (`LiveWithinLimit`) and `ReportsAreFinal` (`ReportsOfEnded`): no
  message with its alerts revives a session (`SpeakingNeverRevives`), and only a creation,
  which counts the live ones (`AdmittedStep`), adds to them.
- `LimitIsHard` (`HeardWithinLimit`): with a limit not above the number of messages kept,
  the list that is compared with it loses its oldest entries but never counts fewer than
  the limit once it has reached it (`KeepingGrows`), so the agents say no more than the
  limit. For a limit above, nothing is claimed: it is never reached. These three are proved
  and not run: one handler at a time leaves TLC nothing to interleave.
- `ListImplementsRecency` (`ImplementsRecency`): the pointers spell a sequence of
  different keys forwards and backwards (`Spells`). Unlinking a node spells the sequence
  without its key, prepending one spells the key and then the rest, and `RecencyList`
  does the same to its sequence; following the pointers from the head finds what they
  spell (`WalkIs`).
- `PoolStaysBounded` (`PoolBound`): a container marked for removal may become ready again
  when a command in it ends, so what must stay within the limit is more than the bound
  counts: the containers that are not being removed and those in use (`Kept`).
- `CommandsStay` (`AgentCommandsUndisturbed`), of agents' sessions, which run one command
  at a time, and as long as no cleanup is asked for: a container in use is not being
  removed, and one that is ready is up and unused (`InUseIsKept`,
  `ReadyIsUp`, `ReadyIsIdle`).
- `TakenSlotsAccounted` (`SlotsAccounted`): no more slots are counted than there are probes
  in flight and functions that threw in this period (`Accounted`), whichever period the
  probes belong to.
- `CacheKeepsBudget` (`BudgetKept`): a tier's total covers the bytes of all keys, held or
  not, and `bytesPerKey` is right for the held ones (`TierOK`); since nothing is stored
  before the budget is enforced, the excess is one answer in each tier and what was
  restored.
- `TypeCorrect` (`TypeOK`), of all ten: in particular the registry of A2A tasks and the
  pool's order of use name nothing twice.

`SumLemmas` has what these proofs need of sums over finite sets, and of induction: the
library's theorems on induction and recursion take an operator as parameter, so both
are stated there for a set of numbers and a set of sets, from well-foundedness.

Only model-checked: every liveness property (`OrphansReviewed`, `Settled`,
`EveryCallEnds`, `TurnEnds`, `DeliveriesSettle`, `SendsSettle`, `ServesUntilStopped`),
which is beyond the prover, and the three runs marked ✗, which are violations.

## Not modelled

File-system errors in `durableExecution.ts` other than an existing claim; the text
of messages, prompts and plans; model choice; policy decisions; what tools do; what
providers, adapters and pages answer. Providers are assumed to honour the output
allowance they are given (spendGuard.ts:341 settles what they report, even above it).
Direct execution (no queue) keeps nothing durable before the run starts, so a kill
loses the message; the code documents that. A graceful shutdown is in
`PrivateService`, and only the kill in `Execution`.

Of `Swarm`: claims, completions, executions and handoffs asked for directly over HTTP,
blackboard, consensus (which counts votes, not voters), spawning, deletion, and
restoring a session from disk (as "running", with neither loop nor timers). Of the A2A
module: `handleMessageStream`, which nothing calls, and the client. Of
`modelConnections.ts`: OAuth, since no provider of the registry is configured for it.

Left out as components, because there is nothing to interleave: backup and import (one
script under the private lock), the model catalog (its only await lies before its
first write), policy and governed fetch (pure decisions), OpenShell (one serial promise
chain), tools and the CLI engine (single operations outside the program), MCP, gRPC and
GraphQL (adapters), memory, learning and the rest of the identity engine (tiers, trust
scores, blocks: synchronous handlers over data), the watchdog (a measure), the web client
(a view). Cron and
checkpoints are experimental and protect no effect, as said above. The Temporal worker
is `DurableRun` without the private lock.
