# CodeCanvas: TLA+ models of the stateful backend

CodeCanvas is a fork of the n8n workflow automation monorepo. Most of its 26,000 files are
integrations, editor UI and data handling. What is hard to get right is a much smaller core: code
in which several processes, promises or message handlers change the same state. This directory
models that core in TLA+, model-checks it with TLC on small instances and proves its main
invariants with TLAPS for all instances.

`PROJECT.json` holds the inventory in machine-readable form: components, runs, seeded faults,
source lines of every definition, findings, hazards and theorems.

## 1. Inventory

| Part | State | Operations | What is hard | What makes it correct |
|---|---|---|---|---|
| **Durable scheduler** (`@n8n/scheduler`, `@n8n/db` scheduled tasks, `cli/src/scheduling`) | `scheduled_task` rows; per main: claimed tasks, timers, a sweep's snapshot | claim, arm, fire, begin dispatch, run the handler, mark dispatched, complete, fail, reschedule, release; reap; supersede, retire, delete; start, stop | several mains on one table without locks across statements; leases; crashes; late statements | one final and truthful outcome per occurrence; bounded redelivery; fenced owners; no occurrence stuck |
| **Materializer, misfire policy, provisioning, retention** | `scheduled_job` rows | claim due jobs, record occurrences, advance, supersede; reconcile with active workflows; prune | a pass beside executors and other mains' passes | each slot of a job recorded once; nothing deleted that still runs |
| **Concurrency control** (`cli/src/concurrency`) | capacity counter and waiting line per queue | throttle, release, remove, removeAll, disable | promises settle in one turn and are read in a later one | every unit taken is given back exactly once; nobody waits beside an idle slot |
| **Evaluation runners** (`cli/src/evaluation.ee/test-runner`, `cli/src/modules/agent-evals`) | pLimit fan-out, abort controllers, slots | take up a case, ask for a slot, abort, evict, release | abort and grant race through microtask chains of different length | no slot lost or doubled; every case answered |
| **Workflow engine v2** (`@n8n/engine`) | `workflow_execution`, `workflow_step_execution`; two in-memory queues | start, claim, record the trigger, plan, judge, finish; claim, load, run, record, report | two workers write one execution's rows between each other's queries; insert-then-publish; crashes; redeliveries | a step runs once, on completed inputs; an execution ends once, with the outcome its steps have |
| **v1-to-v2 conversion** (`@n8n/node-engine-compatibility`) | none | mark back-edges | pure | what remains is acyclic |
| **Active executions, workflow runner, stop and delete** (`cli/src/active-executions.ts`, `workflow-runner.ts`, `executions/`) | execution rows, the in-memory registry, reserved slots | add, attach, run, wait, resume, stop, finalize, delete, recover | state read before an await and written after it; a stop meeting every stage of a start | a stop is not lost; a slot is released once; a finished row is not overwritten |
| **Wait tracker and leader election** (`wait-tracker.ts`, `scaling/multi-main-setup.ee.ts`) | timers of waiting executions; a Redis key with a TTL | poll, arm, resume; take over, renew, step down | timers across leader changes; a leader that cannot see that it lost | leaders hold the key; a waiting execution resumes, and once |
| **Task broker, requester and runners** (`cli/src/task-runners`, `@n8n/task-runner`) | connections by runner id; pools of offers and requests; acceptances in progress; tasks; per runner: open offers and running tasks | connect, offer, request, match, accept, reject, defer, finish, cancel, time out, expire, check heartbeats, remove a connection, kill, drain | an acceptance racing expiry, disconnection, cancellation and its own time-out; ids that are taken over; half-open connections | a request gets one runner and one answer; its code starts at most once; no runner keeps a task nobody tracks; nothing waits beside an offer it could have |
| **Queue mode** (`cli/src/scaling`) | Bull jobs in Redis, running jobs | add, process, finish, fail, stall, recover | a row and a job are two records of one execution, read at different times | one run of an execution goes on at a time; it finishes, and a success stays |
| **Expression isolate pool** (`@n8n/expression-runtime`) | the pool's size, its timer | acquire, replenish, scale down, wake, dispose | awaits between checks and replacements | no bundle leaks after disposal |
| **v1 execution engine** (`packages/core`) | the node stack of one execution | node by node | sequential within an execution | data handling: tested rather than modelled |
| **CRDT documents** (`@n8n/crdt`) | Yjs documents | apply, sync | third-party merge | out of scope |
| **Dual canvas, custom nodes, front end, node packages** | documents, UI state | pure conversions, I/O | no coordination of their own | out of scope |

How the parts meet: the durable scheduler's handler creates executions through the workflow
runner; the runner, the evaluation runners and the enqueued-execution recovery share the
concurrency queues; the wait tracker calls the runner; the runner sends JavaScript and Python
tasks to the broker; the engine v2 is a separate server with its own tables and queues. Mains talk
to each other only through the database and Redis. Within a process everything is one event loop,
so an action of these models is *the code between two awaits together with the statement that the
second await commits*.

The hazards that follow from this, at their lines, are listed in `PROJECT.json` with the
properties that would catch each one going wrong.

## 2. Modules

```
OccurrenceLifecycle  <= refined by =  DurableScheduler -> TaskReaper -> TaskExecutor -> ScheduledTaskStore
EvaluationFanOut -> ConcurrencyQueue
EngineLifecycle      <= refined by =  WorkflowEngine -> EngineStore
TaskRequestLifecycle <= refined by =  TaskBroker -> TaskRunner
RegularExecutions -> ActiveExecutions -> ConcurrencyQueue
MultiMain -> QueuedExecutions -> LeaderElection
Materializer
```

Every component has an `MC...` module (instances for TLC) and a `...Proofs` module (theorems).

### Durable scheduler

* `ScheduledTaskStore`: one row of `scheduled_task` and the statements of
  `ScheduledTaskRepository` on it, each as a guard and what it makes of the row. They are single
  guarded `UPDATE`s, hence atomic. Two statements are not there but in `Materializer`: the insert
  of new occurrences and `updateMissedAfterForJobs`, which gives a job's pending ones a new
  deadline (`LeaveUnchanged`). Instants are reduced to what the statements ask: *due* (`runAt`
  within the lookahead), *overdue* (`missedAfter` passed), *lease* none/live/lapsed. Clock steps
  may make each of them pass at any moment, so every relation between lease length, lookahead,
  back-off and grace is covered.
* `TaskExecutor`: `fires` is the set of passages of claimed tasks through an executor, with the
  place each has reached (claimed, armed, firing, ..., threw, releasing). The handler is
  `ScheduleTriggerTaskHandler`. `claimedTaskById` is `tracked`; its entry is deleted by task id,
  whichever claim put it there, as in the code.
* `TaskReaper`: a sweep reads expired leases into a snapshot and decides row by row.
* `DurableScheduler`: the composition over hosts, with stop, restart and crash, and the passes
  that write the table only (retirement, catch-up, provisioning, retention).
* `OccurrenceLifecycle`: what an occurrence is promised, without hosts, leases and processes.

A pass that times out keeps running in the background; its late statements are those of another
host and need no state of their own. One `Loop`'s re-arming is represented by its effect, a pass
that may begin at any time.

### Concurrency queue and evaluations

* `ConcurrencyQueue`: `capacity`, the waiting line, and the ids whose promise has been resolved.
* `EvaluationFanOut`: cases of the test runner and of the agent runner over one queue: `pLimit`,
  the race of the grant and the abort, both evictions, late releases. `granted` (promise
  resolved), `noticed` (the `acquire.then` callback ran) and `race` (what won `Promise.race`) are
  separate because the code reads them in different microtasks.

In `Spec` any step may fall between a promise's resolution and its continuation, a superset of
what the microtask queue does: passing runs use it. `TurnSpec` lets an external event happen only
when the microtasks are drained, as it does in Node: the violation runs use it, so their
counterexamples are schedules the event loop can produce. The evaluation queue is created lazily
by the code; here it exists from the start. A test case whose eviction swallowed a granted slot is
in the phase `swallowed`, so that the balance and the theorems hold of the code as it is and the
violation run shows the loss by itself. The unlimited modes are left out; `disable()` at shutdown
is in `RegularExecutions`.

### Materializer and provisioning

* `Materializer`: jobs with their clock (`nextRunAt`), the rows of occurrences, and one
  transaction per slot in `txn`: a pass that claimed its jobs with `FOR UPDATE SKIP LOCKED`, or an
  activation of a node between its unlocked read, its write and its seed. A transaction's writes
  are one step, its commit; what it read before and the rows it locks are in `txn`, as under
  Postgres READ COMMITTED (SQLite's `BEGIN IMMEDIATE` allows fewer behaviours). `Materialize`
  contains the whole pass: walk, misfire policy, cap, recording, superseding, advancing, and the
  deferral of a job that cannot be planned. `since`, `discarded`, `overtaken` and `spared` are history.

A main with a pass and an activation open counts as two slots. A rule is its set of instants (and
`Cyclic` rules never run out); which instants a cron expression has is calendar arithmetic of
libraries. A node has one rule, and a job's name and fingerprint are its rule. Executors and the
reaper appear by the statements that make a row pending or no longer pending: `ClaimTask`,
`ReleaseClaim` (as it was), `Retry` (`rescheduleTask` and `reclaimExpired`: later, and whatever its
deadline) and `RetireMissedPending`; the rest of a row's life is in `DurableScheduler`. A row an
executor holds when a newer catch-up is recorded is not superseded, and comes back to pending
beside it when it is released, retried or reaped: `spared` remembers these rows and
`CatchUpStandsAlone` excepts them and no others. One-off rules are accepted by the provisioner but no
registrar provisions one today. Left out: `lastFiredAt`, `enabled = false`, batch sizes.

### Workflow engine v2

* `EngineStore`: the two tables, their statements (each a compare-and-set or an insert that
  ignores conflicts), graph validation and neighbour queries.
* `WorkflowEngine`: the start service, the two queues, the orchestration worker's two handlers and
  the step worker's handler, statement by statement. `planner` and `runner` say which statement the
  handler in progress is about to issue. `sent` and `runs` are history variables.
* `EngineLifecycle`: what the two tables are promised to go through.

Steps that are merged because nothing can happen between them: the existence query and the insert
of `planSuccessors` (a validated graph has one edge into a node, so the query asks only about the
completed step itself), the two parallel reads at the head of the completion handler (a published
completion's row is already terminal), and loading a step with gathering its inputs (completed
outputs do not change). `PlannerThrows` and `RunnerThrows` stand for refused statements, lost
answers and rejected publishes; a shutdown is a crash after the handlers came to rest. Redelivery
is what the queue contract allows and the handlers are written for; the in-memory queue never does
it. Validation accepts edges to nodes that do not exist (a TODO in the code says so); the instance
includes such a graph.

### Task broker

* `TaskRunner`: a runner process with its offers, slots and tasks, and the two ends of its
  connection. A process opens one connection and exits with it, so a process names its connection.
  Every acceptance uses up an offer, so a task is named by the offer it was matched with.
* `TaskBroker`: the matching service, the WebSocket server before it and the requester in the same
  process. The service never awaits anything but messages it sends and promises its own handlers
  resolve, so one action is one turn of the event loop with its microtasks; `Settle` is
  `settleTasks` as a function on the state, because a turn may run it several times. The analysis
  of a disconnection may take time (it waits for the exit of a child process), so a removal is
  split there; `removals` are the calls in between. `Only` and `Without` are the array's `filter`,
  `RejectAll` is the loop in which `deregisterRunner` rejects the runner's acceptances, each with a
  matching of its own; both are recursive functions, which the proofs can unfold. The history
  variable `replaced` holds the connections that a late registration replaced (section 3, three
  connections of one id): `NoLostTask` and `LostTasksFail` except their tasks, and nothing else.
* `TaskRequestLifecycle`: what a requester may rely on.

Timers may fire at any moment, so the cap on refreshed request windows
(`MAX_REQUEST_TIMEOUT_REFRESHES`) needs no state, and an offer may lapse at either end first. The
analysis is modelled against its interface: it may take time in either mode, also for the default
analyzer that answers at once. `taskdone` and `taskerror` are one message, as the broker treats
them alike. Data requests and RPC calls of user code change nothing in the broker except when the
answer finds the runner gone (`RelayFails`). A launcher, which defers acceptances, is external. A
relaunched child is a new process with a new id; external runners may share an id. A runner's
stop is modelled from where it begins to drain: before, it serves as usual.

### Executions in regular mode

* `ActiveExecutions`: the registry's entries and the production queue: `add`, `attachWorkflowExecution`,
  the finalization of an attempt, and who gives a slot back.
* `RegularExecutions`: the attempts of an execution (a first run, a resume, a duplicate resume, a
  recovery) through `WorkflowRunner.run`: claim of a waiting row, throttling, registration,
  `setRunning`, attaching, running, saving, putting to wait, finalization. Beside them stops,
  deletions, time-outs, the wait tracker's timers, requests to waiting webhooks, shutdown, crash
  and the start-up recoveries. `at` is the place an attempt has reached; `reserved` are the slots
  attempts carry; `stopping` and `stopped` say whether a stop was received by the run (`caught`)
  or not (`missed`).

A run's last node and its save are one step, and microtasks between a settled promise and its
consumer are merged with it.

A start is modelled in the code's order. The wait tracker (`start.ts:268`), the server (`:403`,
which also looks for crashed executions, `server.ts:261`) and the durable scheduler (`:409`) are
there before the executions left new are read (`:415`), so requests, timers and triggers act from
`Restart` on. `startup` says how far the recoveries are: `CollectUnfinished` reads the rows that
run and what the event log names; for one after the other (`Repair`), crash recovery marks or
reads it (`RecoverCrashed`, `ReadMarked`), writes what it read back by id (`Amend`) and runs the
save hook (`RunHooks`); then `FindLeftovers` reads the new rows, whoever made them, and `Recover`
starts them. Whatever a trigger starts in between may be taken for a leftover of the last process.
`torn` remembers the executions to which that happened: a recovery claimed a row whose first
attempt was still waiting for it, or crash recovery took up one that an attempt of this process
worked on. There, two attempts do work on one execution, the entry one of them replaces
(`active-executions.ts:161`) loses its slot, and a row that ended may be written back: the code
does so, and `OneAttemptWorks`, `SlotsComeBack` and `EndedStaysEnded` except these executions and
no others. `SlotsAccounted` and `CaughtStopsHold` have no such exception; a stop that is answered
during the recoveries does not count as caught, as what they read before they write back after it.

Only the executions in `Watched` wait, time out and get requests, which bounds the state space; the
others compete with them for slots. A creation during a start's recoveries spends one of
`MaxEvents` and is of a watched execution, for the same reason; the theorems hold for any
`Watched`, all of `Execs` included, and any `MaxEvents`.

### Leader election and queue mode

* `LeaderElection`: the key with its TTL, the mains' belief (`leads`), acquisition, check, renewal,
  failing commands, expiry, step-down, and the end of a process in three steps: the signal
  (`GetSignal`, `base-command.ts:480`), after which checks still run; `Shutdown`, which stops them
  and lets a leader delete the key without stepping down; and `Exit`, when the executions are over
  or the timer ends the wait (`start.ts:109-128`). Between the last two the main leads on without a
  key (`resigned`) while another may take it.
* `QueuedExecutions`: executions with a row and a Bull job: enqueue, take, run, save, return,
  stall, fail, the main's reaction to a finished or failed job, the claim of a waiting row.
* `MultiMain`: composes them with the wait tracker (`polls`, `entries`, `armed`) and queue recovery
  (`recovers`, `saw`: the rows read, compared with the jobs read later), and the order in which a
  starting main joins elections and registers its subscribers (`unheard`). A main that shuts down
  stops tracking and recovering (`BeginToStop`), but serves what reaches it until it ends, and a
  check or a recovery's cycle under way may start either again.

A Redis command and the handling of its answer are one step, and failing ones are steps of their
own or a disjunct of theirs. The host id of a restarted main is stable, as it is in Docker
(`instance-settings.ts:81`); elsewhere a restarted process is a main with a new id, which the
theorems cover by the set `Mains` being any. A signal before a main is up is a crash. Workers save
and return in one step; a second chain of recoveries
does what the first does. Bull is external: it delivers a job to one worker, reports a stalled job
as failed to the main that added it, and may do so while the worker still runs. Stop requests in
queue mode (section 6), recovery batches and a worker's own start-up recovery are left out.

## 3. Runs

| Run | Shows | Bounds |
|---|---|---|
| `scheduler_safety` | two mains race over one occurrence: bounded starts, fenced owners, final and truthful outcomes, the proofs' inductive invariant, refinement of `OccurrenceLifecycle` | 2 hosts (symmetric), 1 occurrence, 2 attempts, 1 disturbance |
| `scheduler_liveness` | every occurrence is settled whatever handlers, timers and writes do | 1 host, 2 attempts, 2 disturbances |
| `materializer` | passes and activations overlap: every fire the clock passed has its one row or was discarded by a policy; nothing older is pending beside a catch-up run, also after retries, but what was claimed when it was recorded; clocks do not go back; `coalesce` records something newer than it drops or, where the cap cut the backlog, goes on with it | 2 transaction slots, a recurring rule (1, 2, 3, far) and a one-off (2), clock to 4, cap 2, 2 provisions, 1 rollback, 1 unplannable job, 1 claim that returns |
| `deferred_job` | a deferred job fires off its schedule | 1 slot, 1 rule, 1 provision, clock to 5 |
| `evaluations` | slots balanced, none idle beside a waiting case, every case answered | 1 test run and 1 agent run of 2 cases, limit 2 |
| `test_run_slots` | a lost slot in the test runner | 3 runs of 1 case, limit 1 |
| `engine_safety` | twelve graphs through the engine: steps once and on completed inputs, clean completion, chains run through unless a message came twice, nothing dropped between hands, every execution ends without a fault, refinement of `EngineLifecycle` | 1 execution, up to 4 nodes, 1 fault, 1 redelivery |
| `shared_runner_id` | one request over two runners that take each other's id: one place per request, no orphan, no idle match, lost tasks failed, refinement of `TaskRequestLifecycle` | 1 request, 2 processes with 1 id (symmetric), 1 slot, 1 offer each, acceptance limit 2, 1 fault |
| `child_runner` | two requests in the two slots of a child process the main kills: the tasks of the dead process are answered without a close event | 2 requests, 1 process, 2 slots, 2 offers, acceptance limit 2, no fault |
| `regular_executions` | slots given back once, and lost only with an entry dropped while it waits or replaced by a recovery of the start; one attempt works at a time and ended rows are not taken up again, but for executions such a recovery took up beside an attempt of this process; stops the run received hold; nobody is left in the queue, but behind a lost slot | 2 executions (1 watched), limit 1, 2 events |
| `stopped_stays_stopped` | a confirmed stop is overwritten by a success | 1 execution |
| `multi_main` | leaders hold the key, unless it lapsed or they are shutting down, and there is one again after the faults; one run of an execution at a time; a success is overwritten only by the late save of a main that had judged a failed job; every execution ends or is resumed, outside two named exceptions | 2 mains, 1 execution, 1 wait, 2 faults (a signal is one) |

Why the bounds suffice: rows of different occurrences never meet in a statement's guard, so one
occurrence carries every race; two hosts give an owner and a stale one; two attempts give a first
and a last. Two cases per run and a limit of two give a grant in the same turn as an eviction and a
waiting case behind it. The engine's graphs contain a chain, both kinds of fork, an isolated
trigger, an edge back to the trigger, a step without executor, an edge to nowhere and all refused
shapes. For the broker, one request over two connections of one id shows every race of a
registration with a removal and of an acceptance with a time-out; two requests in two slots show
acceptances in progress together; an acceptance limit of two gives a first miss and the report
(the code's constant is three). A rule of three near fires and a far one under a cap of two shows a
backlog cut before, at and after its newest missed fire, and a fire that is not yet in the window;
two slots give two passes, a pass beside an activation, and two activations of one node. Two
executions and one slot make one of them wait in the queue while the other one waits, is resumed,
stopped or recovered; each event (stop, deletion, request, shutdown, crash) may meet every place.
Two mains and two faults let a leader lose its key and the next one too, or lose it and be told to
stop. Two events are a crash or a shutdown and one creation, stop, deletion or resume during or
after the start that follows. The theorems then remove
the bounds for the safety properties they cover.

`CHECK_DEADLOCK FALSE` appears everywhere because all of these systems may come to rest: all
occurrences settled, all cases done, all executions ended or dropped by a fault.

Type correctness is a conjunct of every inductive invariant proved. Only the task broker's
`TypeOK`, which bounds the count of missed acceptances, is also a property of a run.

Each property has a seeded fault, an operator defined next to the one it replaces (dropped guard,
wrong order, off by one) under which TLC finds the property violated.

### Fairness

* Scheduler: the clock moves, the claim and sweep loops tick on a host that is up, a stopped
  process is replaced. Nothing is assumed of timers, handlers or outcome writes: leases and
  sweeps must make up for them. Retirement of overdue rows is a part of the sweep's pass.
* Evaluations: microtasks run and a case that holds a slot ends (cases have timeouts and abort).
* Task broker: only what the main does by itself: heartbeats find a connection without an answer,
  the analysis of a disconnection ends, a shutdown does not wait for ever. Nothing is assumed of
  runners, of close events, or of the timers of requests and tasks.
* Materializer: none; its properties are about safety. That passes keep up is not one of them: under
  `coalesce` a job whose passes always reach the cap never catches up, as `durable-scheduler.ts:143-161`
  warns. `BacklogGoesOn` says what is left: either a newer run stands in for what was discarded, or
  the job's clock has not moved past the present and the next pass goes on with it.
* Regular mode: continuations of the event loop run, a restart follows a shutdown or crash, and a
  start's recoveries go on. Nothing makes users stop, request or delete anything. `NeverLeftNew`
  says that the queue is without a new row again and again: as an execution is created once, none
  is new for good.
* Multi main: the election interval, the poll of the leader's tracker and the recovery chain tick,
  mains are restarted and shutdowns end, timers fire, Bull delivers jobs and reports stalled ones,
  and what a key is worth is decided by
  its TTL. Faults are bounded in number, never required.
* Engine: the event loop runs continuations, the database answers, executors return. `Ends` excludes
  behaviours with faults, because the reconciler that the code's TODOs name does not exist.

### Where code and comments disagree

Each is in `PROJECT.json` under findings with the quoted line.

* The test runner loses a unit of evaluation capacity when a sibling's eviction grants a slot in the
  turn of its own abort; with a limit of 1, evaluations then queue until a restart
  (`test_run_slots`).
* A stop confirmed between the registration of an execution and its start is lost: the row goes
  from canceled to running to success (`stopped_stays_stopped`).
* A job whose rule could not be planned fires at the instant of its retry, off its schedule, and
  the fires in between leave no trace (`deferred_job`).

Others have no run of their own:

* A handler that reported its dispatch and then throws is retried (`executor.ts:298`), which
  `task-handler.ts:24` and `:71` exclude.
* Removing a queued entry admits the next although no slot was freed (`concurrency-queue.ts:52`), so
  that more executions run than the limit `executions.config.ts:21` and `:28` promise; the promise of
  the removed entry never settles.
* A v2 execution with two branches may be recorded completed with one branch's successor unplanned
  (`step-completed-handler.ts:65`; the TODO at `:54` knows of it).
* A v2 chain ends early when a `step:completed` is delivered again while the successor it led to is
  completed but not reported: the handler plans nothing, finds nothing active and records the
  execution completed (`step-completed-handler.ts:43-50`, `:65`), and the successor's own report then
  finds an execution that is over. The test at `step-completed-handler.test.ts:224` says a duplicate
  delivery "finishes nothing"; it assumes that the successors are still active. `ChainsRunThrough`
  is about executions without a redelivery; the in-memory queue makes none, the queue contract
  allows them.
* A live handler slower than its lease, which is refreshed once, is overlapped by a second one
  (`executor.ts:66` excludes it).
* A v2 step without an executor is claimed and stays running, and its execution never ends
  (`step-ready-handler.ts:39`; `serve.ts:53` says it fails).
* A request that expires tears down a runner without pending offer, task or acceptance
  (`task-broker.service.ts:799`), also one whose first offer is on its way, or whose slots are
  taken by cancelled tasks that have not ended yet; the comment at `:793` holds it for stalled.
* Stopping an execution cancels only tasks that a runner took over (`task-requester.ts:221`); its
  request that still waits stays up for matching, and the code may run after the stop.
* With three connections of one id and a slow analysis, two registrations may wait for the same
  removal; the second replaces the first's connection without closing it
  (`task-broker-ws-server.ts:156`), and that runner is not heard until it exits.

* Regular mode: an execution put to wait and then stopped, timed out or caught by a shutdown before
  its finalization runs loses its entry with an open promise, and its slot with it
  (`active-executions.ts:233`); a resume registered before that finalization takes the entry over
  (`:106`), with the same effect. `SlotsComeBack` states exactly these exceptions.
* A waiting execution is marked crashed at a restart in the default recovery mode
  (`execution-recovery.service.ts:162`), which `execution.repository.ts:361` and
  `packages/workflow/src/execution-status.ts:22` exclude. A log without messages of a node leaves
  the row running.
* Regular mode: an execution started between `server.start` (`start.ts:403`) and the end of the
  recoveries (`:415`) may be recovered as well, so that two attempts work on it, one loses its slot
  and a row that ended is written back (section 2; `torn`).
* The recovery of an enqueued execution that is rejected after its workflow was launched marks the
  row crashed while the workflow runs (`enqueued-execution-recovery.service.ts:77`).
* After a step-down the wait tracker keeps the entries of timers it cleared (`wait-tracker.ts:253`):
  when the same main leads again, it takes those executions for armed and never resumes them. A main
  restarted under the same host id while its old key still lives may find itself the leader between
  `WaitTracker.init` (`start.ts:268`) and the registration of its handlers (`:295`): nobody is told,
  and nothing is tracked. `EveryExecutionEnds` excepts these two (`Stuck`).
* A leader that shuts down deletes the key whoever holds it (a TODO at `multi-main-setup.ee.ts:73`)
  and goes on to lead until its executions are over (`start.ts:109-119`: nothing marks it as a
  follower), and one that cannot reach Redis keeps leading (`:125`): two mains may lead until the
  one has exited or the other checks. `LeadersHoldTheKey` excepts both.
* An older occurrence that was claimed when a catch-up run was recorded comes back to pending beside
  it (`scheduled-task.repository.ts:447`, `:475`, `:570`) although the catch-up stands for it
  (`misfire.ts:17`): both run.
* Queue recovery may mark an execution crashed whose job is not added yet
  (`scaling.service.ts:620`), and the main may write its error over a success that a stalled job's
  worker saved after the main's check (`workflow-runner.ts:128`); `SuccessIsFinal` excepts the
  second, so no check here says that a success is final without it.
* An activation whose insert was ignored seeds from the row it read before
  (`durable-job-provisioner.ts:257`) and may move the other's clock back, although
  `scheduled-job.repository.ts:161` says its clock stays; under READ COMMITTED, two versions of
  a node activated at once may both stay stored (`provision.ts:6`). The properties except jobs so
  `overtaken`. Re-provisioning an overdue, unrecorded one-off kills its clock.

Smaller ones: `scheduled_task.attempts` counts failed and expired attempts although its
comment says starts (`scheduled-task.ts:119`); `leaseExpiresAt` is said to be null once finished
(`scheduled-task.ts:148`) but the terminal writes keep it; a timer of a lapsed claim drops the map
entry of a newer claim of the same task (`executor.ts:191`), which needs an instance clock behind
the database's or a lease shorter than the lookahead.

## 4. Proofs

All theorems are proved by TLAPS from the constants' named assumptions only, for any number of
mains, executions, nodes, jobs, cases, requests, runners, ids, slots, faults and redeliveries. The
assumptions say what the code's configuration guarantees: limits are positive naturals, `None` is
not a member of a set it is distinguished from, edges are between nodes, sets of runs are finite
and disjoint. The materializer has more, which its defaults justify:

* a one-off schedule has one fire, and a cyclic one has a fire at the end of the time looked at: a
  rule that repeats does not run out;
* a job that cannot be planned is put off by more than the lookahead (an hour, `options.ts:51`,
  against the poll interval of the host plus five seconds, `factory.ts:208`).

None of the properties is inductive by itself. What each invariant adds is knowledge that the code
relies on and nowhere states:

* `DurableSchedulerProofs`: a fire acts on what it read at its claim, so the invariant relates each
  fire's memory to its row *while it owns the row* (`OwnerSeesTheRow`), makes epoch and task identify
  a fire (`ClaimsUnique`), does the same for sweeps (`SweepsConsistent`) and balances starts against
  counted attempts (`RowsConsistent`). From it follow bounded redelivery, honest outcomes, finality,
  fencing, lease protection, and `Implementation`, the refinement of `OccurrenceLifecycle`.
* `ConcurrencyQueueProofs`: lemmas about the queue that the two modules below share: what `Remove`,
  an append and the head of the line do to membership, distinctness and length, and how the number
  of members of a set changes with one of its elements.
* `EvaluationFanOutProofs`: the queue holds exactly the waiting cases (`QueueConsistent`), and the
  counter plus the outstanding cases, counting those whose eviction swallowed a slot, equals the
  limit; nobody waits beside an idle slot.
* `RegularExecutionsProofs`: the queue holds exactly the attempts that wait in it
  (`QueueConsistent`); a slot is on an attempt, on an entry or lost, never twice (`SlotsTraced`,
  `SlotsAccounted`); an entry belongs to an attempt in a given place (`EntriesConsistent`); the
  attempt that runs excludes the others (`WorkersAlone`), a first run precedes every resume
  (`FreshFirst`), what crash recovery is about to write is no news to an execution it took up alone
  (`AmendsApart`), and a stop the run received leaves nothing behind that could write again
  (`CaughtForGood`, `CaughtStopsHold`). From it follow where slots go and when they come back, that
  one attempt works at a time, that received stops hold and that ended rows stay ended; all this in
  every order of a start, where the statements name what a recovery tore (`torn`) and nothing else.
* `MultiMainProofs`: `ElectionInv` ties what a main believes to the key, its TTL and the faults that
  part them; `QueueInv` says which states of a row, a job, a worker and a recovery's reading go
  together. From it follow that leaders hold the key outside a lapse and a shutdown, that one run of
  an execution goes on at a time and that only a late `SaveError` overwrites a success.
* `MaterializerProofs`: the rows of a job, its clock and what open transactions read must fit at
  every commit. Rows lie before the clock or are what a pass discarded (`RowsConsistent`); a claimed
  job is locked (`LocksHeld`), a cyclic job's clock is one of its instants (`CyclesGoOn`), a one-off
  has fired or waits (`OneOffsWait`), a seed is what it was when it was read unless the job was
  overtaken (`SeedsAccounted`), a catch-up is the newest of its backlog (`CatchUpsBehind`), and what
  was claimed when it was recorded is known (`spared`). A pass is
  reasoned about one job at a time: it keeps, drops, advances, puts off or starts it (`TableStep`);
  minima and maxima of sets of instants exist by well-foundedness. From it follow that every fire is
  recorded or discarded by a policy, that nothing but a claim that returns is pending beside a
  catch-up, that clocks move on, and that a backlog cut by the cap goes on.
* `WorkflowEngineProofs`, first invariant `IInv`: what a handler read still holds where it acts
  (`PlannerConsistent`, `RunnerConsistent`), queues carry only what was published
  (`MessagesConsistent`), the two tables agree (`RowsAgree`). From it follow that steps run at most
  once, inputs are available, completion is clean, and the refinement of `EngineLifecycle`.
* `WorkflowEngineProofs`, second invariant `PInv`, for progress without liveness: while nothing
  failed, every row that is not at rest is carried by a message or a handler (`Carried`), and while
  nothing was delivered twice, each step reports once (`OutcomesOnce`). In a graph that does not
  fan out, an execution has one tip from which everything goes on (`OneTip`), and the chain behind
  it is complete (`ChainsLedOn`). From it follow `NeverStranded` and `ChainsRunThrough`: the verdict
  *completed* is given at the tip, where no successor is left.
* `TaskBrokerProofs`: an offer is in one place at a time, and what the frames on their way stand
  for is part of the state. An offer is matched once and for good (`OffersOnce`); a request waits in
  one place and runs as one task (`RequestsKept`); who waits unserved finds an empty pool
  (`Served`); the broker's and the server's maps agree (`RoutesAgree`); a connection still to be
  registered has done nothing (`NewcomersAreFresh`), which lets an id change hands; frames belong
  to matched offers of their connection's id (`FramesMatched`); a runner hears of an acceptance
  once and answers it once (`AcceptedOnce`); a slot of a runner that can be talked to is awaited,
  tracked, or given up by a message on its way, behind the acceptance it undoes (`SlotsWatched`);
  settings are sent once, for a request that was taken over (`SettingsOnce`). From it follow
  `TypeOK`, `NoForgottenRequest`, `NoOrphans`, `NoIdleMatch`, `NoLostTask` and the refinement of
  `TaskRequestLifecycle`. A round of matching is reasoned about by what it may do to offers,
  requests and messages (`Rematched`, shown of `Settle` by `Settling` and composed by `Rematching`),
  so `RejectAll` has the same effect as one round (`RejectingAll`). Induction over such loops takes
  the set of good places instead of a predicate (`InductiveSet`). Turns of the broker and of a
  runner keep the invariant by `BrokerTurn` and `RunnerTurn`; each action shows only their premises.

Only model-checked, because the proof system covers neither fairness nor `ENABLED`:

* liveness (`EventuallySettled`, `Answered`, `Ends`, `LostTasksFail`, `NeverLeftNew`,
  `EventuallyOneLeader`, `EveryExecutionEnds`).

Every invariant, every action property and every refinement that a passing run checks is a theorem.

## 5. What could come next

* Safety parts of the liveness properties, in the way `NeverStranded` is one for the engine: in each
  component, a state in which something still waits always holds the message, timer, lease or
  handler that moves it on. For the scheduler, a row that is not settled is due, armed, leased or
  seen by a sweep; for regular executions, a row left new has an attempt; in queue mode, a row that
  is not ended has a job, an armed timer or a recovery outside the two exceptions of section 3.
* Abstract specifications of a regular execution and of a queued one (a row's statuses over its
  attempts), refined by `RegularExecutions` and `MultiMain`.

## 6. Not modelled

* Calendar arithmetic of rules (cron, time zones, every n-th period): pure functions of libraries.
* The poll trigger's handler: another handler of the executor; what it does besides (static data of
  the workflow, which two overlapping fires may overwrite) belongs to its node.
* Retention's batches and the re-arming state of one `Loop`: represented by their effects.
* Unlimited concurrency modes, telemetry, and `removeAll`, whose one caller runs after `disable()`.
* Metrics, judging and data sets of evaluations: opaque to the coordination.
* Responses, streaming, sub-workflows and bulk stops of executions; progress messages and recovery
  batches in queue mode: they change no state the properties speak of, or only repeat modelled
  steps.
* Stop requests in queue mode. They do change state: the waiting job is discarded or the worker told
  to cancel, and the row becomes `canceled` whatever it says by then, also over a success. The
  properties of `multi_main` are of executions nobody stops; in regular mode stops are modelled.
* The deactivation of workflows whose executions keep crashing (`execution-recovery.service.ts:104`),
  off by default, which marks all their new and running rows crashed.
* The isolate pool of the expression runtime: a cache inside one process, by which no execution's
  outcome is decided; its races are listed as a hazard.
* The v1 execution engine's interpreter: sequential within an execution, 2,900 lines of data
  handling. Only its outcomes (ends, fails, is cancelled, puts itself to wait) appear.
* The v1-to-v2 conversion, dual canvas, custom nodes: pure conversions of documents.
* CRDT documents: the merge is Yjs's. Front end, integrations, local gateway: I/O.
