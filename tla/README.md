# TLA+ models of the ClawCommerce agent platform

This directory holds a verification development of the repository (`src/` in
the paths below is the repository's root). It consists of TLA+ modules that model
parts of the system, TLC configurations that check them on small instances, and
proofs that TLAPS checks for every value of the constants.

It covers seven subsystems:

| subsystem | code | modules |
|---|---|---|
| node leases: which campaign job works on which OpenClaw node | `src/src/agent/node-manager.ts`, `node-pool.ts`, `phone-pool.ts`, `health-monitor.ts`, dashboard server | `NodeManager`, `NodeLease`, `MCNodeManager`, `NodeManagerProofs`, `NodeLeaseProofs` |
| node health in time | `src/src/agent/health-monitor.ts`, `src/src/run.ts` | `HealthMonitor`, `MCHealthMonitor`, `HealthMonitorProofs` |
| durable delivery to edges | `src/dragon-senate-saas-v2/edge_outbox.py`, `app.py`, `src/apps/desktop-client/runtime/edge_agent.py` | `EdgeOutbox`, `Courier`, `MCEdgeOutbox`, `EdgeOutboxProofs` |
| workflow runs | `src/dragon-senate-saas-v2/workflow_engine.py`, `tenant_concurrency.py`, `task_idempotency_lock.py`, `workflow_idempotency.py` | `WorkflowEngine`, `MCWorkflowEngine`, `WorkflowProofs` |
| scheduled tasks | `src/dragon-senate-saas-v2/cron_scheduler.py`, `app.py` | `CronScheduler`, `MCCronScheduler`, `CronSchedulerProofs` |
| the dispatcher's inbox | `src/dragon-senate-saas-v2/clawteam_inbox.py`, `dragon_senate.py`, `app.py` | `TeamInbox`, `MCTeamInbox`, `TeamInboxProofs` |
| the autopilot pipeline | `src/backend/src/autopilot` | `Pipeline`, `MCPipeline`, `PipelineProofs` |

`PROJECT.json` has the same in machine-readable form: the components, the runs,
the mutants (a plausible bug for every property, which the property catches), the
source lines behind each definition, the findings, the hazards and the theorems.

How to run it: `tlc -config <cfg> <MC module>` for a run, `tlapm <module>` for
the proofs.

## 1. Inventory

The platform automates social-media campaigns for tenants. A NestJS backend
takes campaigns and feeds an autopilot pipeline. A TypeScript agent leases browser
nodes ("lobsters") to campaigns. A Python "cloud brain" plans content, runs workflows
and queues what the edges have to do. Edge clients on the customers' machines
poll or are pushed to.

### The agent (`src/src/agent`, `src/src/server`)

* **Node management engine** (`node-manager.ts`, `node-pool.ts`).
  State: a Redis hash of node records, `NodePool.cache`, the Redis lock key with a
  TTL of 15 s. Operations: `allocate`, `release`, `setWorkflowState`, `setHealth`,
  `markUnhealthy`, `releaseIdleNodes` (timer), `runCampaignTask`, terminate, resync.
  Interacts with the phone pool (in memory), the health monitor and the dashboard
  server, which all rewrite the same records.
  Hard: `NodePool.update` is read - await - write of a whole record; only some
  callers hold the lock; `withLock` throws instead of waiting; the key can expire
  under its holder; a crash leaves records assigned.
  Right when: a node works for one job at a time; a job that is over gives its node
  back, or the sweep does; cache and Redis never drift apart; phone slots do not
  leak.
* **Phone pool** (`phone-pool.ts`, `sms-activate-adapter.ts`). State: slots in
  memory. Operations: acquire, allocate, release, expireOld.
* **Health monitor** (`health-monitor.ts`). State: in the node record
  (`health`, `lastHeartbeatAt`, `playwrightState`). A pass probes one node after the
  other, every interval; a node whose heartbeat is older than 3 minutes is given up
  without a probe. Hard: interval, probe timeout, number of nodes and threshold have
  to fit together; restarts after a long absence; passes that overlap.
  Right when: failures are marked and recoveries unmarked in time, and a node that
  answers is given up for its silence only where the monitor itself was away.
* **Queue consumers, execution runtime** (`runtime/`): turn queue entries into
  `runCampaignTask`. Hard: acknowledging before or after the work.
* **Commander, shadow, lead** (`commander/`, `shadow/`, `lead/`): sequential
  computations for one request.
* **Dashboard server** (`server/agent-dashboard-server.ts`): HTTP in front of the engine.

### The backend (`src/backend/src`)

* **Autopilot pipeline** (`autopilot/`): queues radar, content-forge,
  matrix-dispatch, lead-harvest; a daily budget counted in Redis; a failure counter
  that opens a circuit. Hard: the budget is incremented before the limit is checked
  and decremented on failure, over midnight; success is recorded before the next
  queue has the job; BullMQ retries the whole job.
  Right when: the limit is overrun by nothing but adds that failed for the worker alone,
  and used up by nothing but contents, refusals and what crashes leak; no probe is lost between two queues; the queues run empty.
* **Dead letters, task state, recovery scanner**: latent, nothing enqueues.
* **Fleet gateway and fleet service** (`gateway/fleet-websocket.gateway.ts`,
  `fleet/fleet.service.ts`): sessions of nodes over WebSocket, node status in Redis.
  Hard: reconnects while the old socket is still being dropped.
  Right when: a connected node that pings is not recorded as offline, and each node
  has one socket.
* **Activation codes** (read-modify-write in Redis), **terminal gateway**,
  **campaigns, leads, webhooks** (tenant-keyed CRUD), **client updates**,
  **alerts, metrics, traces**.

### The cloud brain (`src/dragon-senate-saas-v2`)

* **Edge outbox** (`edge_outbox.py`). State: a SQLite table of rows with status,
  retry count and deadlines. Operations: enqueue, `pull_batch`, `ack`, `flush_once`.
  Hard: lost pulls, lost and late acknowledgements, a POST that is answered late,
  a crash in a flush, two ways an attempt may end.
  Right when: nothing is called delivered that did not arrive, and delivered stays so;
  the retry budget is exact; everything settles.
* **Workflow engine** (`workflow_engine.py`) with **concurrency slots**
  (`tenant_concurrency.py`), **execution lock** (`task_idempotency_lock.py`) and
  **idempotency records** (`workflow_idempotency.py`). State: runs, steps, records and
  slot counters in SQLite; tasks and locks in memory. Operations: start, pause,
  resume, replay, the task that executes a run, aclose.
  Hard: a run resumed while its task is still at it; crashes, and errors between a slot
  and the `try` that gives it back, leave slots counted; runs stay "running"; retries, slot time-outs and pauses in every order.
  Right when: slots are accounted for; a step runs once at a time, in order, and a
  completed one never again; "done" means complete; every run settles.
* **Scheduled tasks** (`cron_scheduler.py`). State: rows of tasks and the log of their
  runs in SQLite; the polling loop's listed copies. Operations: create (replace),
  disable, tick, execute with retries. Hard: the loop awaits an executor while it holds
  copies of rows that requests change; a process that dies between a run and its record.
  Right when: no request is undone, a once task is run once and settles, a due task is
  served, however long the others take.
* **Dispatcher's inbox** (`clawteam_inbox.py`). State: rows of tasks per trace with
  status, owner and attempts. Operations: enqueue, claim, report, requeue what is stale.
  Hard: workers die, are slow, report after their task was given to another, or report
  again, and something else, because the reply to the first report was lost.
  Right when: a task starts after all it depends on; it has one worker at a time and
  a bounded number of executions.
* **Task queue** (`task_queue.py`): statuses in SQLite, priorities, a worker loop that
  nothing in `src/` starts. Hard: complete/fail without a check of who has the task.
* **Task DAG and circuit breaker** (`lobster_task_dag.py`,
  `lobster_circuit_breaker.py`). Hard: unblocking in any order of completions; half-open.
* **Mailbox** (`lobster_mailbox.py`): messages with a read mark, heartbeats.
* **State machines** of tasks, leads and campaigns: transition tables.
* **Application, agents, billing** (`app.py`, `dragon_senate.py`, ...): HTTP, prompts.

### The edges

* **Desktop edge agent** (`src/apps/desktop-client/runtime/edge_agent.py`): polls the outbox,
  executes, never acknowledges.
* **Edge runtime** (`src/edge-runtime`): WebSocket receiver, scheduler, telemetry
  buffer, metadata cache, execution snapshots. Hard: a second task overwrites the
  current task id; sends that swallow errors.

The rest (`web/`, `services/`, `packages/`, `superharbor/`, `docs/`, `dist/`, `data/`,
`openclaw_ref_20260323/`) is user interface, generated, third-party or text.

## 2. Modules and how they correspond to the code

### NodeManager

One Node.js process talks to one Redis connection. A step runs from one `await`
to the next. `NodePool.update` is therefore two steps: `Write` reads the record and
sends SETEX, `Flush` fills the cache when the reply is in. One connection answers in
order, so upserts in flight are a queue, `pipe`.

| state | code |
|---|---|
| `lock`, `late` | the lock key (its holder's token); who is in `withLock` with an expired key |
| `redis`, `cache`, `pipe` | `clawcommerce:node:*`, `NodePool.cache`, upserts awaiting their reply |
| `phone`, `old` | `PhonePool.slots`; nodes with `allocatedAt` beyond the idle limit |
| `pc`, `at`, `todo` | where each actor is, its node, the rest of its snapshot |

The actors are the campaign jobs (`allocate`, the workflow states, the `finally` release), the
sweep, the terminate handler, the health pass and the dashboard. `Env` says which of
them surround the jobs, so that a run states what it assumes. Any idle node
stands for `idle[0]`; the spawn hook and the registration that follows are one
action; the SET NX and the synchronous code after it are one step.

`NodeLease` is what the engine promises: a node is granted to one job, and only
that job gives it back while it works on it; a restart of the process ends all jobs and
leaves their nodes to be reclaimed. `NodeManager!ImplementsLease` is the
refinement, with `owner` the record's campaign and `active` the node a job works on.

### HealthMonitor

The unit of time is the timeout of one probe (5 s in `run.ts`). The dashboard
server's settings, 60 s and 3 minutes, are Interval 12 and Threshold 36. A pass
(`TimerFires`, `Start`) puts the known nodes into `left`. Each is given up for its
old heartbeat (`GiveUp`) or probed (`ProbeStarts`, `ProbeEnds`). `Stop` is `stop()`: it
clears the timer, and a pass that runs goes on to its end. `Exit` is the end of the process,
which takes the pass with it. Both entry points call `start()` once in a process and exit
after `stop()`, so `Start` follows an `Exit`. `Tick` lets time pass
when the process has nothing to do. `cond` is what a probe would find, and changes at any
time. `since` and `up` are history variables: how long a node has been as it is, and how
long the process has run; `since` goes on while the process is away. The silence rule is
stated as it is: while the monitor runs no heartbeat ever looks old to it, and in the first pass
after a start (`FirstPass`) every one from before a long absence does, so that nodes that
answer are given up as well (`SilenceIsAbsence`) until the next pass (`ClearedInTime`). A node
without a CDP endpoint behaves as one that never answers. NodeManager has the same
pass as a writer of records, without time.

### EdgeOutbox

One process, one event loop. Every database operation runs under one lock with
no await in it, and is one step. `Pull` is `pull_batch` with its recovery of
overdue rows, and the response (which may be lost). `FlushStarts` is
`flush_once` up to its first await (recover, claim, group by edge), then `Post` per
edge and `PostAccepted` or `PostFails`. `WebhookTakes` may take copies long after
the sender has given up waiting. `Crash` loses the flush, `EdgeDrops` what an edge
has pulled. Deadlines (`BackoffEnds`, `AckTimesOut`) pass whenever they like.
`made` is `created_at`; `sent` is a history variable. The mode and edge of a row are
chosen in Init. The only senders are those of `app.py`.

`Courier` is what the outbox promises whoever enqueues: owed, then acknowledged
(which takes that a copy has arrived) or written off; acknowledged is final.
`EdgeOutbox!Implements` is the refinement. `AgentAcks` and `WebhookAcks` say who acknowledges:
today's polling agent does not, and webhooks that acknowledge besides answering
break the promise, see "Observed".

### WorkflowEngine

Publishing an event does not suspend a task, so a task suspends only in its sleeps
(polls for slots, backoff), the lobster call, the audit log and the notification of an
operator. Its work between two of these is one step. It is written as
functions on `View`, the part of the state a task sees: `Polled`, `Advanced`,
`Attempted`, `Called`, `Failed`, `Ended`, `Returned` are the corresponding pieces of
`_execute_run`, `_execute_single_step`, `_run_lobster_step` and `_escalate`. Between the step
slot (`workflow_engine.py:2064`) and the `try` that gives it back (2116) the lobster, its span
and its run are built; `fit` says whether that succeeds, and when it does not the attempt fails
with its slot left counted (`Leaking`, `leaked.steps`). `RunErrs` is an error that
passes the attempts by and ends in `_execute_run`'s generic `except` (1288-1310).

| state | code |
|---|---|
| `run`, `origin`, `step` | `workflow_runs`, `workflow_steps` |
| `record` | status of the run's idempotency record (`update_by_run`) |
| `slots`, `busy` | the tenant's counters of resources `workflows` and `steps` |
| `task`, `locks` | asyncio tasks of a run; keys of the in-memory execution lock |
| `leaked`, `overlap`, `outlived` | history: slots that crashes and `Leaking` left counted; runs resumed over a live task; whether a call has outlived its lock's 300 s |

`Crash` loses tasks and locks, and leaves the counters. `Shutdown` (`aclose`) cancels
the tasks, which give their slots back. The error workflow that an escalation
starts is a run with the same number of steps. A replay without a from step is
the same as a plain run.

### CronScheduler

The routes are coroutines without an await, and the polling loop awaits only the
executor, its backoffs and the sleep between ticks. Requests and the clock therefore move
only there (`Free`), and a step of the loop runs up to the next of its writes, so that a
death can fall between two of them. `copy` is the list that `_tick` goes by: a row as
it was when listed, kept for the task at hand (`cur`) until `update_run_status`.
`AddTask` is INSERT OR REPLACE, so it makes a new row under the same id. `PassesOver`
includes the upsert of a row without a next run. `Dies` is a crash as well as the
cancellation at shutdown; `Starts` is the lifespan of the next process.
`wins` (up to `Enough`) and `raced` are history: successes since the row was made, and tasks a
request has changed under the loop's hands. The order in which tasks are listed is left open.

### TeamInbox

Every operation of the inbox holds one lock from its first read to its commit, and is one step.
A worker is outside, and may be a graph node of `dragon_senate.py` or a client of
the routes: `doing` is what it has claimed and neither reported nor dropped, `unsure` what it
has reported without a reply. `Claim`
takes any of the ready tasks: lane, priority and limit choose among them. `Enqueue` takes
any part of the plan, since its rows are committed one by one, and a graph that is run
again enqueues the same keys. `Ack` is `mark_many_status`, which looks neither at a
row's status nor at its owner: a worker reports what it is at, however late, and reports again,
the same or the other outcome, what it is unsure of. A report of a task that its worker
never claimed would be written too; no caller in `src/` makes one, and it is left out. `RequeueStale` takes any of the running tasks, since age is not
modelled. `takenBack` is history: the tasks put back while a worker was at them or unsure of
them, and completions that a second report or half an enqueue undid. It is
what the properties except, because nothing in the code fences a late or repeated report.

### Pipeline

BullMQ is outside: it gives a queue's worker one job at a time, repeats a job up to
its attempts and gives a job whose process died to the next. The worker's `process()`
is cut at its awaits: reserve (INCR), work, add, finish, and undo (DECR) in the forge's catch
block. A request to Redis can fail, be carried out and lose its reply, or be the last thing
the process does (`faults` bounds all three together). A job is (probe, queue, copy):
`copy` tells apart the jobs that a repeated add makes, which BullMQ cannot, as the workers give
no jobId. `key` is the budget key of the job at hand, `day` the day it is, and
`handed`, `uncounted`, `leaked`, `refused` are history, what the counter is made of. An add that
Redis carries out and whose reply is lost is a content in the next queue (`handed`) whose
reservation the catch block gives back (`uncounted`). The circuit
(`fails`, `open`) is looked at by `Probes` alone. That is what `heartbeat` and
`triggerProbe` do: workers ignore `recordFailure`'s result.

## 3. The runs

| run | instance | distinct states | what it shows |
|---|---|---|---|
| `node_manager_full` | 1 job, 1 node, 1 slot; everything in `Env` except spawn, sweep and slot expiry | 1.4 million | `withLock` excludes those within their TTL (`LeaseExclusive`), the cache is within the upserts in flight of Redis (`CacheCoherent`), and no idle record carries a campaign or a phone (`IdleRecordIsClean`), with expiring keys, crashes, terminations, unlocked health writes and resyncs |
| `node_lease` | 2 jobs, 3 nodes of which 1 is known at the start, `MAX_NODES` 2, 1 slot; sweep, spawn, slot expiry | 42 thousand | when all who write a record hold the lock, and campaigns end before the idle limit, the engine implements `NodeLease`; phone slots and records agree; a leaked busy node comes back |
| `node_health_race` | 2 jobs, 1 node, health pass | violation | the code breaks `NoDoubleAllocation`, see the findings |
| `health_timely` | 2 nodes, Interval 3, Threshold 5 | 5.5 million | passes never overlap; failures are marked and recoveries unmarked within the threshold of a running monitor; the silence rule gives nodes up in the first pass after a start and in no other, over stops, exits and restarts |
| `outbox` | 2 messages, 2 edges, both modes, max_retries 2, pull limit 1, batch 2, losses and crashes; polling edges acknowledge, webhooks answer | 201 thousand | no phantom deliveries, exact retry budget, `Courier` implemented, everything settles |
| `workflow` | 2 runs of 2 steps, no retry, 2 workflow slots, 1 step slot, 2 tasks per run, 1 restart, error workflow, errors outside the attempts' `except` | 2.5 million | slots are those of the tasks at work, of crashes and of attempts that fail between a slot and its `try`; queued and running runs are attended while the process is up; steps in order; done means complete; completed steps stay |
| `workflow_retry` | 1 run of 2 steps, 1 retry, 2 slots of each kind, 3 tasks, 1 restart, errors as above, locks that expire, fairness | 118 thousand | a step is never executed twice at once unless a call outlives its lock; a run settles; each attempt leaks one step slot at most |
| `workflow_replay` | 2 runs, 1 slot of each kind, no restarts | violation | a replay that is paused, or fails, after its from step and is resumed skips a step it had to execute |
| `cron` | 2 tasks; a cron, an interval and an instant to ask for; 1 retry, 2 seconds, 3 requests to create, 1 death | 649 thousand | no step of the loop changes the schedule or the enabled flag a request has set, but for one upsert; due tasks are served; once tasks settle |
| `cron_once` | the same with 2 requests to create and no death | violation | a once task runs twice |
| `inbox` | 3 tasks, one depending on two; 2 workers; 2 attempts; the plan enqueued twice, whole or in part; replies that are lost | 781 thousand | the chain is enforced, a task has one worker and bounded executions, under late, repeated and changed reports, up to tasks that were taken back |
| `pipeline` | 1 probe with up to 3 copies in each of 3 queues, limit 1, 2 attempts, threshold 2, 2 days, 2 faults | 1.46 million | a day's contents exceed the limit only by adds that were carried out and failed for the worker, and no failure uses it up; no probe is lost between two queues; the queues run empty |

### Why the bounds are enough to be of use

* `node_manager_full` has one job and one node. The other actors (terminate, health
  pass, dashboard, a dead holder) supply the concurrency, four writers on one record.
  More nodes multiply independent records. Its four properties are proved for all
  values. `node_lease` has two jobs that compete for one node, and a node that can be
  spawned, so that `MAX_NODES` is reached. Its three safety properties are proved for all
  values too, and the lease with the dashboard's resynchronisations and crashes, which the
  run leaves out for its liveness property: a dashboard that reloads the cache again and
  again, or a lock key that is never deleted, could keep a leaked node from the sweep for ever.
* `health_timely`: with two nodes a pass takes up to 2 units. Interval 3 is the
  smallest that fits it and Threshold 5 the smallest that fits both; with Threshold 4
  TLC violates `MarkedInTime` and `ClearedInTime`. Heartbeats and conditions are followed up to one unit
  beyond the threshold, so an absence can be longer than it. The proof is for every number of nodes.
* `outbox`: with two rows a flush has two groups or one group of two, one may be
  acknowledged while the other is sent, and a pull limit of 1 leaves one behind.
  max_retries 2 has a first, a middle and a last attempt.
* `workflow`: two runs compete for slots, one can be the other's source or its
  compensation. Two tasks in each are enough for a resume over a live task. `MaxSteps`
  must be below `MaxWorkflows` for a task to wait for a step slot: the plans' defaults
  have three times as many step slots as workflow slots, so only a tenant's
  `overrides_json` brings that about. `workflow_retry` has two slots of each
  kind, so that two tasks may be in a call at once and only the lock keeps them apart.
  `MaxTasks` and `MaxRestarts` bound how often a run is resumed and the process goes down.
  `RunErrors` and `LockExpiry` leave a behaviour out of a run whose properties do not turn on it:
  `workflow` has no call that outlasts its lock, `workflow_replay` no errors outside the
  attempts. Preparations that fail (`fit`) are in all three. The theorems are for any value of both.
* `cron`: two tasks suffice for one to be executed while the copy of the other goes
  stale. Of three requests one can replace a task under the loop. In 2 seconds an
  interval comes up twice and a cron expression of 2 once.
* `inbox`: two workers so that a task can be taken from one and be worked on by the other, with the
  first one's report, or its second, still to come; the theorems are for any number. Two attempts and two enqueues so that a task is
  enqueued with its attempts spent.
* `pipeline`: three copies of one probe compete for the budget and the workers as three
  probes do, and come from two faults. `matrix_dispatch` is left out of the instance, for
  its worker does what radar's does. With limit 1 the second job of a day is
  refused; two days have one midnight, between a reservation and its undoing too. The
  theorems are for any number of probes, queues, days and faults.
* Deadlock checking is off where the system really may rest: a table of settled rows,
  finished runs whose bounded resumptions are used up, a schedule, an inbox or queues in
  which nothing is left to do within the bounds.
* Symmetry is used in `health_timely`, `workflow` and `inbox`, which check no liveness.

### Fairness

* `NodeManager!Fairness`: replies of Redis arrive, a job's awaits return, time
  passes, the sweep timer fires. Weak fairness for each. Strong fairness for
  `SweepStarts(n)`: its timer is not synchronised with a lock that is held for a few
  round trips at a time, so some sweep finds the lock free. New campaigns need not arrive.
* `EdgeOutbox!Fairness`: `flush_loop` is `while True` with a sleep, a POST ends by
  httpx's timeout at the latest, deadlines pass, edges go on polling. Acknowledgements
  arrive only where nothing is lost.
* `WorkflowEngine!FairSpec`: weak fairness of each task: sleeps and time-outs end, and
  lobsters and the audit log answer. Nobody has to resume a paused run.

* `CronScheduler!FairSpec`: weak fairness of the loop. The executor returns or raises
  (it has no timeout of its own in `cron_scheduler.py`, so this is an assumption about it),
  sleeps end, and a dead process is started again. Requests need not come.
* `Pipeline!FairSpec`: weak fairness of the workers together, in that some worker that has
  something to do goes on. Redis answers or fails, and an executor's work ends. Nobody
  has to reset the circuit, and no probe has to come.
* TeamInbox states no liveness: nothing in `src/` calls the requeueing of stale tasks but its
  own route, so a claim that was lost may stay running for ever.

### What the code does differently from what its documents say

Each has a run of its own, and an entry in `PROJECT.json` that quotes the document.

1. *A health result undoes an allocation* (`health-monitor.ts:131`). `setHealth`
   rewrites a whole record without the lock, from a cache that the allocation has not
   reached yet. The node looks idle and is given to a second campaign.
2. *A resumed replay forgets where it started* (`workflow_engine.py:1018`). The from step is done,
   a later one is not, the run is paused or fails and is resumed: the new task never sets
   `replay_started`, and takes the rest from its source.
3. *A once task is executed twice* (`cron_scheduler.py:465`). Whether it has run is read from
   the copy listed before its run, so its first run schedules it once more. With the current row in the
   copy's place TLC finds `OnceOnly` to hold over the same instance.

### Observed while modelling, without a run of its own

* Nodes: `withLock` throws when the lock is taken, so the release in a job's `finally`
  (`node-manager.ts:285`) can be lost; a node in state cooling then stays assigned for
  good. While the dashboard refills the cache, the spawn guard sees fewer nodes than there
  are. Two processes on one Redis have a cache each.
* Health: the defaults, an interval of 5 minutes against a threshold of 3, give up nodes that
  answer (`health-monitor.ts:69`) in every pass, because the pass is the heartbeat's only writer.
  `NoOverlap` covers these settings, the other theorems on time do not.
  After an absence longer than the threshold the first pass gives up every node it knows,
  answering ones too. A node whose
  first probe failed stays degraded (`health-monitor.ts:104` derives `playwrightState`
  from itself).
* Outbox: the polling agent never acknowledges (`edge_agent.py:526-534`), although
  `docs/CODEX_TASK_GOLUTRA_EDGE_OUTBOX.md:227` has the edge acknowledge every item: with `AgentAcks` FALSE
  a package is executed max_retries + 1 times and then recorded as failed. A failed
  POST takes back rows that were acknowledged while it was open (`edge_outbox.py:279`), although
  lines 222-227 of the same document have the edge acknowledge what is pushed and line 236 calls delivered
  final: with `WebhookAcks` TRUE, TLC violates `Implements`, and an acknowledged row is retried
  and may end as failed. Nothing in `src/` is a webhook that acknowledges. An
  SQLite error in `flush_once` ends `flush_loop` for good (line 297).
* Workflows: `start_run` may raise FileNotFoundError after the idempotency key is
  reserved; a replay of a replay starts at step 1, since the source's steps are
  skipped, not done; a pause of a run that still waits for its slot is overwritten when the
  slot comes; resume does not look at the queue limit; slots that a crash, or an error between `workflow_engine.py:2064` and
  2116, left counted are never given back (`leaked`), although
  `docs/CODEX_TASK_TENANT_CONCURRENCY_CONTROL.md:300` asks for a release in `finally`.
* Scheduled tasks: a listed row without a next run is written back whole (line 392) and can
  undo a request that came in between. A row that a request replaces while the executor of the
  old one is awaited gets the old one's next run (line 426), until it has run once.
* Inbox: a late report, or a second and different one after a lost reply, is taken for the
  outcome (`clawteam_inbox.py:459`): a completed task can become failed after its dependants have
  started, and the report of a worker whose task another has claimed ends that one's work on
  paper. A failed dependency blocks its dependants for ever; the audit task stays
  running when no target was expected (`dragon_senate.py:1985`); a claim looks at a
  window of rows before it filters by dependencies, so that many blocked rows of high
  priority can hide a ready one.
* Pipeline: the daily limit (`autopilot.constants.ts:24`, 每日内容生成上限, the cap on contents generated in a
  day) is overrun by one for each add that Redis carries out and whose reply is lost
  (`content-forge.worker.ts:68-75`): the reservation is given back, and the retry hands on a second
  content under it. `BudgetHeld` says that nothing else overruns it. Success is recorded before the add (`content-forge.worker.ts:58`), so a queue
  whose adds keep failing never reaches the threshold, although the circuit's
  comment says any queue that fails three times in a row opens it. Refusals and errors of
  Redis before the try are no failures either, and a DECR that throws in the catch block
  skips `recordFailure`. The circuit stops new probes only and is lost on restart. A
  lost reply or a death after the add makes a second job of the next queue. With failing
  adds more LLM calls are made than the limit says: it bounds contents that are handed on. All
  this rests on one job at a time per worker, BullMQ's default: with more, a job can be
  refused for a reservation that is then given back.

## 4. The proofs

All theorems hold for every value of the constants that satisfies the module's named
assumptions (`ConstantsAssumption` and `NoneIsNoRecord`, `TimingAssumption`,
`OutboxAssumption`, `WorkflowAssumption`,
`CronAssumption`, `InboxAssumption`, `PipelineAssumption` and `NoJobIsNoJob`), and use nothing
else but the hypotheses named below (`Locked`, `Fits`, `Timely`, `OneAnswer`).

* **NodeManagerProofs** - `TypeCorrect`, `MutualExclusion`, `NoIdleRecordCarriesWork`,
  `CacheFollowsRedis`, for every `Env`. `IInv` strengthens the type invariant: every
  record anywhere is clean, what is cached or in flight is in Redis, an actor waits for at
  most one upsert and is at a waiting label meanwhile (`PipeOwned`, without which `Flush`
  could wake up an actor that is elsewhere), and whatever an actor works on has a
  record (`WorkKnown`). `CacheFollowsRedis` adds `CacheCoherent` itself, by the three
  ways in which the store moves: an upsert, a flush, a reload.
* **NodeLeaseProofs** - `JobKeepsItsNode`, `NoTwoJobsOnANode`, `SlotsNeverLeak` and
  `ImplementsTheLease` (the refinement of `NodeLease`), under the hypothesis `Locked`: `Env`
  has no terminations, health passes, expiring lock keys or campaigns longer than
  the idle limit. Each of these takes a node from its job in the code as it is (the finding on
  `health-monitor.ts:131` and the hazards): with any one of them TLC violates each of
  the four properties. Sweeps, spawns, slot expiry, resynchronisations and crashes remain;
  `SlotsNeverLeak` excludes crashes too, which lose the phone pool and leave its slots in the
  records.
  `HeldNodeIsMine` is far from inductive, because `allocate` trusts the cache, and the cache
  lags Redis. `LInv` says why that is safe on top of `IInv` and `CacheCoherent`: an upsert in
  flight is what Redis already holds, at most one of a node, by the actor that has the node
  (`InFlight`); while a job writes a workflow state without the lock, no cached record offers
  its node (`NotOffered`); nodes that the sweep has taken or may take are assigned in Redis
  and nobody works on them (`CededFree`); a node has one job (`OneJobPerNode`), and its record
  names it (`RecordsOK`). Every step of `Next` under `Locked` is one of eight kinds
  or a crash (`LockedSteps`), and each proof goes through them case by case.
* **HealthMonitorProofs** - under `Fits` (fewer nodes than probes in an interval), whatever the
  threshold: `NoOverlap`. Under `Timely` (an interval and a pass within the threshold as well):
  `FailureDetectedInTime`, `MarkRemovedInTime`,
  `SilenceIsTheMonitors`. The argument is a schedule: in a pass, timer + checks ahead <= N
  (`OnSchedule`), so a heartbeat or a verdict is never older than an interval plus the
  timer (`BeatFresh`, `VerdictFresh`), but for what the first pass after a start finds in Redis.
  `HealthTypes` needs no such bound. The dashboard server's settings are `Timely` for up to 11 nodes.
* **EdgeOutboxProofs** - `OutboxTypes`, `DeliveredIsExecuted`, `BudgetKept`; and, if
  webhooks do not both answer and acknowledge (`OneAnswer`; without it the refinement fails, see
  "Observed"), `KeepsThePromise` (the refinement of `Courier`). `IInv` has what the code
  relies on without checking it: the retry counter lags the hand-overs by at most one
  (`Ledger`); a row in flight is being sent, or was acknowledged meanwhile
  (`InFlight`); a POST that was heard has brought its whole group (`Heard`); an
  acknowledgement stands for an execution (`Acked`).
* **WorkflowProofs** - `WorkflowTypes`, `SlotsPaired`, `RunsAttended`,
  `OneCallPerStep`, and on the order of steps `OneTaskPerRun`, `StepsInOrder`,
  `DoneRunsAreComplete`, `CompletedStepsStay`. One half says what each function on views does to counters, locks and
  status (`Outcome`). The other says that every step which fits such an outcome
  keeps `IInv`: types, sane tasks, no task in an absent run, `SlotsAccounted`,
  `Attended`, a call without an expired lock holds its key (`CallsLocked`), `CallsExclusive`.
  The properties about order follow from `OInv`, which for every run outside `overlap` adds what
  they leave unsaid: one live task at most, and that task is at the first open step, all
  before it being complete (`RunOK`). Without it a second task could mark a step that the first
  has not reached. `Tidy` is what each function on views keeps of that, `Fares` what
  each step of `Next` does: a run rests, starts, or its only task goes on.
* **CronSchedulerProofs** - `CronTypes`, `CopiesAreCurrent`, `OnceIsBounded`,
  `SchedulesAreLeftAlone`. `OnceBounded` is defined there and no run checks it: it says how far
  what `cron_once` violates can go, two successes and one more for each death. It is not inductive: that a once task has succeeded no
  oftener than twice depends on what its row says, and on which write of the loop is still
  to come. `IInv` adds what is true of the task at hand (`AtHand`: it was due, it has left the
  list, it has attempts left), that a copy the loop still needs is the row unless a request
  came in between (`CopyIsCurrent`), and how many successes a row can have behind it by what it
  says (`OnceCredited`). `SchedulesStay` follows step by step from the first two.
* **TeamInboxProofs** - `InboxTypes`, `DependenciesEnforced`, `OneWorkerPerTask`,
  for every dependency relation, cyclic ones included. The invariant
  relates a row's status and owner to who is at the task, or unsure of its report, until the task
  was taken back (`OwnersWork`), and the attempts to the enqueues (`AttemptsLeft`). Without the
  part about the unsure a repeated report could hit a row that another worker has by then.
* **PipelineProofs** - `PipelineTypes`, `BudgetIsHeld`, `ProbesAreHandedOn`.
  `IInv` has a part for each concern: jobs, workers and who has been handed on
  (`JobsInv`), the circuit (`CircuitInv`), and the counter's balance with the reservation at
  hand (`BudgetInv`). What is not obvious in it: a day's contents and the reservation
  together are within the limit and what was given back after all (`Accounts`), nobody has been
  refused on the day whose budget the job at hand draws on, and the content it has just
  handed on is still counted (`ForgeAtWork`), so that giving back a
  reservation never makes a refusal wrong.

Only model-checked: liveness (`LeakedBusyNodeReclaimed`, `EverySettles`,
`EveryRunSettles`, `DueIsServed`, `OnceSettles`, `QueuesDrain`), which the prover does
not reach. Every invariant and action property of the passing runs, and both refinements,
are theorems.

## 5. What is not modelled, and why

* In the modelled parts: errors of Redis and SQLite; a second process on the same
  Redis or database (the agent's two entry points have a cache each); the expiry of a node
  record after 24 h; `updateNodeConfig` (as far as the model sees, the same unlocked
  rewrite as a health result that finds nothing new); `NodePool.remove` (no caller); health
  passes of NodeManager that overlap; a throwing `onUnhealthy` hook; steps of type
  loop, ccv_loop and debate_judge; the per-minute rate limit; in `_execute_run`, the loading of the workflow and
  of the tenant's configuration, which precede its `try`; the Redis backend of the
  execution lock; several tenants; the reservation of an idempotency key (one INSERT).
  In the scheduler, an executor that never returns and rows whose next run cannot be
  parsed; in the inbox, the age of a row, the table of workers and reports
  of tasks never claimed; in the pipeline, a
  second process or tenant, and a job that BullMQ takes for stalled while its worker lives
  (it would run twice at once, and BullMQ fails it the second time).
* `node_lease` leaves long campaigns, unlocked writers and terminations out of `Env`,
  because with them the exclusivity really is lost; the hazards in `PROJECT.json` say
  at which lines. `node_manager_full` has unlocked writers and terminations, for the
  properties that survive them.
* Whole parts, listed in `PROJECT.json` as not modelled: I/O, user interface, transition
  tables, CRUD, and the planned ones below.

## 6. Plan

In order of importance. `PROJECT.json` has the hazards each is for.

1. **FleetSocket**: sessions, kicks, pings and the OFFLINE write of a dropped socket,
   composed with commands that stay pending. Runs: 1 node, 3 sockets. To prove: the two maps
   are inverse to each other.
2. **TaskQueue**: statuses, dequeue by priority, completion and failure by workers that
   may be stale, cancellation, restart. A failed task is put to "retrying"
   (`task_queue.py:309`), which the dequeue (line 234) does not select, so its retries never
   happen. Runs: 2 tasks, 2 workers. To prove: a terminal status stays, as far as the code guards it.
3. **TaskDag** with the circuit breaker: blocked_by, completions in any order, abandoned
   owners. A task created after its blockers are done is blocked all the same
   (`lobster_task_dag.py:215`); the breaker lets every request pass after its cooldown, not
   one (`lobster_circuit_breaker.py:87`). Runs: 3 tasks. To prove: a task that may run has its blockers done.
4. **Mailbox** and the edge runtime's receiver and buffer.
5. Extensions: a second cache in NodeManager with its node-config handler; queue consumers in front
   of the jobs; loop steps and key reservation in WorkflowEngine; two tenants and the
   stall limit in Pipeline.
6. More proofs: abstract specifications of the inbox and of a workflow run, and that the
   modules implement them.

New runs replace or join weaker ones, so that the whole development can be checked in one go.
