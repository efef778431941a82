# Perceptron in TLA+

Perceptron is a closed loop of Python services around one Kafka topic,
`cognitive.events`: adapters perceive a target system, consumers of the topic
keep memories and a model of the world, agents turn situations into plans, an
execution service carries the plans out, and a feedback loop judges the
outcome.  Every service is a single asyncio process, so inside one service a
coroutine runs undisturbed from one `await` to the next; between services
nothing is atomic.  This directory models the parts where that matters, checks
them with TLC on small instances and proves with TLAPS, for every instance,
whatever they promise that is not liveness.

## Contents

| module | what it is |
|---|---|
| `PlanSchema` | the plan object and the two questions the runner asks of it |
| `PlanGenerator` | the plans that decisions become, from templates or as a single step |
| `PlanExecution` | one plan under execution: runner, monitor, handoff handler, Planning API |
| `SequentialRun` | abstractly, one run of a plan whose steps are in a line |
| `PlanExecutionProofs` | its types, the safety of approval gates, what the generator guarantees and what a plan keeps, proved |
| `PlanOutcomeProofs` | how a run ends: what it leaves, announces and no longer starts; the refinement of `SequentialRun`, proved |
| `MemoryRouter` | the consumer that writes every event to the memory layers |
| `MemoryRouterProofs` | its types, that writes count once and that none is forgotten, proved |
| `AnomalyRegistry` | open anomalies in memory and Redis, under two loops |
| `AnomalyRegistryProofs` | its types, the agreement of memory and Redis, resolutions, proved |
| `WorldModel` | the registry of entities and its two writers, composed with `AnomalyRegistry` |
| `WorldModelProofs` | its types, the agreement of the stores, what a critical entity has open, what the registry's guarantees become, proved |
| `FastPath` | the rules of the reasoning engine and the rates they are trusted by |
| `Feedback` | cycles that judge the steps of plans, request by request |
| `DecisionLedger` | abstractly, what becomes of the record of a decision |
| `LearningLoop` | reasoning engine and planners closed to a loop with `Feedback` |
| `LearningLoopProofs` | its types, what it promises of decisions, tallies and rules, the refinement of `DecisionLedger`, the steps of cycles, proved |
| `Normalizers` | type and severity of the event each reading becomes |
| `MonitorAgent` | the monitor over the open anomalies |
| `Perception` | orchestrator, adapters and push API, composed with `MonitorAgent` |
| `PerceptionProofs` | its types, pollers, logs, signals, reports, recoveries and problems, proved |
| `TaskDelegation` | planner, executor, coordinator and the two stores of tasks |
| `TaskDelegationProofs` | its types, the agreement of the stores, the losers of conflicts, that tasks stay settled, proved |
| `MC...` | values for the constants of each |

`PROJECT.json` gives, for every definition that models code, the lines it
stands for.

## Inventory

State, operations and what makes each component correct.  "Hard" names what a
test hardly reaches.

**Execution layer** (`execution/`).  State: the `Plan` object of each call of
`PlanRunner.execute`, its steps' statuses, nothing persistent of its own.
Operations: `execute` runs waves of ready steps with `asyncio.gather`;
`_run_step` saves a gate, calls a handler under `wait_for`, reports to
`PlanMonitor`.  Hard: a wave's coroutines share the plan; exceptions leave
`execute` while siblings go on; timeouts race answers; a crash loses the run.
Correct when no gated step runs without approval, nothing runs after a
rollback, every execution ends, and what was announced stays true.

**Planning system** (`planning/`).  State: `plan:<id>` in Redis, one JSON value
per plan.  Operations: generate, get, list, approve, delete, append;
`PlanMonitor.on_step_completed` judges a step and publishes.  It shares only
Redis with the execution layer, and both sides read, change and write back the
whole plan.  Hard: lost updates in both directions.  Correct when an approval
or an abort stays, and when Redis says what happened.

**Memory router and layers** (`memory/`).  State: consumer position, committed
offset, a dedup key per event in Redis, five stores.  Operations: receive,
`SET NX`, fan out with `gather`, commit.  Hard: failures of some layers, a
crash between the dedup key and the writes, redelivery, the commit of later
messages, messages that no handler takes.  Correct when nothing is lost without
a trace, no event blocks those behind it, and counted writes count once.

**World Model** (`world_model/`).  `AnomalyRegistry`: a dict and its mirror in
the hash `wm:anomalies`; opened, refreshed and resolved by the Kafka loop,
expired by another.  `EntityRegistry`: the same pattern for entity states, with
the temporal sync loop as the second writer.  `CausalEngine`: Neo4j.  Tasks: a
row in PostgreSQL and a node in Neo4j.  Hard: the loops interleave at every
`await`; two stores without a transaction.  Correct when memory and mirror
agree, resolutions close what they name, what is stale heals, and a finished
task is finished everywhere.

**Agents and coordinator** (`agents/`, `coordinator/`).  State: `_last_sig` of
a monitor, jobs in flight of an executor, `resolve()` calls in flight.
Operations: poll the situation and signal; handle a signal and delegate a task;
poll tasks and execute; detect and resolve conflicts.  Hard: polls overlap with
the work of earlier polls; a loser may finish while it is cancelled; a failed
heartbeat ends an agent.  Correct when each open anomaly is signalled, each task
of a living executor settled, each loser taken off the queue.

**Feedback loop** (`feedback/`).  State: cycles in flight; through the Memory
API the outcome in a decision's record, its vector and the counters of
playbooks; success counts on graph edges.  Each step event starts a detached
cycle: count the anomalies, wait, count again, judge, and then record, update
and strengthen side by side.  Hard: cycles overlap, read-modify-write the same
counters and judge the same plan; counts are of anomalies others open and
close; a restart loses or repeats cycles.  Correct when the records agree with
the verdicts, an outcome stands once it is written, and no failure stops a
cycle.

**Reasoning engine** (`reasoning/`).  State: one engine with the `agent_id` and
`domain` of the last request.  `reason()` fetches the situation, filters it by
domain, takes the first rule with a rate it trusts or else asks an LLM, three
times, and stores the decision.  Hard: requests and the engine's own loop share
the attributes across awaits.  Correct when a decision is the asker's and rules
that failed are not trusted again.

**Temporal engine** (`temporal/`).  Sliding windows in Redis, statistics over
them, patterns in PostgreSQL and Neo4j.

**Perception** (`cognitive_perception/`, `perception_main.py`).  State: one
adapter for each type of source with a poller for each source, state keys in
Redis (APIs, queues), the offset of the log consumer, a queue of file events in
memory.  Operations: poll, compare with the state key, normalize, publish;
consume logs and commit; push endpoints that answer and publish later; a
supervisor that starts a failed adapter again.  Hard: the state key is written
before the event is sent; the report of a failure fails; `gather` leaves
pollers behind; anomalies expire when nothing is reported.  Correct when each
problem is open in the World Model, each recovery closes it, each source is
polled and no log is skipped.

**Chaos lab, target system, dashboard, SDK, scripts.**  A test bed, a sample
shop, a front end and tooling.

Interactions: perception publishes to Kafka; router, World Model, temporal
ingester, planners and feedback loop consume it with groups of their own;
everything else is HTTP (agents to World Model, reasoning, planning, execution)
or a shared Redis key (plans).

## How the models correspond to the code

An action is the code from one `await` to the next, with the answer that ended
the await as its guard.  A request that may be overtaken is a record in a set
of requests under way, and has its own action where it takes effect.  Failures
(a request that raises, a crash) are actions too, bounded by `MaxFaults`;
where the request may have been carried out nevertheless, both outcomes are
there.  Texts, timestamps and payloads are left out.

### PlanSchema, PlanGenerator, PlanExecution

`store` is the value in Redis, `mem[r]` the object run `r` holds, `pc[r]` the
place in `execute()`, `task[r][i]` the place in `_run_step` for step `i`,
`saving` the gate saves on their way, `requests` the API calls that have read
and will write.  `Run` is a set, since an executor may post a plan twice.
`performed`, `approved` and `published` record what has happened outside.

`Fetch`/`Execute` are the executor's GET and POST; `StartWave` is
`ready_steps()` with the first stretch of every `_run_step` (`Launch`), gates
serialising the plan as it is at that point (`Snapshot`); `GateSaveLands`,
`GateOpens`, `Act`, `PollApproved`, `StepSucceeds`, `StepFails`, `Reported`,
`CriterionMet`, `CriterionNotMet`, `Announced` are the rest of `_run_step` and
`on_step_completed`; `SaveLands`, `WaveJoins` and `Finish` the loop.  A handler
performs its action and then answers, so a timeout can strike between the two.
A success criterion of type `event_received` is never evaluated by the code,
so only `world_model_query ... resolved` exists in the model.

The run `plan_execution` has nine plans: five from the generator that cover
every template, the rule-based plan with a gate, a plan of an action without
handler, and three with parallel steps of the kind
`tests/test_plan_runner.py` builds (two independent steps, with a failure
policy each; a criterion beside a sibling; a gate beside a sibling).  Two API
calls and one fault let an approval meet an abort or an append and a failure
strike in between.  The step appended is pending or has succeeded, since the
endpoint copies it from another plan as it is there (`planning/api.py:117-130`).
It shows

- `GateRespected`: nothing behind a gate is performed before an approval;
- `StoreAgrees`: without API calls the last copy in Redis is the plan's end;
- `PublishedOutcomeIsFinal`: what was announced is how the run ends, if it takes
  its steps one by one (`OneByOne`).  With parallel steps it need not be, nor in
  a chain whose run finds a later step done: a step appended as succeeded lets
  what depends on it start beside the step that is next.  TLC finds this with an
  appended step, where the property says no more than that the plan is a chain;
- `LeftOpenOnlyBehind`: such a run leaves its plan open only behind a step that
  failed with `continue` or that it found neither to do nor succeeded;
- `HaltsOnFailure`: no wave after a failure that asks for rollback or abort,
  unless a gate shared its wave;
- `OnlyStaleWritesUndo`: while the only gate of a plan is polled, an approval in
  Redis is undone only by an API call that read the plan before it (of two gates
  in one wave, the late save of the second undoes the approval of the first);
- `RunEnds`: each execution ends;
- `RunsInSequence`: seen from outside, each run implements `SequentialRun`.

`SequentialRun` is what an operator who knows nothing of waves, gathers, copies
and saves may rely on: a step is taken only when the one before it has passed
and nothing is under way, its action is performed at most once, the outcome is
decided at most once and by the step under way, it is announced at most once,
when that step ends, no step is taken behind it, and the run stops only when it
is decided or no step can be taken.  The mapping reads `stage` off `pc`, the
state of a step off its status and its task, and the outcome and the
announcements off the plan's status and `published`.  A run that does not take
the steps of a chain one by one (`OneByOne`) maps to the stage `"other"`, of
which nothing is promised; `RunsTakeTurns`, below, says which runs are not
among these.

`plan_drives_to_end` and `plan_abort_stands` show two statements of docstrings
that do not hold: a plan can stay `running` for ever, and an abort is
overwritten by the run.  For the first a single handoff step with `continue` is
enough, which nobody answers in time: failed, it is neither done nor ready.  In a
longer plan the steps behind it stay pending as well.

Three things the properties do not catch, since the code does them and nothing
in the repository says otherwise: one approval serves all gates of a plan
(`approved` is of the plan; no generated plan has two), a gate in the wave of a
failing step sets the plan running again, and a plan under execution is lost
with the process.

### MemoryRouter

`log`, `committed` and `position` are the topic and the consumer; `dedup` the
keys in Redis; `writing` the coroutines under `gather`, `raised` whether one
raised.  `excused` records for each write that was not made which cause of the
code or the environment accounts for it; `WritesAccountedFor` then says that
there is no other cause, in particular no failing neighbour.  The semantic
layer makes two writes in turn, of which only the second is not idempotent
(`strengthened`).  `Linked` stands for events that name two entities or more;
an event that names one makes the node only.  A message is an event, one without
id (`NoId`), which is skipped, or one that is no JSON object (`Garbled`): bytes
that do not decode raise in the deserializer, outside the `try` of the loop
(`router.py:95, 99`), and JSON of another kind raises once in `_route` and again
in the handler that logs it (`router.py:106`).  Either way `run()` ends with
nothing committed, and a new start meets the message again (`ReceiveBreaks`).

The run has three messages, of two events that together take every layer and
of the two other kinds, so that an event is repeated and a failed message is
followed by a good one, and one fault: `WritesAccountedFor`, `StrengthenedOnce`
(while the dedup key lives), `Drains`.  The last says that every message is taken
in the end, unless the process is dead, whatever failed for those before it: no
event blocks the topic.  A `Garbled` message does, and nothing is promised of
what lies behind one.  `memory_no_event_lost` shows that the header's "no event is
lost" fails: the commit of the next message covers the one that failed.

### AnomalyRegistry

`memory` is `_open`, `redis` the hash, `sending` the `hset` each loop awaits.
`closing` and `expiring` are the lists of keys each loop collected before its
awaits.  Time is counted in units of the staleness threshold, and an event may
carry an old timestamp.  The Kafka loop handles one event at a time
(`core.py:99-100`).  An exception of the Kafka loop is swallowed by `gather`
(`EventEnds`), one of the expiry loop ends it (`expiry = "dead"`).

The run has two entities, one id a prefix of the other, one kind of anomaly and
its resolution, two severities, three events, one tick and one fault: enough
for a resolution to meet an expiry of several keys with an update in between.
`RedisAgrees` excepts keys whose two writers raced (`unsure`); the exception is
needed, since the connections do not order their writes.  `ResolutionCloses`
holds for a resolution that comes to its regular end; one that meets a key
popped by the expiry loop raises `KeyError` and leaves the later entities of its
event open.  `AutoHeals` holds while the expiry loop lives;
`anomaly_expiry_keeps_running` shows that it may not.  Two more things the code
does are in the model, without a property against them: `startswith` closes
anomalies of other entities whose id begins the same (`KeysToClose`), although
`anomaly_registry.py:4-5` speaks of the same entity, and an anomaly refreshed
while `expire_stale` goes through its list is closed nevertheless.

### TaskDelegation

`postgres` and `graph` are the two statuses of each task, `requests` the writes
of the World Model under way, PostgreSQL first.  `jobs` counts the
`_execute_task` coroutines of each task: a poll starts another one for a task
that is still pending.  `lost` are the tasks whose plan the planning service no
longer has: their jobs return without settling them.  `ended` are the executors
that have ended: `run()` gathers the polls with the heartbeats
(`executor_agent.py:14`), so that one heartbeat that cannot be sent ends both, and
the coordinator notes the crash and starts nobody again (`ExecutorEnds`).
`resolves` are the `resolve()` calls in flight.  A Task
node has no risk and no confidence (`causal_engine.py:149-156`), so all scores
are equal: the winner is whichever node comes first, the merge branch is never
taken and the plan deleted is `plan_unknown`, which does not exist.

The run has two tasks that compete, one job per task, two writes of a task at a
time, one `resolve()` at a time, one fault: `StoresAgree` for tasks whose writes did
not overlap or fail, `LosersSettled`, and `Settles` for tasks whose plan is
not lost and whose executor lives: a job that dies leaves its task to the next
poll, an executor that ends leaves its tasks pending for good.

### WorldModel

`WorldModel` adds to `AnomalyRegistry` the other half of `_process_event`:
`entity` and `stored` are the registry of entities and its hash, `writing` the
`hset` of the Kafka loop and that of the temporal sync loop, which may land in
either order.  `Process` starts both halves, `Upsert` goes through the entities
of the event, `SyncStarts` and `Sync` are the second loop, which takes an entity
object before the HTTP call and changes it after.  A failed write ends the
upsert for the later entities of the event.  `core.WorldModel` is loaded twice by
`api.py:22-36`, which is harmless and left out.

The run has one entity, events that are critical, medium or restoring, the
temporal sync, the expiry loop and one fault.  `world_model` shows

- `EntitiesAgree`: when quiet, memory is what Redis has, except for entities
  whose two writers were at work at once or failed;
- `CriticalIsOpen`: a critical entity has a critical anomaly open, unless that
  expired.  The exception matters: expiry leaves the health, so an entity whose
  sources never send a resolving event (databases, Redis, logs, files,
  browsers, security) stays critical.

`world_health_upgraded` shows that the comment at `entity_registry.py:80` ("Only
downgrade health, never silently upgrade without a _resolved event") is not kept:
the check compares with the severity of the one event before, so that a medium
event leaves a critical entity critical and the second makes it degraded.  Three
events, with neither time nor faults, are enough.

### FastPath, Feedback, LearningLoop, DecisionLedger

`FastPath` is pure: the rules as a sequence, the record of success that is
looked up for each, and `Evaluate`.  In `Feedback`, `cycle[ev]` is the place of
the cycle of an event `<<decision, action>>`, and `recorder`, `updater`,
`updating` the three parts that `gather` runs; `row` and `point` are the
record of a decision in PostgreSQL and in the vector store, `playbook` and
`resolves` the two tallies of each action.  `LearningLoop` adds `engine` (the
shared attributes), `request[c]` (the place of each caller in `reason()`) and
`planned` (the steps that are still to come).  Anomalies open and clear freely
(`Change`), the LLM recommends any action in `Advice`, an unknown one or
nothing.  All rows of the plan that match are updated and the one that comes
back first is indexed; rows other than the decision's are the nondeterminism of
`PatchRows`.  Facts of the code that the model keeps: only the events of
`PlanMonitor` carry both `plan_id` and `action`, so each step starts a cycle
and the first to end judges the plan; they carry no entities, so the entity's
health is never compared; the correction prompt is never sent, since the
retries end in a `RetryError`; a World Model that does not answer counts as
having no anomalies.  A restart brings back events whose cycle is still counting
or waiting, with a committed offset that is chosen late, since auto-commit runs
every five seconds.

The run has one planner beside the engine's own loop, two decisions, two
actions with one playbook, an anomaly of the planner's domain and another, one
change of the anomalies from outside and one fault.  It shows

- `LedgerKept`: the composition implements `DecisionLedger`, under the mapping
  that reads the state of a decision off its row: judged at most once, only
  when linked to its plan, by a verdict that a cycle has come to;
- `EvidenceAgrees`: both tallies count the same successes, unless updates
  overlapped or failed (`unsure`), which they do without any failure;
- `OutcomeIsSearchable`: the vector never has an outcome which the row does not
  have, and it has the one recorded, but for three cases (`unindexed`), which
  nothing repairs: the update returned another row, the request or a process
  failed between row and vector, or the embedding model was not loaded and
  `vector.store` returned without an error (`vector.py:71-73`);
- `SuccessIsRelief`: a success means that an anomaly was cleared during a cycle
  of the plan, or the World Model was silent: of any cause, by any other plan;
- `DecidedForAsker`: a decision is its asker's, unless requests overlapped
  (`contended`);
- `LearnsFromFailure`: with all updates done, a rule below 40 of 100 is not
  taken and one below 65 not without approval;
- `CyclesGoOn`: no failure leaves a cycle without a next step.

### Normalizers, MonitorAgent, Perception

`Normalizers` has each normalizer as a function from what it looks at to a type
and a severity; thresholds are the side a number is on.  `Collected` restricts
queue readings to what the two collectors can return: that of Kafka reports the
lag as depth, one consumer and no throughput, so that any lag below the warning
threshold is a stopped consumer group of severity high, and dead letters and
old messages never occur.

`MonitorAgent` keeps of the World Model the open anomalies (`open`) with the
sources that reported each (`by`), as `AnomalyRegistry` has them between two
events, in units of the staleness threshold.  `listed` is the situation of the
poll under way, `sending` the signal awaited, `lastSig` the marks.  A signal is
itself an event about the entity and the monitor, of a severity that opens
anomalies (`SignalSent`).

In `Perception`, `deployment` is chosen at the start, `poller` holds the pollers
by source and by the start of the adapter that made them, since `gather` leaves
the others alone when one raises; `known` are the state keys, `arrived`,
`result`, `position` and `committed` what is pushed, noticed or logged.
`Observe`, `PollBreaks`, `Check`, `Breaks`, `Send`, `SendFails`, `RecoveryFails`
are a poll; `Arrives`, `SendArrived`, `DropArrived`, `CommitLog`, `CommitFails`,
`LogRaises`, `LogBreaks` the rest.  State keys hold exact numbers (a status code,
a lag, a count of consumers) of which the model has classes: a reading of the
class that is known may be of the same state or another (`IsOneOfMany`), so it is
published or not.  A queue source of an unknown `broker_type`, whose poller
returns at once (`queue_adapter.py:183-186`), is left out as an error of the
configuration.  `Tick` passes a unit when every source was polled and all is sent,
the intervals (5 to 60 s) being far below the 600 s of the unit; a state key
lasts six of them in the code and `KeepsFor` in the model.

The run has eight deployments that together use every type, one of them
watched, and one fault.  It shows

- `ReportStands`: what was published last is how things are, except after a
  failure between the state key and the send (`lost`);
- `ProblemIsOpen`: with all quiet, whatever the last poll found is open, except
  what another source resolved (`eclipsed`) or a failure suppressed (`lost`),
  and except an API's problem in later units (`Due`).  That exception is real:
  an API that stays down is reported once an hour, its anomaly expires after ten
  minutes, and the outage counts as healed for the fifty in between;
- `RecoveryClears`: a source that works again has nothing open;
- `EverySourcePolled`: an adapter that runs polls every source it has;
- `LogsAccountedFor`: what the committed offset covers was handled, and nothing
  was skipped by a crash, a restart or a failing commit.  A log that is a JSON
  object was sent or its send was tried; other JSON has no `get()` and raises in
  the handler (`LogRaises`), so that nothing is sent of it, not even to the failure
  topic, and the next commit covers it.  What is no JSON at all raises in the
  consumer and not in the handler: the adapter starts again at the same message
  (`LogBreaks`), although the comment at `log_adapter.py:84-87` wants no malformed
  message to stall the partition.  The offset never passes it, which the property
  states as what the code does and not as what it should;
- `EachSignalled`: the marks of `MonitorAgent`, one per entity, never make a poll
  take an anomaly for signalled that is not.  They do alternate: each signal
  opens `task_delegated` anomalies of the same entity, so every poll signals all
  of them again, unlike the comment at `monitor_agent.py:47`.

## Bounds

| bound | value | why it is enough |
|---|---|---|
| `Run` | 1 | the properties relate one run to Redis and the API; the proofs have any number |
| `MaxCalls` | 2 | one call can overtake another |
| `MaxFaults` | 1 | properties speak of the state after a fault; a second one repeats it |
| `MaxLog` | 3 | an event, its duplicate and another |
| `MaxEvents`, `MaxTime` | 3, 1 | two anomalies opened, one event that resolves or refreshes while they expire |
| `MaxTasks` | 2 | the smallest conflict |
| `MaxJobs`, `MaxRequests`, `MaxResolves` | 1, 2, 1 | a job beside a cancellation, two writes that overlap; with two jobs of one task the run takes over four minutes and, tried once, finds nothing else |
| `MaxChanges`, `MaxLive`, `MaxSteps` | 1, 2, 2 | a cycle in which an anomaly clears, beside another cycle of the plan |
| decisions, planners, playbooks | 2, 1, 1 | a second decision after the first was judged; a planner beside `run_loop` |
| entities of `WorldModel` | 1 | upserts of different entities share nothing but the event; ids with a common prefix are in the run of `AnomalyRegistry` |
| sources per deployment | 2 | one poller that fails beside one that goes on, and two sources of one entity |
| `KeepsFor`, `TopN`, `MaxArrivals` | 2, 3, 2 | a unit in which the key suppresses and one in which it has expired; a situation that leaves anomalies out; a log that fails and one behind it |

Deadlock is not checked: each of these systems rests when its bounded inputs
are used up.

## Fairness

Weak fairness stands for what the runtime does: the event loop runs every
coroutine that can go on, requests are answered or fail (clients have
timeouts), timers fire.  `RunEnds` rests on `wait_for` around each handler and
not on an operator.  `Drains` assumes no restart: `memory/consumer.py` has
none.  `Settles` assumes the timer of an executor that has not ended
(`ExecutorPolls` has this in its guard, so that its fairness asks nothing of one
that has); nothing is assumed of planners, of the conflict resolver, or that
anybody starts an executor again.  `AutoHeals` assumes the expiry timer.  `CyclesGoOn`
needs none: it says that a cycle can go on, and the event loop does the rest.
The specifications of `WorldModel`, `LearningLoop` and `Perception` state no
fairness, and their properties are about safety.

## What is proved

Every invariant and action property that a passing run checks and that does not
speak of ENABLED, and the refinements of `DecisionLedger` and `SequentialRun`, for
every value of the constants that the modules' assumptions allow.  Each proof has the same shape:
the property is seldom inductive, so an invariant in named parts is shown to
hold initially and to be kept by every action, with a lemma for each part, and
the property follows from it.

| property | theorem | of |
|---|---|---|
| `PlanExecution!TypeOK` | `TypeCorrect` | `PlanExecutionProofs` |
| `GateRespected` | `GateSafety` | `PlanExecutionProofs` |
| `StoreAgrees` | `RedisHasTheEnd` | `PlanOutcomeProofs` |
| `PublishedOutcomeIsFinal` | `PublishedIsTheOutcome` | `PlanOutcomeProofs` |
| `LeftOpenOnlyBehind` | `OpenOnlyBehind` | `PlanOutcomeProofs` |
| `HaltsOnFailure` (action) | `FailureHalts` | `PlanOutcomeProofs` |
| `OnlyStaleWritesUndo` (action) | `OnlyStaleWrites` | `PlanOutcomeProofs` |
| `RunsInSequence` (refinement) | `RunsAreSequential` | `PlanOutcomeProofs` |
| `MemoryRouter!TypeOK` | `RouterTypeCorrect` | `MemoryRouterProofs` |
| `StrengthenedOnce` | `EdgesStrengthenedOnce` | `MemoryRouterProofs` |
| `WritesAccountedFor` | `NoWriteIsForgotten` | `MemoryRouterProofs` |
| `AnomalyRegistry!TypeOK` | `TypeCorrect` | `AnomalyRegistryProofs` |
| `RedisAgrees` | `RedisHasWhatIsOpen` | `AnomalyRegistryProofs` |
| `ResolutionCloses` (action) | `ResolutionClosesAll` | `AnomalyRegistryProofs` |
| `RedisAgrees`, of `WorldModel` | `RedisHasTheAnomalies` | `WorldModelProofs` |
| `ResolutionCloses` (action), of `WorldModel` | `WorldResolutionClosesAll` | `WorldModelProofs` |
| `WorldTypeOK` | `WorldTypeCorrect` | `WorldModelProofs` |
| `EntitiesAgree` | `RedisHasTheEntities` | `WorldModelProofs` |
| `CriticalIsOpen` | `CriticalEntityIsOpen` | `WorldModelProofs` |
| `TaskDelegation!TypeOK` | `TypeCorrect` | `TaskDelegationProofs` |
| `StoresAgree` | `BothStoresAgree` | `TaskDelegationProofs` |
| `LosersSettled` | `LosersAreSettled` | `TaskDelegationProofs` |
| `LearningLoop!TypeOK` | `LoopTypes` | `LearningLoopProofs` |
| `LedgerKept` (refinement) | `LedgerIsKept` | `LearningLoopProofs` |
| `OutcomeIsSearchable` | `OutcomesStaySearchable` | `LearningLoopProofs` |
| `SuccessIsRelief` | `SuccessMeansRelief` | `LearningLoopProofs` |
| `DecidedForAsker` | `DecisionsAreTheAskers` | `LearningLoopProofs` |
| `EvidenceAgrees` | `TalliesAgree` | `LearningLoopProofs` |
| `LearnsFromFailure` (action) | `LoopLearns` | `LearningLoopProofs` |
| `Perception!TypeOK` | `TypeCorrect` | `PerceptionProofs` |
| `EverySourcePolled` | `SourcesStayPolled` | `PerceptionProofs` |
| `LogsAccountedFor` | `NoLogIsSkipped` | `PerceptionProofs` |
| `EachSignalled` | `NoSignalIsTakenForAnother` | `PerceptionProofs` |
| `ReportStands` | `ChangesAreReported` | `PerceptionProofs` |
| `RecoveryClears` | `RecoveryClosesAll` | `PerceptionProofs` |
| `ProblemIsOpen` | `ProblemsAreOpen` | `PerceptionProofs` |

Proved besides, without a property of a run:

| theorem | what it says | of |
|---|---|---|
| `RunImplementsSequentialRun` | the behaviours of one run are behaviours of `SequentialRun` | `PlanOutcomeProofs` |
| `GeneratedPlans` | what the generator makes is what `PlansAssumption` asks | `PlanExecutionProofs` |
| `PlanIsKept` | every copy of a plan keeps its steps, but for statuses and appended ones | `PlanExecutionProofs` |
| `DecisionAwaitsApproval` | a decision that requires approval is not carried out before it | `PlanExecutionProofs` |
| `RunsTakeTurns`, `GeneratedPlansTakeTurns` | which runs take their steps one by one | `PlanOutcomeProofs` |
| `CyclesHaveWork` | a feedback cycle under way has a step whose guard holds | `LearningLoopProofs` |
| `CyclesAreShort` (action) | each of its steps leaves it fewer | `LearningLoopProofs` |
| `TasksAreSettledForGood` (action) | a settled task is never pending again | `TaskDelegationProofs` |

**PlanExecution**, gates: for every set of plans, every number of runs of the
same plan, API calls and faults.  Assumed is that no plan arrives with a step
begun, that a gate is served by the handoff handler and has an id no other step
has (`PlansAssumption`), and that the append endpoint copies no gate
(`AppendableAssumption`, since no task asks for `human_handoff`).
`GateRespected` is not inductive: a step is launched because its copy of the
plan says its gate succeeded, and that copy came from Redis, which holds
whatever was written last.  `IInv` adds what is needed: in *every* copy (each
`mem[r]`, `store`, each gate save and each API request) a gate has succeeded
only if an operator approved (`CopiesOK`); a step that has started has its
dependencies (`TasksOK`); a gate save belongs to one waiting step
(`SavingOK`); a performed action belongs to a started step (`PerformedOK`).
`InvStep` has one case per action, most of them through `StepInv` (a stretch of
`_run_step`) or `QuietInv` (actions that leave the steps in memory alone).

**PlanExecution**, outcomes: the properties look at a run that is over or
between two waves, and are made true or false inside a wave.  `OInv` therefore
says of each run, in terms of its plan, its place in `execute()`, its tasks and
what it has published, which tasks can be under way at which place
(`PhaseOK`), that a task and the status of its step go together (`ProgressOK`),
that a fatal failure leaves the plan not running (`HaltOK`), and, when the run
takes its steps one by one, that they are begun in order with one under way
(`OrderOK`), that the plan has an outcome exactly from the moment the monitor
judges it and nothing else is published (`OutcomeOK`), and why a plan that is
no longer executed may be open (`OpenOK`).  `StoreOK` says that Redis has the
plan of a run that is alone, between waves.  That a loop which finds nothing
ready has a reason for it takes the least step that is not done; the reason is
then that step or the one before it.

**PlanExecution**, from outside: `RunsAreSequential` needs more than `OInv`,
which looks at a run between waves. `SInv` adds to it, of each run (`RunSeqOK`),
that no action is performed before its handler is reached, and, of a run that
takes its steps one by one, that what is under way is the last step that was
begun and does not outlive an exception, and that a plan with nothing under way
and no outcome goes on, or has failed at the last step that was begun. `SeqStep`
has a lemma for each action of the code, which names the step of `SequentialRun`
it is, or the stutter; most of the work is that a run stays, or does not stay,
in line when it starts, when copies of its plan come from Redis and when a wave
begins.

**PlanGenerator**: the generator is a function, and for it the theorems need no
invariant.  `GeneratedPlans` looks at each template and at the single-step plan;
it uses `NamesAssumption`, that the names of actions are strings, which no prover
knows of a string literal and TLC evaluates.  From `IInv` it follows that all
copies stay prolongations of one plan (`PlanIsKept`): calls and runs write only
statuses and append at the end.  `DecisionAwaitsApproval` composes generator and
runner: the gate in front of the decided action stays where it was made, in
every copy, and so `GateRespected` holds of it.  It is stated of actions without
a template: templates never consult the decision (`generator.py:36-98`).
`RunsTakeTurns` discharges `OneByOne`, the hypothesis of the outcome properties
and of the refinement, for chains whose ids begin at `s0` if what is appended is
pending.  The hypothesis about ids is needed: with ids from `s1` the first
append repeats one, so that of templates and of ungated plans it is proved only
when nothing is appended.  `InTurnInv` says that all copies are such chains and
that what is begun in any copy is the beginning of the line.

**MemoryRouter**: for every set of events, topic length and number of faults.
Nothing in `StrengthenedOnce` says that the write under way is the first.
`OnceInv` adds that an event that has strengthened its edges still has its dedup
key unless the key expired, that a message whose nodes or edges are under way
has its key and has strengthened nothing yet, and that the edges begin when the
nodes are done.  `WritesAccountedFor` is about messages the router is through
with, and a duplicate is through at once, on the strength of a dedup key;
`AccountInv` adds that every event with a key is accounted for or is being
written (`MarkedAccounted`), and that what is owed and neither made nor excused
is under way, or is the edges behind nodes that are (`OwedUnderWay`).

**AnomalyRegistry**: for every set of entities and kinds, any prefix relation
between ids that is reflexive, any bounds.  `AgreeInv` says what `RedisAgrees`
leaves out, the time between a change in memory and its write: a key not in
doubt has one write under way at most, of what memory has, and with none Redis
has that.  `ResolvingInv` says that while an event resolves, the anomalies of
each entity it is through with are closed or are in the list to be closed, which
an expiry between two awaits does not spoil.  Both guarantees are proved again of
the composition with `EntityRegistry`, `WorldModel`, whose restarts and failed
writes reach both registries.

**WorldModel** extends that proof: its steps are steps of the anomaly registry,
stutters of it, or a fault.  `PresentInv` says that an entity is there before a
write of it is, `EntitiesInv` is to entities what `AgreeInv` is to keys, and
`CriticalInv` couples the two registries inside an event: a critical entity has its anomaly,
or the event under way has yet to open it or to take the health back.

**TaskDelegation**: for every number of tasks, jobs, requests, resolutions and
faults.  `AgreeInv` says that of the two stores PostgreSQL is ahead, by exactly
the write under way; `PendingOnceInv` that a task is made pending once, by the
request that creates it; `LosersInv` that a loser whose cancellation was sent is
settled in each store or has the cancellation on its way to it.  With
`PendingOnceInv` nothing makes it pending again behind its back.
`RowFirstInv`, that nothing happens to a task before its row is inserted and that
the insert finds none, gives the same of every settled task, faults or not, in
PostgreSQL, where the executors look (`TasksAreSettledForGood`).

**LearningLoop**: for every set of planners, decisions, actions, playbooks and
anomalies and every number of faults.  `LoopAssumption` says what the proofs
need: planners and decisions are finite, the general domain has every anomaly
(`_is_domain_relevant` returns before it looks at keywords), what is recommended
is an action or can be escalated, and no plan has two steps with the same
action, as in every template of `plan_templates.yaml`.  This last one is needed:
a cycle is named by decision and action, and two steps of one name would share a
cycle.  `Inv` has one part for each thing a step relies on:

- `StepsInv`: a step is published once, and only events that were taken have a
  cycle, so that no event gets a second cycle beside its first, restarts
  included;
- `RequestInv`: a situation under reasoning is not empty, so that a rule has an
  anomaly to match, and the bound on decisions leaves one for each request;
- `VerdictInv`: what a gathering cycle records is among the verdicts on its
  plan, which makes a recorded outcome a `Judge` of the ledger;
- `IndexInv`: a recorder that is indexing holds the outcome that its row has,
  whether or not the vector store takes it;
- `ReliefInv`: a sleeping cycle that began with more anomalies than are open
  has seen one cleared;
- `AskerInv`: the engine has the attributes of every caller that reads it and
  met no other, and the situation of such a planner is of its domain;
- `EvidenceInv`: what a playbook or an edge has counted of an action, and the
  cycles that have yet to count, make up the cycles that were judged, successes
  and failures apart.  Both tallies are compared with the cycles and so with
  each other; an edge counts failures only from its first success on, hence the
  inequality there.

`LedgerSteps` maps every step to one of the ledger or to a stutter: a row moves
by `Persist` (`Remember`), `Generate` (`Link`) or the recorder (`Judge`), and
never back.

`CyclesGoOn` cannot be stated to the prover, but what it rests on can:
`CyclesHaveWork` is the guards of `CycleStep`, which need that an updater that
writes has something left to write (`PatchingInv`), and `CyclesAreShort` is a
count of the steps left (`StepsLeft`) that each step and each failure lowers, for
finitely many playbooks.  Together they leave of the cycles' termination only
the scheduling.

**Perception**: for every deployment, source and set of readings.
`PerceptionAssumption` says that the monitor is not a source, that each source
is about finitely many entities, and that what the push endpoints accept has a
severity the schema knows, since `main.py:234` raises otherwise.  The invariants
build on each other: `PollersInv` (a running adapter's pollers are of its
generation) and `GenerationsInv`; `LogsInv` (the committed offset follows the
position, below which every log was sent, tried or has raised); `MarksInv` (the monitor sends
one signal at a time, and a signature that is current belongs to an anomaly that
was signalled, missed or is being sent); `ReportsInv` (the state key, the last
reading and the last report of a source agree while nothing is being sent);
`OwnInv` (an API or a queue reports of its own entities, and nothing of what it
reported is open once it works); `ProblemsInv`, which says what `ProblemIsOpen`
leaves out, the time of a poll: a problem is open and was seen in this unit, or
is on its way from a poller.  Of a database or of Redis, where a failed check or
send is followed by `service_unreachable`, it must say besides that a source
whose report is lost has no poller that is about to send this, since then the
report would count as made.  `TypeCorrect`
rests on all of these: the severities come from a lemma per normalizer
(`WatchInv`), the bound on starts from `StartsInv` (each start but the first was
paid for by a fault), the state keys from `KeysInv`.

Only model-checked are `RunEnds`, `Drains`, `AutoHeals` and `Settles`, which are
liveness under fairness, and `CyclesGoOn`, which speaks of ENABLED: both are
beyond the prover.  The refinements say nothing of fairness: `SequentialRun` and
`DecisionLedger` are safety.  Only model-checked are also the five statements of
docs and comments that do not hold, which are runs with a counterexample.

## Not modelled, and why

Statistics over floats (the temporal engine), Cypher reads, prompt texts and
the parsing of logs and HTML are not state machines.  `DatabaseNormalizer` and
the sensor adapter with its normalizer are called by nothing but tests.  The
memory and prediction agents read and emit.  The chaos lab and ShopCore are a
test bed and a sample workload, the dashboard and the SDK forward.  Left out of
modelled parts: the expiry of a plan after a day (other than for the executors,
in `TaskDelegation`), the TTLs of the working memory, read endpoints, the manual
trigger of the feedback loop, and that an Alertmanager repeats a firing alert
with the time it began, so that a long one is stale at once (an alert may be
`old` in the model, but it is pushed freely).

## Plan

1. *Done*: `PlanSchema`, `PlanGenerator`, `PlanExecution` with proofs, since a
   remediation that runs without approval is the worst this system can do;
   `MemoryRouter` with proofs; `AnomalyRegistry`; `TaskDelegation`.
2. *Done*: `WorldModel`; the learning loop with its refinement of
   `DecisionLedger` and perception with the monitor, both with proofs.
3. The chaos controller, whose activation awaits while a deactivation runs, and
   the temporal ingester's window.
4. *Done*: `SequentialRun`, a plan's run as an operator sees it, implemented by
   `PlanExecution`.  Left: an at-most-once counter implemented by `MemoryRouter`.
5. Composition: `AnomalyRegistry` with `PlanMonitor`'s criterion, so that
   `CriterionMet` is no longer a free choice; `LearningLoop` with
   `TaskDelegation`, so that a decision's steps are an executor's.
6. *Done*: proofs of every invariant and action property that a run checks, of
   both refinements, and of what the generator and the World Model guarantee to
   the parts they are composed with.  Left are the parts of the invariants that
   the compositions of item 5 would share.
