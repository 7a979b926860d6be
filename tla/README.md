# NeuroSlice: formal models

TLA+ models, TLC runs and TLAPS proofs for the NeuroSlice platform
(`neuroslice-platform/`): a simulated 5G/6G network whose telemetry is scored by
AI services, whose alerts lead to actions an operator decides on, and whose
models are retrained under a human gate, all of it watched and operated from a
React dashboard. All paths below are relative to `src/neuroslice-platform/`.

The platform is some twenty small Python services around one Redis. Hardly any
of them uses a transaction: what makes the system correct is the order of
single Redis commands issued by threads, event loops and services that know
nothing of each other, some of which stop half-way. That is what the models are
about. **One action is one Redis command (or one HTTP call) of one thread**;
each command is atomic, nothing larger is. The dashboard is the other half of
the same problem: its pages decide on copies that are fetched, cached and polled
while everybody else goes on. There **one action is one thing a browser does**: a
fetch is asked for, answered and lands in three steps, a call is sent, served and
returns in three.

Contents: [inventory](#1-inventory) ·
[plan](#2-plan) · [modules](#3-modules-and-code) ·
[runs](#4-runs-what-is-checked) · [bounds](#5-bounds) ·
[fairness](#6-fairness) · [proofs](#7-proofs) ·
[findings](#8-disagreements-with-the-documentation) ·
[not modelled](#9-abstractions-and-what-is-not-modelled)

## 1. Inventory

### Components that keep state others depend on

**Retraining control plane** (`api-dashboard-tier/dashboard-backend/main.py`,
`mlops-tier/mlops-runner/main.py`).
State, all in Redis: request documents `mlops:request:{id}` (saved whole), their
index, the pending set and pending lease of each model, the running set, one
lock and one cooldown per model, the decision lock.
Operations: approve, reject, execute (REST, one thread of the pool per call), a
background thread per accepted execution that calls `mlops-runner` and releases
what the request holds, a schedule loop that creates requests, reconciles
pending markers and retries the auto-execute requests, the same reconciliation
at startup.
Hard: two operators and the scheduler act on one request; read–decide–save over
a whole document; count-then-add under a lock that expires; a restart or a lost
answer between taking and releasing.
Correct when: no model is retrained twice at once, the limit on parallel
trainings holds, what runs is counted and approved, and nothing is held for ever.

**MLOps drift monitor** (`mlops-tier/drift-monitor/main.py`).
State: request documents as above, trigger timestamps, stream positions in memory.
Operations: three loops (anomaly stream, Kafka drift events, cron) and manual
endpoints that create requests, a reconciliation of its own.
Hard: check-then-create across awaits; a cooldown recorded after the creation;
Kafka offsets committed whatever happens.
Correct when: no task asks again while its own request waits, and drift that stays is
always answered by a request or a cooldown.

**Alert Management** (`control-tier/alert-management/app`).
State: alert hashes, index set, one deduplication key per
`entity|type|source`, `stream:control.alerts`.
Operations: the consumer creates or updates an alert per event, acknowledges the
event and announces the alert; operators acknowledge and resolve.
Hard: consumer and operators save whole hashes from old copies; creation is
three commands, resolution two; at-most-once delivery.
Correct when: a key leads to its own active alert, no event is counted twice,
resolved means resolved.

**Policy Control** (`control-tier/policy-control/app`).
State: action hashes, index, one key per alert, `stream:control.actions`,
the simulation's control keys.
Operations: the consumer recommends an action per alert by fixed rules; operators
approve, reject, execute; execution applies the action to the simulation.
Hard: as above, with an effect that cannot be undone between check and save.
Correct when: nothing is applied that nobody approved, and the record agrees
with what was applied.

**Model promotion and registry** (`mlops-tier/batch-orchestrator/src/mlops`,
`src/models/lifecycle.py`) and **hot reload** (`aiops-tier/shared`).
State: `registry.json`, version directories, the `current` directory; in each
inference service the loaded session, its version and the modification times it
came with.
Operations: a training exports its model, registers it, has the best version
copied to current and described; congestion_5g's promotes its export besides; a
service polls, compares, loads.
Hard: bytes and metadata are replaced separately, in place, while readers poll; a
training dies half-way; an export fails while its metrics pass the gate; the files of a
version are looked for where another version may be by now; two of the services fall
back to other files when current does not load.
Correct when: a service ends up with what is in current, notices every mixture of
two versions, and current holds the version the registry has in production.

**Orchestration runs** (`dashboard-backend/mlops_orchestration.py`,
`mlops_ops.py`; pages Orchestration and Operations). State: run rows in PostgreSQL,
the list and the open logs in the browser. Operations: trigger, execute in the
background, list, follow the logs. Hard: a restart between two commits; a lost
answer to a launch; a poll of the logs that stops by what it read last.
Correct when: every run is shown as it ended, and logs are read to their end.

**Auth service** (`api-dashboard-tier/auth-service`) and the **session of a tab**
(`react-dashboard/src/api/axios.ts`, `features/auth`). State: users, sessions with
the hash of the current refresh token; the access token in a tab, the cookie of
all tabs, one refresh shared by all refused calls. Operations: login, refresh with
rotation, logout, revocation, administration of users. Hard: a used refresh token
revokes the session; answers that come after a login or logout; two tabs.
Correct when: a tab alone never revokes its own session, every refused call
settles, a dead session is noticed.

**Dashboard consoles** (`react-dashboard/src/pages`): accounts, retraining requests,
retraining schedules, control actions, models, runtime controls. State: a query
cache per endpoint, forms and dialogs filled from its rows, mutations in flight.
Hard: rows that are stale when a button is pressed; mutations and dialogs that
share state; calls that are lost or outlive their page; invalidations that meet a
fetch under way; several operators.
Correct when: what is changed is what the operator saw and chose, and what was
reported as done is shown.

**Dashboard feeds and views**: the log feed (polled page, older pages by cursor), the
entity dashboard (a selection that follows address, list and operator), the copilot
conversation, and the routes with their guards. Hard: late pages under a new filter,
effects against clicks, answers after a timeout or a change of user, two tables of
roles; events of equal times, late ones and queries that are capped or fail. Correct
when: no foreign event in the feed and no moment skipped that was read, the entity that was
asked for last is shown, answers follow their questions, redirects end.

**Online evaluator** (`aiops-tier/online-evaluator/main.py`). State: pending
predictions, sliding histories, stream positions. Operation: join predictions
with telemetry. Hard: order across streams, TTL, partial failure.
Correct when: each prediction is counted once, by its own telemetry, or dropped in time.

**Inference services** (`aiops-tier/congestion-detector`, `sla-assurance`,
`slice-classifier`), **normalizer** (`ingestion-tier/normalizer`): consumers
that read, compute, publish to one or two sinks and acknowledge in `finally`.
Hard: partial publication, at-most-once, a flag that pauses them between batches.
Correct when: predictions come in order and once, and what no fault lost is scored.

**AIOps drift monitor** (`aiops-tier/drift-monitor/app`): windows, statistical
tests, an emission cooldown in memory.

**Fault engine** (`simulation-tier/fault-engine/main.py`). State: active faults in
memory and in Redis, expiry tasks, one scenario. Hard: cancelled scenarios,
restart, Redis errors that are only logged.
Correct when: every fault is ended by some task, and the simulators see no other.

### Components without a protocol of their own

Batch training (numerical), dashboard data services and BFF (reads; the paging of
logs and the listing of entities are modelled with the pages that use them), Kong
(routing), the pages that only show a query (national dashboard, live state,
sessions, predictions, drift, overview, artifacts), adapters, exporters,
simulators, agentic AI (prompts and read-only tools; the copilot's memory is modelled
with its page), infrastructure, observability, tests. `PROJECT.json` lists them with
the reason.

### How they interact

```
 simulators -> adapters -> normalizer -> stream:norm.telemetry -> inference services
                                              |                         |
                                              v                         v
                                       online evaluator        events.* / events.anomaly
                                                                        |
          mlops drift monitor  <----------------------------------------+
                 | creates requests                                     v
                 v                                              Alert Management
      mlops:request:*  <-- dashboard (operators, schedules)             | stream:control.alerts
                 | execute                                              v
                 v                                               Policy Control -> control:sim:*
          mlops-runner -> training -> promotion -> hot reload           | (operators decide)
                                                                        v
                                                                    simulators
```

Calls: browser → dashboard-backend, auth-service and api-bff-service (through Kong);
dashboard-backend → mlops-runner (HTTP, up to 7230 s), → copilot-agent (with a
timeout). Messages: Redis streams with
consumer groups, Kafka. Shared state: Redis, the model directory,
PostgreSQL, the cookie and the sessionStorage of a browser.

## 2. Plan

Order: what acts on the platform first (trainings, actuations), then what
feeds them.

| # | Module | Models | State |
|---|--------|--------|-------|
| 1 | `RetrainingControl`, abstract `TrainingSlots` | retraining control plane | done, proved |
| 2 | `AlertManagement` | alert lifecycle | done, proved |
| 3 | `PolicyControl` | remediation | done, proved |
| 4 | `ControlLoop` | 2 and 3 composed over their stream | done; the refinement and its safety properties proved |
| 5 | `DashboardSession`, `DashboardRouting` | a tab's session with auth-service; routes, guards, redirects, menu | done; the session's safety properties and the menu proved |
| 6 | `QueryCache` and the consoles: `RequestsConsole`, `UsersConsole`, `SchedulesConsole`, `ActionsConsole`, `ModelsConsole`, `RuntimeConsole`, `RunsConsole` | the pages that change what a server keeps | done, proved |
| 7 | `LogFeed`, `EntityDashboard`, `CopilotChat` | the feed, the entity dashboard, the copilot | done, proved |
| 8 | `ModelPromotion`, `HotReload` | the files of a model and the services that poll them | done, proved |
| 9 | `RetrainingIntake` | the drift monitor's creation of requests: its tasks, duplicate detection, cooldown, second reconciliation | done, proved; due times of schedules and the composition with 1 are left |
| 10 | `InferenceService`, `OnlineEvaluation` | the consumers that score telemetry; the join of their streams with it | done, proved |
| 11 | `FaultEngine` | faults, expiry tasks, scenarios, restart | done, proved |

Abstract specifications: `TrainingSlots` (done: 1 implements it); an open-request
register for 9 is left (what it could promise is one waiting request per task, see
section 8).

"Proved" means that each safety and action property which a passing run checks is also
stated by a theorem; the liveness properties are model-checked (section 7).

## 3. Modules and code

`MC*` modules only add the constants TLC needs (assignments of requests to
models, of types to keys, symmetry sets). In each module the properties come
last: what holds, then what the documentation says and the code does not keep. The
inductive invariants behind them are in the `...Proofs` modules, which hold nothing
that models code. Operators called `...Mutant`
(or named for a plausible bug) are altered versions of a definition, used to
show that a property would notice.

### RetrainingControl

| Variable | Code |
|---|---|
| `status` | field `status` of `mlops:request:{id}`; `"none"` before creation |
| `pending` | members of the pending set of the request's model |
| `unmarked` | creators between saving a document and marking it pending |
| `old` | requests older than the pending TTL (7800 s) |
| `running` | `mlops:requests:running` |
| `modelLock` | `mlops:lock:{model}` and its owner |
| `cooldown` | models within the cooldown of their last completed training |
| `lock` | `mlops:requests:decision_lock`; `Orphan`: its holder died |
| `pc`, `req` | the next command of each REST thread and of the scheduler |
| `job`, `outcome` | the background thread of each request, what it will report |
| `training` | pipelines mlops-runner executes |
| `approved`, `faults` | history |

| Actions | Code (`dashboard-backend/main.py`) |
|---|---|
| `Submit`, `MarkPending`, `CreatorFails` | `_create_scheduled_retraining_request`, and the drift monitor's creation (`drift-monitor/main.py:471`): pending, auto-execute, or, by a cron that needs no approval (`CronRequireApproval`), born approved and waiting for an operator |
| `ApproveLoad/Save`, `RejectLoad/Clear/Save` | the approve and reject endpoints |
| `ExecAcquire` … `ExecRelease` | `_attempt_execute_retraining_request`, one command each: load, cooldown, count, model lock, SADD, save, launch; a deferral or a skip; release of the decision lock |
| `JobCall` … `JobUnlock` | `_execute_retraining_request_background` and `_release_running_controls` |
| `ReconScan/Load/Expire/Clear` | `_reconcile_pending_model_state` |
| `RunnerFinish` | `run_action` of mlops-runner |
| `WorkerFails`, `JobFails`, `JobCallLost`, `RejectClearFails`, `JobClearFails`, `Restart` | a command that raises, a broken call, an error that is swallowed, the death of the process |
| `CooldownEnds`, `ModelLockExpires`, `DecisionLockExpires`, `Age` | elapsed times |

Times enter as facts, not as clocks. A model lock lives 7500 s, a call waits at
most 7230 s, a pipeline runs at most 7200 s: hence `ModelLockExpires` only when
neither is under way. The decision lock lives 10 s while each of the commands
under it may take 2 s (the socket timeout): `LockMayLapse` says whether it may
expire under its holder.

`TrainingSlots` is the abstract service: at most `MaxParallel` jobs, one per model.
A request holds a slot from its SADD to its SREM (`SlotHolders`).

### AlertManagement and PolicyControl

Both services have one consumer and a pool of threads for REST calls. The consumer
uses blocking Redis calls inside the event loop, so the loop can hand a call to a
thread only while the consumer sleeps between reads; once in a thread, the call
runs beside the consumer. Hence `cpc = "idle"` (`step = "idle"`) in `Dispatch`
and nowhere else, and the read that may follow a full batch without a sleep
(`"read"`).

| AlertManagement | Code (`alert-management/app`) |
|---|---|
| `alerts`, `listed`, `dedup`, `stream` | `control:alerts:{id}`, `control:alerts:index`, `control:alerts:dedup:{key}`, `stream:control.alerts` |
| `batch`, `cpc`, `held`, `copy` | locals of `AlertConsumer.run_forever` and `upsert_from_event` |
| `hpc`, `op`, `hid`, `hcopy` | locals of `acknowledge` and `resolve` |
| `Read`, `ReadNothing`, `Find` … `Ack` | `consumer.py:38-78`, `alert_store.py:31-52`, `81-110` |
| `EventFails`, `AckFails` | the two `except` branches of the loop |
| `Dispatch`, `HLoad`, `HSave`, `HUndedup`, `HAnnounce`, `CallFails` | `main.py:84-103`, `alert_store.py:54-79` |

| PolicyControl | Code (`policy-control/app`) |
|---|---|
| `actions`, `index`, `byAlert`, `announced`, `actuated` | `control:actions:{id}`, `control:actions:index`, `control:actions:by_alert:{id}`, `stream:control.actions` by action, the writes of `simulation_actuator.py` |
| `alertStream`, `position`, `delivered` | the alert stream and the consumer group's place in it |
| `step`, `inHand`, `draft`; `opc`, `call`, `target`, `hash` | locals of the consumer and of the threads |
| `Rules`, `Decide` | `policy_engine.py` |
| `Read` … `Ack`, `MessageFails`, `AckFails` | `consumer.py:29-66`, `action_store.py:48-84`, `134-160` |
| `Dispatch`, `ThreadLoad`, `Actuate`, `ThreadSave`, `ThreadAnnounce`, `CallFails` | `main.py:86-116`, `action_store.py:86-126` |

Both consumers read with `XREADGROUP ... ">"`: what has been delivered is never
delivered again, so a restart or a failed acknowledgement loses it (`Restart`,
`AckFails`).

### ControlLoop

Extends `AlertManagement` and instantiates `PolicyControl` with the alert stream
mapped message by message (`Payload`). A step is a step of one of them; one of Alert
Management leaves policy-control alone (`Alerting`) and appends at most one message.
`LoopParameters` says what the two services' configurations must have in common:
the types and severities of the alerts are among those the policy rules know.

### The dashboard: QueryCache and the pages

The pages are in `react-dashboard/src`, what they call in `dashboard-backend`,
`api-bff-service` and `auth-service`; `map` in `PROJECT.json` has the lines. What the
pages share is the query cache (TanStack Query, external), of which `QueryCache` has one
entry: its data, and a fetch that is asked for, answered and lands. The answer is
what the server has when it answers, so it may be old when it lands. An invalidation
during a fetch abandons it, a poll joins it, a failure keeps the data.

In every page module the server is a variable that the other operators and services
change at any time (`...Moves`, `...Changes`), the history variables record what was
reported or seen, and the operations follow the same three steps: a handler of the page
whose guard is what the page offers (`PressCtl`, `onConfirm`, `ConfirmRequest`), the
service of the call (`Serve...`), and `onSuccess` or `onError` (`...Returns`,
`...Errs`; a call may be lost before or after it was served).

| Module | Page | What is special |
|---|---|---|
| `RequestsConsole` | `MlopsRequestsPage.tsx` | a dialog confirms an operation on a row that may be old; rows, groups and cards are computed from the list (`Rows`, `Grouped`, `Cards`); polled |
| `UsersConsole` | `UsersManagementPage.tsx`, `auth-service` users | edit, toggle, password and deletion share dialogs (`editing`, `resetFor`) and one password field; calls overlap; an edit sends what was chosen only |
| `SchedulesConsole` | `MlopsRetrainingSchedulePage.tsx`, schedules of `dashboard-backend` | a form filled from a row (`hydrateForm`), its cron expression put together on saving (`SavedForm`); a missing schedule is taken from the list |
| `ActionsConsole` | `ControlActionsLayout.tsx` and its tabs, the bell of the top bar | a call outlives its tab; policy-control reads an action, decides and saves the whole copy later (`ConsumerReads`, `OperatorReads`, `ServeCtl`, then `CtlSaved` or `SaveFails`), so a save may undo a decision (`overtaken`) |
| `ModelsConsole` | `MlopsModelsPage.tsx` | an entry per model, of which only the shown one is fetched again |
| `RuntimeConsole` | runtime controls of `MlopsOrchestrationPage.tsx`, `patch_runtime_service` | two Redis keys, written and read one after the other; a PATCH may fail between them (`PatchFails`, `halfWritten`) |
| `RunsConsole` | `MlopsOrchestrationPage.tsx`, `MlopsOperationsPage` | the logs are polled while the last answer said that the run goes on |
| `LogFeed` | `network-logs-feed.tsx`, `/live/logs` | a polled page on top of pages loaded by cursor; filters; a page is any that the rows read allow (`Pages`): equal times in any order, rows beyond the cap (`buried`, `Unread`) or of a failed AIOps query (`FeedAnsweredPartly`) missing, faults cleared late or, below a cursor, too early (`MadeUp`) |
| `EntityDashboard` | the entity page | address, list and operator move one selection (`NextSelected` is the effect) |
| `CopilotChat` | `CopilotAgentPage.tsx`, the proxy, `copilot-agent` | the proxy gives up, the agent does not; the id in sessionStorage |
| `DashboardRouting` | `router.tsx`, `ProtectedRoute`, `LoginPage`, `constants.ts` | `NextPath` is one redirect; `MenusLead` relates the two tables of roles |
| `DashboardSession` | `api/axios.ts`, `AuthProvider`, `auth-service` | one shared refresh (`refresh`), those nobody hears of any more (`strays`), rotation and the revocation on reuse (`Collides`) |

`MCConsoles` and `MCViews` put them side by side: the router mounts one page at a time
and the pages share no variable, so a behaviour picks one (`page`, `part`) and the others
rest (so does `MCPipeline` with the modules below). A run of such a module checks each page for itself, on its whole state space.

### ModelPromotion and HotReload

| Variable | Code |
|---|---|
| `trained`, `passed`, `best`, `ready` | `models/registry.json`: versions, quality gate, which is in production, which entries have the paths of a promotion |
| `exports` | `onnx_export_status` of a version's entry; a failed export names the file that is there, if any (`onnx_export.py:97`) |
| `exported`, `requested` | `models/onnx/<name>.onnx` and `models/<name>.onnx` |
| `archive`, `current`, `metadata` | `models/promoted/<name>/<version>/`, `.../current/`, `.../current/metadata.json` |
| `promoter` | where a training is in its promotion |
| `bundle`, `reader` | what a service runs, of which source and with which modification times, 0 where it does not know them; the reads of its poll or load |

| Actions | Code |
|---|---|
| `Train`, `write_registry_entry`, `_export_onnx_if_needed` | `mlops/onnx_export.py`, `models/lifecycle.py`: an export that succeeds, fails or leaves a torn file, registration by metrics alone, and the promotion the training does itself (`direct`) |
| `Archive`, `Truncate`, `CopyBytes`, `CopyStat`, `Describe`, `Record` | `promote_onnx_artifacts` of `mlops/promotion.py`: `shutil.copy2` is three steps, the metadata's rename one; no file or a torn one ends it, and the training goes on (`Synced`) |
| `ReadVersion`, `StatModel`, `StatMetadata`, `Load` | `aiops-tier/shared/model_hot_reload.py` and the loaders of the services |
| `ReadRegistry`, `LoadAgain`, `LoadOther` | what sla-assurance and slice-classifier (`FallsBack`) do when current does not load (`model_loader.py:73`): the registry's entry, the same file again, another file |
| `TrainingDies`, `ServiceRestarts` | the end of a process |

### RetrainingIntake

The drift monitor's anomaly loop, Kafka handler, cron loop and two endpoints are tasks
of one event loop. Another task may run wherever one awaits Redis, so here as well one
action is one Redis command. All keys are per model: the module is about one.

| Variable | Code |
|---|---|
| `trigger`, `gated` | the trigger type a task creates; `RETRAINING_CRON_REQUIRE_APPROVAL` |
| `status`, `creator` | `mlops:request:{id}`: its status and, as history, the task that saved it |
| `pending`, `old` | members of the pending set; requests older than the pending TTL |
| `unmarked` | history: requests that wait without a marker |
| `cooling` | the trigger's timestamp is younger than the cooldown |
| `task` | locals of each task: where it is, the ids it has read and not looked at, whether a live one was among them |

| Actions | Code (`mlops-tier/drift-monitor/main.py`) |
|---|---|
| `Begin`, `_is_in_cooldown` | the entry of `_check_model`, `_handle_kafka_drift_event`, `_create_scheduled_request`, `manual_trigger` and `trigger_scheduled_now`; drift asks for the cooldown before, schedules after the look |
| `ReadMembers`, `GetDocument` (`Seen`), `Expire`, `_clear_pending_retraining`, `_has_pending_request` | the look at the pending set, with the reconciliation inside it |
| `_create_retraining_request`, `_mark_pending_retraining`, `_record_trigger` | the creation, with its marker and the start of the cooldown |
| `MonitorRestarts`, `TaskFails` | the process starts with a look that creates nothing (`Scanning`), before any task; a command raises |
| `DashboardMoves`, `RejectionClears`, `DashboardPrunes` | dashboard-backend on the same keys, a rejection with its marker first; in detail in `RetrainingControl` |

Running requests count as approved, all ends as closed; an unused identifier is taken by
`CHOOSE`, as identifiers are interchangeable.

### InferenceService and OnlineEvaluation

The three inference services are one consumer loop with different models in it;
`InferenceService` has any number of them on one telemetry stream, event i being its
i-th message. `OnlineEvaluation` extends it with the reader of all their streams.

| Variable | Code |
|---|---|
| `telemetry`, `predictions` | `stream:norm.telemetry` and the output stream of each service |
| `delivered`, `inHand`, `answered` | the consumer group's position, and the locals of `SlaConsumer.run_forever` and its siblings |
| `enabled`, `gate` | `runtime:service:{name}:enabled`, and what `RuntimeControlGate` has cached of it |
| `from`, `cur`, `upto` | `last_ids` of the evaluator and the answer it works through |
| `kept`, `stale` | `pending_predictions`, and those of them past `EVALUATION_PREDICTION_TTL_SECONDS` |
| `lost`, `samples`, `lag` | history |

| Actions | Code |
|---|---|
| `read_group`, `publish`, `ack_message`, `is_enabled` | `sla-assurance/consumer.py:67-153`, `publisher.py`, `shared/runtime_control.py`, `ingestion-tier/shared/redis_client.py` |
| `PublishFails`, `AckFails`, `ServiceDies` | an exception before the publication, one in the `finally` block, the end of the process |
| `xread`, `Wake`, `TimesOut`, `AnswerHandled` | `online-evaluator/main.py:373-407`; a blocked XREAD is answered by the first message that comes |
| `_record_prediction`, `_evaluate_telemetry`, `_cleanup_pending` | the methods of these names |
| `EvaluationFails`, `EvaluatorRestarts`, `TimeGoesBy` | the `except` branch, which reads the rest of the answer again; the end of the process; the TTL |

The order inside one answer decides what the evaluation is worth: XREAD answers its
streams in the order asked for, telemetry first (`Turn`). A prediction is published
after its telemetry, so it is handled after it too, unless a read has left telemetry
behind.

### FaultEngine

| Variable | Code (`fault-engine/main.py`) |
|---|---|
| `_active_faults`, `faultHash` | the dictionary of that name; the fields of `faults:active` |
| `timers` | the faults whose `_schedule_fault_expiry` task sleeps |
| `_scenario_task`, `fault_ids`, `_active_scenario` | the last scenario's task (created, asleep, done), its local `fault_ids`, the name `/scenarios` reports |
| `engine` | whether `startup` has returned |
| `injected`, `stranded` | history: identifiers used; fields an outage of Redis left in the hash |

The actions have the names of the functions; `_run_scenario` gives way once, so it is two
(`ScenarioEnds`). A write to Redis may fail (`Outage`), a call may be one of several, and
the process may die (`EngineDies`); it starts with `startup`, or without Redis after
twenty attempts (`StartsUncleared`).

## 4. Runs: what is checked

| Run | Question | Properties |
|---|---|---|
| `retraining_safety` | Races: does the model lock alone keep trainings of one model apart when the decision lock may expire and the limit keeps nobody out? | `TypeOK`, `ModelExclusion`, `HumanGate`, `OwnerUnlocks` |
| `retraining_limit` | Faults: do limit and bookkeeping survive one restart, failed command or lost call? | `LimitRespected`, `JobsAreCounted`, `ImplementsSlots` |
| `retraining_progress` | With one fault anywhere, does what a living process takes come back and are stale markers pruned? Without one, is every deferred request retried? | `NothingIsLeftBehind`, `RetriedWithoutFault` |
| `alerts_safety` | Consumer against operators under one fault: counts, announcements, keys | `TypeOK`, `CountsAreHonest`, `CreatedFirst`, `DuplicateNeedsResolve`, `DedupConsistent` |
| `policy_gate` | Consumer against operators under one fault: is the human gate kept, does the record match what was applied? | `TypeOK`, `ActuationIsApproved`, `ExecutedIsActuated`, `NothingToApprove`, `LookupConsistent`, `OneActionEach`, `PendingIsLatest` |
| `loop` | Is Alert Management the environment `PolicyControl` assumes, and does every event lead to an alert and every alert to an action? | `ActionsHaveAlerts`, `ImplementsPolicy`, `EverythingIsAnswered` |
| `session` | One tab against expiries, revocations, reloads, another tab, lost answers, logins and logouts | `SessionTypeOK`, `OwnRefreshesNeverCollide`, `TabComesToRest` |
| `consoles` | Does any page change what its operator did not see or choose, or show again what it reported as gone? Do the keys of a runtime service agree? | `ConsolesTypeOK`, `NothingUnseenIsChanged`, `ReportsAgree` |
| `pipeline` | Is telemetry scored in order and once, and each prediction counted at most once? Do the files of a model and the service that runs it agree? Does the drift monitor ask for a retraining, and once? Does every injected fault end? | `PipelineTypeOK`, `CurrentIsBest`, `NothingNewIsSame`, `OneWaitsEach`, `ScoresAreSound`, `FaultsAreWatched`, `PipelineProgresses` |
| `views` | Do the pages that poll, redirect or wait come to show what the server has, each answer where it belongs? | `ViewsTypeOK`, `ShownBelongs`, `ViewsComeToRest` |

All of them pass. The two runs of [section 8](#8-disagreements-with-the-documentation)
are expected to find a violation.

Each property of a passing run is paired in `PROJECT.json` with a plausible bug
that it detects: the model lock taken without NX, an execution that does not
wait for the decision lock, an off-by-one in the limit, a deferral that deletes
another request's lock, a reconciliation that frees what a running job holds, a
thread that forgets the SREM; an event tried again after a failure, calls
served in the middle of the consumer's work, a key that is dropped for an
acknowledged alert, a new alert that is not listed; an execution that skips the
approval, a record written without the actuation, an update that keeps the old
type or status, a service that compares names and not times, a monitor that does not
wait for its look, and so on.

Some properties are conjunctions of named parts, those of the dashboard with one or more
for each page; every part has a bug of its own among those that `PROJECT.json` pairs with
the property:

| Property | Parts |
|---|---|
| `NothingIsLeftBehind` | `RunningIsReleased` (the running set, while nothing has failed), `StaleMarkersPruned` (markers of closed requests, also after a fault, of models with a schedule) |
| `EverythingIsAnswered` | `EventLands` (every event comes to an alert), `ActiveIsAnswered` (every active alert to an action) |
| `ScoresAreSound` | `PredictedInOrder` (services), `SampledOnce`, `EvaluatesInVain` (evaluator) |
| `PipelineProgresses` | `ServesCurrent` (files), `DriftIsAnswered` (intake), `TelemetryIsScored` (services), `PendingIsSettled` (evaluator), `FaultsEnd` (faults) |
| `TabComesToRest` | `DeadSessionIsNoticed`, `EveryCallSettles` |
| `NothingUnseenIsChanged` | `NoLostRoleChange`, `ToggleDoesAsItSaid`, `PasswordOfItsAccount` (accounts); `ButtonsKeepTheRest`, `EditKeepsCron` (schedules); `ExecutedAsShown` (actions) |
| `ReportsAgree` | `GoneStaysGone` (schedules), `ActionsAreFresh` (actions), `DetailsFollowReports` (models); `ServiceKeysAgree` (runtime) |
| `ShownBelongs` | `AckedIsShown` (requests); `FeedMatchesFilter`, `NoHoleInFeed` (feed); `ChoiceIsShown` (entity); `AnswersFollowQuestions`, `MemoryIsOwn` (copilot); `MenusLead` (routes) |
| `ViewsComeToRest` | `AtRest` in the end and for good: `RequestsShown`, `RunsShown`, `LogsAtTheEnd`, `NewestShown`, `Redirected`, `EntityAtRest`; and `ChatComesToRest` |

Some have exceptions, which are what the code really does:

* `FeedMatchesFilter` and `NoHoleInFeed` except a load of older events that a change of
  the filters overtook (`overtaken` of `LogFeed`), and the latter except a page that slid
  under what was loaded (`slid`). `NoHoleInFeed` is about events that were there and read
  for every answer (not in `unread`), and about moments: of several events of one time
  some may be missing.
* `OwnRefreshesNeverCollide` except a refresh of another tab or a lost answer (`disturbed`).
* `ServiceKeysAgree` except two PATCHes under way together (`crowded`) and a PATCH that has
  failed between the keys, until another is complete (`halfWritten`).
* `ExecutedAsShown` except an action that was saved from a copy whose status others had
  changed since it was read (`overtaken` of `ActionsConsole`).
* `CurrentIsBest` except after a death; that current holds the production version, except
  for congestion_5g (`direct`) and for a version whose own export failed.
* `NothingNewIsSame` and, of the bytes, `ServesCurrent` except a service that does not know
  the times of its file (`model_mtime = 0`), and congestion_5g once a training of it took an
  old export for its own (`ExportsAreNew`).
* `OneWaitsEach` except requests that wait without a marker (`unmarked`); it is about the
  requests of one task.

Four of the safety properties of the backend are conditional on `faults = 0`
(`CreatedFirst`, `DuplicateNeedsResolve`, and in `PolicyControl` `OneActionEach`,
`PendingIsLatest`): a command that fails after the save loses an announcement, a
key or an update, and the code does not repair it. They are stated without that
condition nowhere, because they would be false.

## 5. Bounds

| Run | Instance | Why enough |
|---|---|---|
| `retraining_safety` | one model, one manual and one auto-execute request, one REST thread and the scheduler, limit 2, lapsing decision lock, no faults | two requests are the conflict; the two threads can be in the execution together because the lock lapses, also for the same request; the limit of 2 leaves only the model lock |
| `retraining_limit` | two models, one request each, limit 1, one fault | only the global limit keeps the requests apart; one fault may fall on any command of any thread, or be a restart |
| `retraining_progress` | as `retraining_safety` with limit 1, no lapse, one fault | slot, lock and cooldown are all contended; the fault leaves a marker, a slot or a lock behind at any command; it may block a deferred request for good, see `slot_leak` |
| `alerts_safety` | one key, three identifiers, three events in batches of up to two, two operator threads, three calls, one fault | creation, update and re-creation after a resolution; two calls beside the consumer and a third after them |
| `policy_gate` | one alert, two messages of three severities (nothing to do, and two different recommendations), two identifiers, two threads, three calls, one fault | approve, reject or execute twice, and an update in between, are all possible |
| `loop` | one key, two events, two calls, two actions, no faults | an alert can be resolved between its events and revived by a stale update; faults are in the runs of the two services |
| `session` | two calls, two sessions, one upset (expiry or revocation on the server) | two calls share a refresh or come one after the other; a login into another session; what one upset can start |
| `consoles`, accounts | the manager's own account and another, two operations | two calls overlap, on the same account too; roles and status change elsewhere without a bound |
| `consoles`, schedules | one schedule, three operations | open, change and save; a deletion under a fetch and under a dialog |
| `consoles`, actions | one action that may take two types, four operations | approve and execute on two tabs, with reads and saves of the consumer and of another operator between |
| `consoles`, models | two models, three operations | select, change, select another, come back |
| `consoles`, runtime | one service, four operations | two PATCHes one after the other or together, one that fails between its keys and one after it, and a GET between their keys |
| `pipeline`, files | two trainings, one fault | a promotion and the one that replaces or repeats it, with exports that succeed, fail or are torn; a death over current, and the fallback of a service after it |
| `pipeline`, intake | two requests, two tasks of any triggers, one fault | a request of each task, or two of one; the second task's commands, the dashboard and time fall between any two of the first's; one failure between look, save, marker and cooldown, or a restart |
| `pipeline`, scores | one model, three events in batches of two, reads of one message a stream, two faults, a service that is paused at times | with two faults a prediction can be lost and another be counted and read again; a sample needs both a lost event and a read that leaves telemetry behind |
| `pipeline`, faults | two faults, two outages or deaths | a fault by itself and one of a scenario, two scenarios that replace each other, or one of both faults; an outage that leaves a fault behind and a restart after it |
| `views`, requests | two requests, of which at most one exists at the start, two changes | a row appears, is decided and changes under the dialog |
| `views`, runs | one run, three operations | launch, logs opened, closed and opened again |
| `views`, feed | three events of two categories at three times (two at first, none at the last time) in pages of one, two operations | a page, the one below, and one that slides between, with equal times, a late event, capped and failed reads; a load and a change of filters |
| `views`, routes | three moves | login, a move and a change of user |
| `views`, entity | two entities, two operations | a pick and a move in the history, while entities come and go |
| `views`, copilot | two operators, four operations | question, reset or leave, question of another operator, return |

Named bounds of the models: `MaxFaults`, `MaxPolicyFaults`, `MaxEvents`, `MaxCalls`,
`MaxMessages`, `MaxDecisions`; in the dashboard `MaxUpsets`, `MaxUserOps`, `MaxScheduleOps`,
`MaxCtlOps`, `MaxModelOps`, `MaxRuntimeOps`, `MaxRequestChanges`, `MaxRunOps`, `MaxEvents`,
`MaxTime`, `MaxFeedOps`, `MaxMoves`, `MaxEntityOps`, `MaxChatOps`; `MaxTrainings`,
`MaxPromotionFaults`, `MaxIntakeFaults`, `MaxEngineFaults`; `MaxTelemetry`, `MaxScoringFaults` and `Paused` (the services that are paused at times); `LogLimit` is the size of a page of the feed; `Scheduled` (models with an enabled schedule) and `CronRequireApproval` are settings of the retraining control plane; `MaxBatch` and `MaxRead` stand for the read counts of
the consumers. The proofs hold for all of them, and for all sets of requests, models, threads, alerts,
keys, tokens and faults.

Symmetry is used for alerts, operators, actions and threads in safety runs only.
Deadlock is checked in every backend run: an idle consumer keeps polling and an idle
scheduler has passes to make, so no state is really final. It is not checked in
`session`, `consoles`, `views` and `pipeline`: a page that is not polled, whose operator has done all he
wanted, really stops, and so does a file nobody trains a successor of.

## 6. Fairness

`RetrainingControl`: threads of a live process keep running (weak fairness of every
handler and background step), pipelines end (`RunnerFinish`: mlops-runner has a
timeout), locks and cooldowns with a TTL expire. The scheduler's passes recur every few
seconds over all auto-execute requests: strong fairness of `ExecAcquire(Scheduler, r)`,
since another pass may be under way at each moment but does not stay. The pending markers
of a model are looked at when one of its schedules is due (`main.py:998`), at startup, and
by the drift monitor when drift or a schedule calls for a request; only the first recurs
whatever else happens. So `ReconScan(r)` has strong fairness for the requests of models
with an enabled schedule (`Scheduled`) and none for the others, and `StaleMarkersPruned`
promises nothing about those. `DeferredIsRetried` and `RetriedWithoutFault` need one thing
the code cannot give, that operators stop holding the decision lock at every one of those
passes, and say so (`OperatorsRest`).

Alert Management and Policy Control: weak fairness of the consumer's steps and of
each thread's. Nobody has to send events or to call.

`DashboardSession`: the pages of a signed-in tab go on polling (`SendCall`), calls and
refreshes are answered or fail, and the tab's own steps run. Nobody has to log in or out. The pages of `views`: a poll
recurs while its page is mounted, and fetches end. Requests have strong fairness for
the answer and its landing, since a poll or an invalidation may abandon one fetch, but
not every fetch for ever; the others need weak fairness only. Redirects and effects are
run by React, navigations land. A question to the copilot goes on or the proxy gives it
up; the agent itself may never end. A training that runs goes on or dies, and a
service keeps polling. The drift monitor's loop polls for ever, under drift that stays
(`TaskSteps(Monitor)`); its other tasks need not come. Inference services and the
evaluator are endless loops that survive their exceptions and are started again when
they die, so each goes on, and predictions get older (`ScoringFairness`); nobody has to
publish telemetry or to resume a paused service. The fault engine is started again when it
dies, and a task that sleeps wakes (`EngineWorks`); nobody has to inject, start or stop
anything, and no scenario has to end.

No fairness is assumed of operators, faults, events or other creators of requests.

## 7. Proofs

| Module | Proves about | Assumptions |
|---|---|---|
| `RetrainingControlProofs` | `RetrainingControl`, its refinement of `TrainingSlots` | `Parameters` |
| `AlertManagementProofs` | `AlertManagement` | `Parameters` |
| `PolicyControlProofs` | `PolicyControl` | `PolicyParameters` |
| `ControlLoopProofs` | `ControlLoop`, its refinement of `PolicyControl` | `Parameters`, `LoopParameters` |
| `OnlineEvaluationProofs` | `InferenceService`, `OnlineEvaluation` | `ServiceParameters`, `EvaluationParameters` |
| `PipelineProofs` | `ModelPromotion`, `HotReload`, `RetrainingIntake`, `FaultEngine`, and `MCPipeline` as a whole | `PromotionParameters`, `IntakeParameters`, `FaultParameters`, those of the scoring modules |
| `DashboardProofs` | `DashboardSession`; `QueryCache`, `RequestsConsole`, `RunsConsole`, `LogFeed`, `DashboardRouting`, `EntityDashboard`, `CopilotChat`, and `MCViews` as a whole | `SessionParameters`, `NoTokenIsNone`, the `...Parameters` of the views |
| `ConsolesProofs` | `QueryCache`, `UsersConsole`, `SchedulesConsole`, `ActionsConsole`, `ModelsConsole`, `RuntimeConsole`, and `MCConsoles` as a whole | the `...Parameters` of the pages, `NoStore`, `NoCtlRecord`, `NoPatchIsNone` |

The theorems hold for every value of the constants that satisfies these assumptions:
finiteness of the sets of requests and entities, limits and read counts of at least one, numbers where
there are bounds, and the distinctness of the "nothing" values. TLC evaluates the
assumptions in the runs.

All proofs have the same plan: type correctness first, then an inductive
invariant that says what a thread that has come to a certain command knows.

* **`RetrainingControl`.** `LockDiscipline`: who starts, carries out or finishes a
  request owns its model's lock, and alone does so. It is inductive by itself and
  gives `ModelExclusion` and `OwnerUnlocks`, with or without a lapsing decision
  lock. `SlotDiscipline` (what holds a slot is in the running set) gives
  `JobsAreCounted`. `ApprovalDiscipline` (whoever has read `approved` can rely on an
  approval having happened) gives `HumanGate`. `LimitDiscipline` needs
  `LockMayLapse = FALSE`: the decision lock's holder is then the only worker in an
  execution, so the count it has read is still an upper bound at its SADD, other
  threads only remove. It gives `LimitRespected`, and with the others the
  refinement of `TrainingSlots`.
* **`AlertManagement`.** `HoldingDiscipline`: the alert in the consumer's hand, its
  copy and the event agree on the key; keys lead to listed, saved alerts; threads
  hold copies of saved alerts. This gives `DedupConsistent`. `CountDiscipline`: a
  count, on disk or in any copy, plus the events of the batch that are still to be
  counted, never exceeds the events read. It is stronger than `CountsAreHonest`
  because a stale copy is a count that may still be saved. The properties without
  failures need to know where in its work the consumer may be when something is missing:
  `AnnouncementDiscipline` (an alert without an announcement is the one in the
  consumer's hand, and no operator's thread has it, as calls are handed out only while the
  consumer sleeps) gives `CreatedFirst`. `UniquenessDiscipline` (until a resolution of
  its key, an alert is the only one, active, and its key points to it or is about to)
  with `StatusDiscipline` (only a resolution deletes a key) gives `DuplicateNeedsResolve`.
  `MessageDiscipline`, a theorem itself, says what the reader of the stream relies on.
* **`PolicyControl`.** A like `HoldingDiscipline` gives `LookupConsistent`.
  `GateDiscipline`, with `ExecutedIsActuated` and `NothingToApprove`: an approved
  status and an actuation under way are backed by an approval, an execution about
  to save has applied. It gives the three gate properties together; none of them
  is inductive alone, since each status is written from a copy read earlier.
  `ActionDiscipline` (without failures an action is its alert's, or the consumer is about
  to let it be) gives `OneActionEach`. `PendingDiscipline` gives `PendingIsLatest`: it
  extends the property into the middle of the consumer's work by counting the message in
  hand once the action has been written for it (`Settled`). A pending action in a thread's copy
  does no harm, because a thread never saves it as pending.
* **`ControlLoop`.** `LoopImplementsPolicy`: a step of policy-control is one of
  `PolicyControl` as it is. A step of Alert Management leaves the stream, and so the
  mapped stream, or appends one message, which is about the alert its writer holds and
  carries that alert's key (`MessageDiscipline`; the key of an alert never
  changes); hence messages about one alert keep one type, which is all that
  `PolicyControl` asks of its environment. Every theorem about `PolicyControl` then carries
  over, as `LoopKeepsTheGate` does. `ActionsHaveAlerts` joins one theorem of each service:
  an action is about an alert of a message (`ActionsAreAsked`), and messages are about
  saved and listed alerts (`MessageDiscipline`).
* **`ModelPromotion` and `HotReload`.** `PromotionDiscipline`: without deaths, current is
  torn only in the middle of a copy, and only what is no torn file is copied; without
  direct promotions besides, and if the export of the registry's choice succeeded, a
  training on its way promotes that choice, each step from a file of that version. It gives
  `CurrentIsBest`. `NothingNewIsSame` needs to know what
  a modification time stands for: `StampsAreUnique` (equal times, equal bytes),
  `SourcesAreFresh` (what will be copied over current is current itself, has its content or
  is newer than whatever a service has read) and `LoadedOrGone` (bytes loaded under the time of
  another content: that time can never be current's again).
* **`RetrainingIntake`.** `OneWaitsEach` follows from `KnownRequests` (what is marked or
  being looked at exists, so an unused identifier is in nobody's hands) and
  `MarkersAreThere` (what waits has a marker, is about to get it, or is in `unmarked`) and
  `LookDiscipline`: a task that goes on to create has seen each of its own marked
  requests leave the pending set, and nobody but itself can put one there.
* **`InferenceService` and `OnlineEvaluation`.** `BatchDiscipline` (what is scored lies
  below the event in hand) gives `PredictedInOrder`; `NothingSkipped` says that a service
  which lost nothing has scored everything below it. `OnceDiscipline`: what is kept or
  counted stands in its stream before the reader's position, so with the order it does
  not come again; it gives `SampledOnce`. `JoinDiscipline`: while reads leave no telemetry
  behind, or nothing was lost, the answer in hand has no prediction beyond its telemetry,
  so what is kept is about telemetry that has gone by; it gives `EvaluatesInVain`.
* **`FaultEngine`.** `FaultsAreWatched` is inductive together with the types: whatever
  ends a task, a timer or a scenario also takes the faults it watched, and a field that
  stays in the hash is history (`stranded`).
* **`MCPipeline`.** A step of the whole is a step of one part while the others rest
  (`PartsMove`), so the types of the parts give `PipelineTypeOK`.
* **`DashboardSession`.** `RefreshDiscipline`: while the tab is alone, cookie, shared
  refresh and sign-in hold tokens their sessions have issued last, and the cookie is behind
  only while the answer that replaces it is on its way. It gives
  `OwnRefreshesNeverCollide`, which is not inductive: a collision comes from a token
  that was sent some steps before.

* **`MCConsoles`.** One step of the whole is a step of the page that is mounted
  (`OnePageMoves`), and each page has an inductive invariant over what its cache entry
  shows and the answer on its way, what is under way, and the server. The lemmas about an
  entry (`EntryTypes`, `EntryData`, `EntryStage`) are shared. What is reported is never
  older than what will be shown: `ListDiscipline`, `CtlListDiscipline` and
  `DetailDiscipline` say of an answer that is about to land what `GoneStaysGone`,
  `ActionsAreFresh` and `DetailsFollowReports` say of what is shown, which holds because an
  invalidation abandons a fetch that was answered before. `CallDiscipline` (a call carries a
  role only if its operator chose one, a password only where it was typed) gives what
  auth-service does with a call in whichever state it finds the account;
  `FormDiscipline` ties an update to the form, so other buttons leave the times alone;
  `CtlCallDiscipline` says that an execution is about an action decided when it was
  shown, and such an action keeps its type (`Still`); `SaveDiscipline` that a copy somebody
  is about to save leaves it so, unless its status was changed since it was read, which is
  when the action goes to `overtaken`. `PatchDiscipline` follows the
  keys of a service through the middle of a PATCH, and past one that fails there.

* **`MCViews`.** Again one part moves at a time (`OnePartMoves`), and `ViewsInv` is the
  conjunction of an invariant for each.
  - Requests: `RequestsDiscipline` (no answer that will be shown is older than the
    operation that was reported, for the report abandons the fetches that were
    answered before) gives `AckedIsShown`.
  - Runs: `LaunchDiscipline` (the confirmation on Operations is open only while no
    launch is in flight) gives the single launch in `RunsTypeOK`, which is not inductive:
    nothing but the closed dialog keeps a second one from being sent.
  - Feed: what is proved is about times. A page that is made from all events before its
    cursor is `Complete`: it misses no time between its last event and its newest one, or
    its cursor (`PageIsComplete`, which needs that a finite set of numbers has a least
    element). Events that come late or are not read for an answer go to `unread`, so every
    page is complete for the others, and an event that comes on time is not below the newest
    (`TimesDiscipline`), so it spoils no page. `PagesDiscipline` says so of all entries of
    the cache, `LoadDiscipline` of a load of older events, as long as no change of the
    filters overtook it, and `OlderDiscipline` that what is shown has no gap above the
    cursor, as long as the page did not move. It gives `FeedMatchesFilter` and `NoHoleInFeed`.
  - Routes: `MenusLead` is about the two tables of roles in the code and holds of every
    user, without an invariant beyond the types.
  - Entities: `ChosenDiscipline` (what was asked for last is where a navigation under way
    leads, and else what the address names) gives `ChoiceIsShown`, as the page takes
    its entity from the address whenever that is listed.
  - Copilot: `AskDiscipline` (the page waits for one question, the last that was said)
    makes `AnswersFollowQuestions` inductive: a late answer to a question of another
    conversation is no longer seen. `SessionsAreOwn` (a session is named after the
    operator that asks in it, in the browser's store, in calls and in the agent's memory)
    gives `MemoryIsOwn`.

Only model-checked: the liveness properties (`NothingIsLeftBehind`, `RetriedWithoutFault`,
`EverythingIsAnswered`, `TabComesToRest`, `PipelineProgresses`, `ViewsComeToRest`). They
need the fairness of section 6, and what is fair is said with `ENABLED`.

Out of TLAPS's reach here are liveness and `ENABLED`; no module uses `RECURSIVE`.

## 8. Disagreements with the documentation

| Run | The text | What happens |
|---|---|---|
| `slot_leak` | "Deferred by global concurrency limit (…). Auto-retry will continue." (`main.py:1829`) | a restart leaves its request in the running set, which nothing repairs: every retry is deferred for ever |
| `executed_twice` | "Only APPROVED actions can be executed." (`action_store.py:117`) | two executions that have both read the approved action apply it twice |

The same steps make further sentences of the documentation too strong; they are
not separate runs because they add no new cause. Stale saves: a rejected request is
approved, deferred or expired by who read it before ("`rejected` is a terminal state",
`dashboard-backend/README.md:182`; `RejectedIsTerminal` of `RetrainingControl` states it
and does not hold), a resolved alert may become acknowledged (`alert_store.py:59`), a terminal action be decided again
(`control-tier/README.md:276`). A stop between save and key: a second action for an
alert (`control-tier/README.md:137`). The expiring decision lock: the limit may be
exceeded (`LimitRespected` with `LockMayLapse = TRUE`). The cooldown is read before
slot and lock are taken and may begin in between (`dashboard-backend/README.md:182`).
Requests of schedules without approval are executed unapproved
(`api-dashboard-tier/README.md:190`): `HumanGate` is stated accordingly. A broken call frees
slot and lock while the pipeline goes on ("Only one model trains at a time",
`MlopsRequestsPage.tsx:265`); a stale update revives a resolved alert whose key is
gone, and the next event creates a second one ("Deduplicates repeated active alerts",
`control-tier/README.md:61`).

Found with the models of the files, the intake and the dashboard:

* `VersionHoldsItsModel` of `ModelPromotion` does not hold where a training promotes its
  own export (congestion_5g): `_export_onnx_if_needed` returns the file
  `models/<name>.onnx` that the first promotion left, so the second version's directory,
  and current, get the first version's model. The same path promotes a model that has
  failed the gate (`mlops-tier/README.md:82`).
* A training that dies over current leaves it torn or undescribed until a better version
  is promoted. congestion-detector keeps what it has loaded; sla-assurance and
  slice-classifier fall on to what the registry names, and the bundle they get that way
  has modification times of 0.
* "Return true when promoted/current metadata or model bytes changed"
  (`aiops-tier/shared/model_hot_reload.py:52`) does not hold of such a bundle: the
  comparisons of times are skipped (`model_hot_reload.py:61-64`), so bytes copied later
  under the version it carries are nothing new to it (`NothingNewIsSame` and `ServesCurrent` except it).
* A failed export is a status, not an exception (`onnx_export.py:97-105`), and the gate reads
  metrics alone (`lifecycle.py:191`). The version becomes production, and then either
  nothing is copied (`missing_onnx_artifact`, `promotion.py:325`, or an error that is only
  printed, `lifecycle.py:246`) or the export of a former version is copied under its name.
  `VersionHoldsItsModel` speaks of successful exports only.
* "Create a drift retraining request; skip if one is already pending"
  (`drift-monitor/main.py:538`) holds of one task and of marked requests (`OneWaitsEach`): two
  tasks that look before either has marked its request create one each, and both record a
  cooldown; and a fault between the save of a request and its marker (`main.py:508`) leaves one
  that waits for an operator unseen, beside which the same task creates a second.
* The marker of an ended request goes when the dashboard starts, when a schedule of its model
  is due (`dashboard-backend/main.py:998`), and when the drift monitor starts or is about to
  create a request (`drift-monitor/main.py:541`). Where none of these comes, it stays until
  the TTL of its set.
* A scheduled request that needs no approval gets no marker
  (`drift-monitor/main.py:511`), so it is never a duplicate for the next: only the
  cooldown keeps schedules apart. `POST /retraining/scheduled/trigger` reads whether the
  monitor is enabled and creates requests regardless (`drift-monitor/main.py:969`).
* The evaluator counts a prediction when its telemetry goes by after it
  (`online-evaluator/main.py:331-346`), but a prediction is published after its
  telemetry, and within a read telemetry is handled first (`main.py:386-405`). So the
  rolling accuracy of `aiops-tier/README.md:58-75` has samples only where reads fell behind and
  the service had lost events (`EvaluatesInVain`); else predictions wait for their TTL.
* The feed offers log categories the BFF does not know (`logsApi.ts:55-66`,
  `influx_logs.py:27-34`) and refuses: a feed for which one of them is chosen shows an
  error (`Served` of `LogFeed`).
* The map links to the entity dashboard with the id of a region
  (`tunisia-network-map.tsx:224`), which is no entity: the page shows its first one.
* The pages of the feed begin strictly below the time of the last event shown
  (`influx_logs.py:573-577`): further events of that very time are never listed, and
  `fault_poller` writes all the faults of a poll with one time (`telemetry-exporter/main.py:62-92`).
  Rows beyond the newest 5000 of a measurement are not read, and a failed query of the AIOps
  measurements is an empty answer (`influx_logs.py:372-376`). A page whose window ends below a
  fault's last report shows that fault as cleared. `NoHoleInFeed` says what is left.
* A runtime PATCH of which only the first SET is made leaves `enabled` and `mode` apart until
  the next complete one (`dashboard-backend/main.py:2614-2615`): `ServiceKeysAgree` excepts
  exactly those services.
* A stale save of policy-control's consumer undoes an approval (`action_store.py:57-61`). The
  action may then get another type and another approval, and an Execute pressed on the row
  of the first applies a type its operator never saw (`overtaken` of `ActionsConsole`).
* An action with nothing to do is created executed, which is terminal: an alert that
  escalates afterwards changes nothing (`action_store.py:65`).
* A resolution deletes the key of its entity and category whoever holds it
  (`alert_store.py:76`): after a crash or a stale save that may be a newer alert's.
* The filters of the predictions page do not go back to the first page
  (`PredictionsCenterPage.tsx:48`), so a narrower filter may show an empty page.

* Starting a scenario does not end the faults of the one it replaces: they go on beside the
  new ones until their own expiry, while `/scenarios` reports the new scenario alone
  (`fault-engine/main.py:175`). A field whose HDEL fails, or that is there when the engine
  starts without Redis, stays in `faults:active` until a later restart (`stranded`).

## 9. Abstractions, and what is not modelled

* A background thread may start before the handler that launched it has returned,
  and handlers may begin while a pass of the scheduler is under way, although the
  pass blocks the event loop: more behaviours than the program has.
* The lease and metadata keys beside the pending set are left out: they end with
  the pending TTL, and all that is ever decided by them is to drop a marker as old as
  that (`main.py:695`).
* `RetrainingControl` and `RetrainingIntake` are not composed: each has the other's side
  of a request as steps of its own (`Submit`, `MarkPending`; `DashboardMoves`,
  `DashboardPrunes`). When the counts of anomalies or the clock call for a request is a
  choice (`Begin`).
* The several writes of one actuation are one step: all of them set fixed values
  and nothing reads them together.
* Streams are not trimmed (the code keeps the last 10000 messages) and identifiers
  are never reused.
* Severities, types and statuses are kept; titles, evidence, timestamps, metrics,
  logs and HTTP bodies are not.
* mlops-runner is one step that ends a pipeline. After its own timeout it answers
  while the pipeline in the container may go on; for the control plane that is a
  lost call.
* Redis is assumed to keep what it acknowledged: neither the loss of its last
  second of writes is modelled, nor the eviction of keys under memory pressure
  (`infrastructure/docker-compose.yml` runs it with `--maxmemory 512mb
  --maxmemory-policy allkeys-lru`, so any key may go, a lock or a request too).
* Pages: the effects of a render run before the operator's next event; sorting, search
  fields and layout are left out where no property is about them; a validation of a form
  that only refuses is the guard of its button. What other operators do is any change the
  server accepts.
* The registry of one model is written at once, the copy into a version's directory is one
  step, modification times are distinct, and of a model's two files only the one the
  services load is modelled. A torn file does not load.
* Durations of faults and scenarios are left out: a task that sleeps may wake at any time,
  and a task that is created runs before or after any other.
* What a prediction says is left out: inference, labels, the metrics of the window, and
  the copies in state hashes, Kafka and InfluxDB. Every telemetry event has an id of its
  own, by which it finds the predictions about it.
* The feed: the BFF's cache of 2 s (`influx_logs.py:89`) is left out, and so are its filters other than
  the categories. Two events of one category, entity and time have one id, and are
  one event in the model (the code lists both, and counts them twice).
* Whether a service falls back to the registry (`FallsBack`) is its loader's and does not
  change. congestion_5g, the model whose training promotes directly, is
  congestion-detector's, which does not.
* Pages that show a query and change nothing (national dashboard, live
  state, sessions, predictions, drift, monitoring, overview, artifacts) are not
  modelled: their one step is the query cache's. The drift page's trigger ends in
  `Submit` of `RetrainingControl`.
* Components not modelled at all are listed with their reasons in `PROJECT.json`
  and in section 1; batch training, the prediction API, adapters, simulators and
  the BFF are numerical or stateless and will stay out.
