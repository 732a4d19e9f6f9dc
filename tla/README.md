# RevenueGuard: a TLA+ verification project

RevenueGuard takes failed payments from Razorpay, lets an experiment arm propose a recovery action for each, passes the proposal through deterministic guardrails and a human approval gate, and executes it. The modules here model the parts in which processes share state (webhook handlers, workers, approval calls and dashboards around PostgreSQL, a Redis list, a sliding window, a circuit document and a pub/sub channel) and the offline evaluation that has to agree with them. TLC checks small instances; TLAPS proves the main safety results for every value of the constants.

## The system

| Part | State it keeps | Operations | What is hard about it | What makes it correct |
|---|---|---|---|---|
| Webhook intake (`webhooks/razorpay_handler.py`) | `webhook_events`, `recovery_cases` | `handle_razorpay_webhook` | at-least-once delivery, check apart from insert, commit apart from enqueue, crash or database error between | one case per event, committed before it is queued; no event lost; no case forgotten |
| Batch simulation (`api/main.py`) | `recovery_cases` | `simulate_batch` | one commit, many enqueues | as above |
| Recovery queue (`redis_client.py`) | list `recovery_queue` | `enqueue_recovery_case` (LPUSH, 3 attempts), BRPOP | an attempt that timed out may have pushed; a popped id is gone | duplicates do no harm; a lost push is noticed |
| Recovery worker (`worker.py`) | status, `retry_count`, `last_retry_at`, action, approval and audit rows | `worker_loop`, `process_case`, `_persist_result`, `_record_failure` | several workers on copies of one id, a snapshot read before the row lock, side effects before the commit, crash, failing graph | status agrees with the tables, retry cap and cooldown over many runs, every queued case is settled |
| Recovery graph and arms (`agents/`, `experiments/`) | the run's state | health, arm, baseline or diagnose/strategize/select, policy, approval or execution, audit | the model may answer anything | only proposals the guardrails allow are executed |
| Policy engine (`guardrails/policy_engine.py`) | none | `check_all`, `needs_approval`, `has_valid_approval`, `assert_approved` | boundaries, time passing between two checks | see the worker and the gate |
| Approval gate (`guardrails/hitl_gate.py`, `api/main.py`) | `recovery_approvals` | `request_approval_node`, `approve`, `reject` | expiry during a run, repeated approve, reject after approve, lost enqueue | no high-value action without a valid grant for its case; an approved case runs again |
| Execution (`agents/execution_node.py`) | Razorpay payment links | `execute_action` | link made before the transaction commits, idempotency key looked up after it | one link per key |
| Circuit breaker (`gateway_health/circuit_breaker.py`) | Redis document per bank and rail | `evaluate`, `record_probe_result` | GET, decide, SET by several processes | open until the cooldown is over, half-open decided by probes |
| Gateway statistics (`gateway_health/aggregator.py`, `downtime_monitor.py`, `agents/health_node.py`) | Redis sorted sets | `record_outcome`, `get_stats`, `get_unified_health` | counts read key by key while others record, clean and keys expire; a failing command | no count older than the window; failing outcomes are noticed |
| Event fan-out (`api/events.py`) | connections of each API process | `publish_event`, `relay_redis_events`, `broadcast` | a set changed while it is iterated, a publish that fails after it worked | order kept, an event once, a failing client hurts nobody |
| Experiment assignment (`experiments/assignment.py`, `agents/experiment_node.py`, `api/main.py`) | experiment and assignment rows, the arm of a case | `lifespan`, `_create_default_experiment`, `assign_experiment`, `experiment_results` | two startups at once, a split changed between two runs, look-up apart from insert, failing runs | one assignment per case, a stable arm, results that count the assigned cases |
| Normalizer, generator, evaluation (`integrations/normalizer.py`, `data/generator.py`, `evals/batch_runner.py`) | none | `_classify_failure`, `generate_batch`, `_evaluate_event` | three tables of failures and two copies of the agent's decisions that must agree | the evaluation measures the system that exists |
| Triage model, bandit, LLM and Razorpay clients, analyzer, read API, checkout, dashboard, demo | | | numeric, external, or reads only | |

**How the parts interact.** A handler commits a case, then pushes its id. A worker pops the id, reads the row, and with the update to `triaging` takes the row's lock. It then reads the most recent approved approval, runs the graph on what it has read, and commits all results in one transaction; an exception rolls back and marks the case failed. Above the high-value threshold the run ends in an approval request; `approve` commits and pushes the id again. While it runs, the graph reads the sliding window and evaluates the circuit breaker, as the API does, and draws the arm of the case. The worker publishes what it has processed; every API process relays the channel to its dashboards. Handlers and workers communicate only through the database and Redis.

## Modules

| Module | Models | Composes |
|---|---|---|
| `RecoveryPolicy` | the decisions of a run as operators: proposals of both arms, channel choice, `CheckAll`, `NeedsApproval` | |
| `RecoveryPipeline` | workers, queue, approval API, tables | extends `RecoveryPolicy`, refines `ApprovalGate` |
| `ApprovalGate` | abstract: what the human gate promises | |
| `WebhookIntake` | webhook and batch handlers up to the worker's lookup | refines `CaseLedger` |
| `CaseLedger` | abstract: what the intake of cases promises | |
| `CircuitBreaker` | the breaker's operations on the shared document | its steps against those of `Circuit` |
| `Circuit` | abstract: the breaker with atomic operations | |
| `GatewayHealth` | the sliding window, its callers and the circuit it drives | extends `CircuitBreaker` |
| `EventFanout` | publish, relay, broadcasts and connections of one API process | |
| `ExperimentAssignment` | startup, the arm of every run, assignment rows, redeployment | |
| `OfflineEvaluation` | synthetic failures and their evaluation next to the live decisions | extends `RecoveryPolicy` |
| `MC...` | values for TLC | |
| `...Proofs` | theorems about the module of that name | |

### RecoveryPipeline and the code

A worker's `pc` names the await it is at.

| Action | Code |
|---|---|
| `Pop` | `worker_loop`, BRPOP |
| `Load` | `process_case`, the SELECT of the case: the retry history the run will use |
| `Lock` | the autoflushed `triaging` update and `_active_approval` |
| `Decide` | `enrich_with_health`, the arm's decision, `select_channel` |
| `GraphFails` | an exception of triage, diagnosis or strategy |
| `PolicyBlocks`, `PolicyAllows` | `policy_check_node` and `_route_policy` |
| `RequestApproval` | `request_approval_node` |
| `ExecuteAction`, `ApprovalRequired`, `PaymentLinkFails` | the outcomes of `execute_action` |
| `Persist`, `PersistFails` | `_persist_result` and the commit |
| `RecordFailure` | rollback, `_record_failure`, commit |
| `Crash` | death of the worker process |
| `Approve`, `Reject` | the handlers up to their commit |
| `Enqueue` | `enqueue_recovery_case`: no copy, one, or several |

`tickets` are handlers between commit and push. `performed` and `granted` are history: what the execution adapter accepted and the approvals a human ever granted. An uncommitted `triaging` is visible to nobody and is therefore only a lock. The database is PostgreSQL at READ COMMITTED, as deployed: the first UPDATE locks a row, a waiting transaction goes on after the other's end with what it had read, foreign keys are enforced.

Approximations: the arm of a case (which `ExperimentAssignment` is about), its amount, consent and contact data do not change; one approve call per approval is in flight at a time (`tickets` is a set); rows that are only ever added and never read back by a run (audit, gateway health) are left out, except for the foreign key that can make the commit fail.

### WebhookIntake and the code

`Deliver`, `Refuse`, `Duplicate`/`NewEvent`, `HandlerRaises`/`Persist`/`PersistOther`/`UniqueViolation`/`DbError`, `Enqueue`, `Answer` are the handler in the order of its numbered steps; each exit is an action. `Malformed` are the signed events whose payload makes the handler raise after the duplicate check, for a failure in `normalize_razorpay_event` (notes that are a list, a null email or contact): `HandlerRaises` rolls back and answers 500, on every delivery. `Persist` is one transaction for event row and case row. An answer may come too late for Razorpay, which then delivers again: enqueueing alone may take longer than the five seconds the handler is given. `SimulateBatch` is the other producer; `EmitFails` ends it in the middle, when the event after a push raises (see `EventFanout`). `Take` is the worker's pop and its lookup, which drops an id without a row. Razorpay is external and modelled by what the handler's duplicate check is for: it delivers an event, perhaps several times at once, until it has seen a 2xx.

`LedgerSpec` maps the committed cases to the ledger's open ones, the failure events Razorpay has seen a 2xx for to its settled ones and `handled` to its taken ones. The ledger settles an event only if it has a case: with it, a lost case is never one whose sender has been told to stop before the case was committed (a lost push after the commit is `lost_case`).

### CircuitBreaker and the code

One bank and rail. `Get` is the GET that starts each operation; `Save` and `SaveProbe` decide on the document read and SET it; `Return` is every exit without a SET, a Redis failure included. The verdict of the statistics is any. `Probers` are the clients that call `record_probe_result`; in `backend/` there are none. The run has a prober so that the whole class is exercised; `GatewayHealth` has none, like the deployed system.

The API and the worker evaluate the same key, so that between the GET and the SET of one the other may SET. Then the breaker is not the atomic `Circuit`: a trip may be overwritten by a closed document read before it, a probe may be lost. `OnlyOvertakenWritesDiverge` says that this is all that can go wrong: every step is one of `Circuit` (or none), unless it ends a call whose document has been overwritten since it was read (`Behind`), and a call only gets behind by a SET.

### GatewayHealth and the code

One bank and rail, the 15-minute window. `window` holds, per outcome, the members of its sorted set, each with its score (`at`) and what its uuid makes of it (`id`); a set without members is a key that does not exist. `ttl` is the key's expiry, `None` for a key without one or no key.

| Action | Code |
|---|---|
| `AskHealth` | the worker's `enrich_with_health` or the API's `gateway_health` calls `get_unified_health` |
| `SimulateOutage`, `SeedHealth`, `Recorded` | the loops of `simulate_outage` and of `demo/serve.py`, and what follows them |
| `RecordOutcome`, `SetExpiry` | `record_outcome`: ZADD with ZREMRANGEBYSCORE, then EXPIRE |
| `KeyExpires` | Redis, external |
| `CleanupWindow`, `CountOutcome` | `get_stats`: the cutoff and the removals, then one ZCARD per outcome in the order of `OUTCOMES` |
| `ReadCircuit`, `Decide` | `evaluate` (`CircuitBreaker`'s `Get`, `SaveVerdict` and `Return`) with the counts read, and the downtime override on the answer |
| `VerdictUnread` | the SET is stored, but its reply or the second GET of `get_health` fails: the caller falls back or answers 500 |
| `RedisFails` | any command raises: the worker's healthy default, the API's 500 |

The removals only drop scores that are too old and are therefore one step with the ZADD or the cutoff before them; ZCARDs, EXPIRE, GET and SET are steps of their own. Redis drops a key with its last member, and EXPIRE on a key that has gone does nothing: a key that expires between ZADD and EXPIRE takes the outcome with it. `OutageIsAnswered` is therefore about an outage that has lost one outcome (`OutageWeighs`); TLC reaches such a state, and the theorem shows that no second one can be lost. What the second GET of `get_health` reads only serves the displayed retry time. The rate is compared as `100 * technical > ThresholdPct * total`, without the rounding to six places. `get_all_banks_health` lists rails by their `success` keys; a rail whose outcomes all failed is therefore never asked about by the dashboard, which `AskHealth` of the API does not rely on: the worker asks for the rail of its case. `logged` is history.

### EventFanout and the code

`connections` is the manager's set. `cast[t]` is the `for` of task `t` over it: the members it was over when it was last looked at, those not yet visited, the client whose send is awaited (`at`) and the disconnected list. There is no await between the start of the loop and its first send, nor between one send's return and the next send, so that each is one step: `Begin`, within `TakeNext`, `Fallback` and `EmitLocally`, starts the broadcast with its first send (or ends it, with nobody connected), and `Send` is the return of one send and the issue of the next. In between the task is suspended: a send may wait for a slow client's flow control. `Returned` is what the awaited send may have done to the disconnected list; `EndBroadcast` the loop after the last send. `SetChangedSize` is CPython's RuntimeError, also raised when the last member has been visited; `SetChurned` is a set whose size is the same again but whose members are not, over which the iteration may go on in any way. `Fallback` is `_emit` after a publish that raised. `BinaryFrame` ends `websocket_events` with an exception other than `WebSocketDisconnect`, so that the connection stays in the set. A publish that raises may have reached Redis. `order`, `doubtful`, `churned` and `received` are history. A subscription that is not there when an event is published gets nothing. Malformed messages are skipped by the relay and not modelled; nobody publishes any.

### ExperimentAssignment and the code

`loaded` is the `lru_cache` of `get_settings` in each process, `setting` the environment. `CheckTables`, `CreateTables` and `TablesTaken` are `create_all` in `lifespan`, which looks for the tables before it creates them, and `SelectExperiment`, `AddExperiment` and `ExperimentTaken` `_create_default_experiment` and its commit; either may collide with another startup, which then fails and is started again. A run is `Take` (which waits for the row's lock, as `Lock` of `RecoveryPipeline`), `AssignExperiment`, `SelectAssignment`, `Commit`, or `RunFails` and `RecordFailure`; what else a run does is in `RecoveryPipeline`, and the statuses it may leave, failed included, are one (`ended`). `ResultsCoverAssignments` compares the totals `experiment_results` reads from the cases with the assignment rows.

### OfflineEvaluation and the code

`Generate` draws an event of a bucket that has events left: any of its scenarios, any amount, consent and language, recoverable unless `_ground_truth` gives it no chance. `EvaluateEvent` is `_evaluate_event` with any score of the triage model. The order of the batch (it is shuffled) is any order. `CreditedActionIsAllowed` compares the evaluation's copy of the agent with `Decisions` and `CheckAll` of `RecoveryPolicy`: the live system could take the action at some hour and for some answer of the model, not that it would; `CategoriesAgree` the feature builder's category with the normalizer's.

## Runs

| Run | Instance | What it shows |
|---|---|---|
| `retries` | 1 worker, 1 case of 6 profiles, all actions, 0 to 3 copies per enqueue, 1 crash, MaxRetry 2 | `RetryCap`, `CooldownKept` |
| `race` | 2 fair workers, 1 case of 3 profiles, 1 or 2 copies, 2 requests, MaxRetry 1 | `TypeOK`, `HighValueNeedsApproval`, `StatusMatchesLedger`, `ChannelRetryCap`, `QueuedCaseIsSettled`, `ApprovedCaseRunsAgain`, refinement `GateSpec` |
| `intake` | 2 handlers, 4 kinds of event, one of them malformed, a batch of 2, lost or doubled pushes, 1 crash, 1 database error | `TypeOK`, `OneCasePerEvent`, `QueuedCaseIsCommitted`, `EventBecomesCase`, refinement `LedgerSpec` |
| `circuit` | 2 clients, one of them a prober, time to 6 with cooldown 1 | `OnlyOvertakenWritesDiverge` against `Circuit` |
| `fanout` | 2 clients, an event of a handler and one of the worker, 1 Redis failure, 1 restart | `TypeOK`, `RelayKeepsOrder`, `TwiceOnlyInDoubt`, `FailedClientsHurtNobody` |
| `gateway` | worker and API, window and cooldown of 1, time to 2, 2 recording calls, 1 failing command | `GatewayTypeOK`, `CountsAreRecent`, `OutageIsAnswered`, `FailingGatewayIsNoticed` |
| `experiment` | 2 API processes, 2 workers, 2 cases, splits 20, 21 and the invalid 101, 1 redeployment, 1 stop | `TypeOK`, `OneAssignmentPerCase`, `UnmovedCaseKeepsArm`, `ResultsCoverAssignments`, `ExperimentIsThere`, `ApiComesUp` |
| `evaluation` | all scenarios, batch of 5, 2 amounts, 6 scores | `TypeOK`, `CreditedActionIsAllowed`, `AgentKeepsBaseline`, `CategoriesAgree`, `MethodFitsCategory` |

Runs that find a statement of the documentation violated; each checks one property:

| Run | Property | In short |
|---|---|---|
| `self_cooldown` | `CooldownOnlyAfterRetry` | a retry that only waits for approval starts the cooldown (24 h, while the approval lives 2 h) |
| `second_link` | `OneLinkPerKey` | a duplicate id makes a second payment link |
| `lost_case` | `CommittedCaseIsProcessed` | a case whose push fails is never processed later |
| `dead_relay` | `PublishedEventIsRelayed` | a connection set that changes while a send is awaited ends the relay for good |

**Bounds.** `Instants` are the hours at which something changes: 0, 2 (an approval just expires), 10 (quiet hours; the run starts at noon), 24 and 48 (a cooldown just ends), 26 (an approval and a cooldown are over). `MaxRetry` 2 lets the cap be reached and tried again within them; in `race` it is 1, so that a second worker or a second instant is beyond it. Two approvals show an expired or rejected one beside a newer one; two workers and two copies show every overlap of two runs; a third run of the same case follows from a further copy. `MaxApproves`, `MaxCrashes`, `MaxDbErrors`, `MaxTime`, `MaxProbes`, `MaxRecordings`, `MaxFailures`, `MaxRestarts`, `MaxDeploys`, `MaxStops`, `NumEvents`, `CaseIds`, `ApprovalIds` and `Handlers` bound what the code leaves unbounded. In `circuit`, time 6 is long enough to trip, fail its probes, reopen with cooldown 2 and be half-open again, with a second client's call open at any point. In `fanout`, two events and two clients are the fewest with an order, a fallback beside the relay, and a set whose size is the same again after a change. In `gateway`, the clock passes the window and the cooldown once; two recording calls are the fewest in which the outage finds an old key that is about to expire; `MinSamples` 0 and `OutageSize` 2 stand for 50 and 60, so that the outage is more than the minimum even without one outcome, as in the code. `gateway` and `experiment` are the largest instances (1.8 and 1.9 million states), much of their time going into the liveness properties. In `experiment`, one case's bucket is in treatment under both splits and the other's only under 21. In `evaluation`, a batch of five is the smallest with an event of every bucket; scores lie on each side of every boundary.

`CHECK_DEADLOCK FALSE` is given where the system comes to rest: all ids processed, nobody approving, the clock at its last instant, every event emitted and relayed, the batch evaluated.

**One worker or two.** `RetryCap` and `CooldownKept` are claims about one worker, as README.md starts it. With a second worker and a second copy of an id TLC finds `CooldownKept` violated (the second run decides on a retry history read before the first one's commit), and a stale snapshot can also lower `retry_count` again. What is left of the cap is `ChannelRetryCap`: a retry's number is part of its idempotency key, so that on one channel no more than `MAX_RETRY_ATTEMPTS` are ever recorded, though the same number may be taken again on another channel. The other passing runs with workers use two.

**Lost pushes.** `ApprovedCaseRunsAgain` is claimed for enqueues that reach Redis (`Pushes` without 0). With 0 it fails as `lost_case` does: `approve` commits first, answers `queued: false` and nothing retries.

**Repeated actions.** A second run whose action has an idempotency key that is already in the table does not insert it, but its audit entry references it: on PostgreSQL the foreign key fails and a case that was acted on is marked failed. The model takes this path as `PersistFails`.

**Changed splits.** A case that a new `EXPERIMENT_VARIANT_PCT` moves across the split does change its arm: every run draws it anew (`get_existing_assignment` is never called), its row takes the new arm and its assignment keeps the old one. `UnmovedCaseKeepsArm` is about all other cases.

**Fairness.** A worker that has started a job goes on (`worker_loop` never gives up a job, and every await in it ends or raises), a handler past its commit reaches its push, and a worker on an idle queue is woken by the next id: weak fairness of each worker's step and of the handlers. Weak fairness is enough for the row lock, since with one contender the holder always ends and leaves the row free; humans, the clock and crashes owe nothing. In `WebhookIntake` Razorpay's redelivery gets strong fairness per event: the API takes any number of requests, so that the model's bound on handlers must not starve an event. In `GatewayHealth` clients that are idle ask again and calls go on: cases keep coming and the dashboard polls; failing commands are bounded. In `EventFanout` the event loop runs every task that is ready; clients, Redis and restarts owe nothing. In `ExperimentAssignment` only the API owes something: the service of `render.yaml` is started again when it ends, and a startup goes on.

## What is proved

For every value of the constants that satisfies the `ASSUME`s:

- `TypeCorrect`: `Spec => []TypeOK` of the pipeline. One lemma says what any step leaves of the moving worker's locals, another that every proposal is a known action and channel.
- `HighValueIsGated`: `Spec => []HighValueNeedsApproval`. The property is about history and not inductive: it does not say why the approval a worker read is still a grant. The invariant is `IInv == TypeOK /\ GrantInv /\ HighValueNeedsApproval`; `GrantInv` says that approved rows have been granted, that grants are rows, that the approval a running worker holds is a grant for the worker's case, and that what reaches execution is not a stop. `ApprovalsKept` carries it over a step: rows are only added and never change case or expiry.
- `PipelineImplementsGate`: `Spec => GateSpec`, from `IInv` and `ExpiryInv` (every expiry is an instant plus the lifetime). Approve maps to a grant, an execution to an allowed action, a tick to an advance, everything else stutters.
- `StatusIsBacked`: `Spec => []StatusMatchesLedger`, for any number of workers and copies. The invariant `LedgerInv` adds what a run about to persist has done (`RecordInv`) and what it has asked for (`RequestInv`); the row lock gives that no other run of the case is between them.
- `RetriesAreCapped` and `CooldownIsKept`: `RetryCap` and `CooldownKept` under `OneWorker`, for any number of cases, copies, crashes and failures. `SerialInv` has one part per place the retry history is in: the row and the recorded actions (`RowInv`: retries are numbered apart and below `retry_count`, none is newer than `last_retry_at`), the snapshot of the run in flight (`RunInv`: it is still what the row says, and what the policy allowed still fits it), and what the run has done but not recorded (`DoneInv`). The cap on the number of recorded retries is an injection of them into `0..retry_count - 1`. With a second worker `RunInv` is what breaks.
- `NumbersBoundRetries`: `ChannelRetryCap` for any number of workers. `NumberedInv` says that recorded retries have numbers below the cap and that no key is recorded twice, `AttemptInv` that a retry the policy let through keeps such a number until it is recorded.
- `IdempotentIntake`, `NoReadRace` and `IntakeTypeCorrect`: `OneCasePerEvent`, `QueuedCaseIsCommitted` and `TypeOK` of `WebhookIntake`, inductive together. `TypeOK` carries that an event past the duplicate check is a valid one.
- `IntakeImplementsLedger`: `Spec => LedgerSpec`. Besides the above it needs `LedgerInv` of `WebhookIntakeProofs`: a recorded failure event has its case, and a handler past its transaction was given a recorded event. `Persist` opens, `SimulateBatch` simulates, an `Answer` settles, `Take` takes, and everything else stutters.
- `CircuitTypeCorrect` and `OvertakenOnly` (`Spec => OnlyOvertakenWritesDiverge`), for any number of clients: a SET of a client that is not behind is matched with the step of `Circuit` its branch of `evaluate` or `record_probe_result` stands for, and no step but a SET changes what calls in progress have read. As a corollary (`CircuitWhileNotOvertaken`), a behaviour in which no call is ever behind is one of `Circuit`, which covers a single process.
- `GatewayDrivesBreaker`: `GatewaySpec => Spec` of `CircuitBreaker`: every step of the composition is a step of the breaker or leaves it alone. `GatewayCircuitType` carries the breaker's type invariant over.
- `GatewayTypeCorrect`, `CountsHoldTheWindow`, `OutageTripsTheCircuit`: the three invariants of `GatewayHealth`, for any number of clients, outcomes and failures. Members are told apart by what was recorded before them (`Numbered`), so that a count is bounded by a set of members newer than the call's cutoff (`CountsInWindow`), although other calls add and drop members between two ZCARDs. `OutageInv` follows the outcomes of an outage that is being recorded: all but at most one of them stay in the window and out of the reach of an expiry until they are counted. `OutageTripsTheCircuit` assumes that the outage less one is more than the minimum sample (59 and 50 in the code).
- `FanoutTypeCorrect` and `RelayIsFifo`: `TypeOK` and `RelayKeepsOrder` of `EventFanout`. The invariant `RelayInv` is `TypeOK`, that no event is published twice (`PublishedOnce`), and `Pipeline`: what clients have received from the relay, the event it is broadcasting and what waits in its subscription follow each other in Redis's order.
- `NoOtherDuplicates`: `TwiceOnlyInDoubt`. `DoubtInv` follows the two ways an event may take to a client: an event that Redis took and whose publish did not raise is broadcast by no handler (`OneWay`), an event waiting for the relay has not been taken up by it before (`QueuedOnce`), a broadcast over an unreplaced set has sent nothing yet to the clients it still has to visit (`SentOnce`), and a fallback that has yet to start is for an event whose publish raised (`FallbackWaits`).
- `AssignedOnce`, `ArmIsStable`, `ResultsAreComplete` and `ExperimentPrecedesRuns`: the four safety properties of `ExperimentAssignment` (with `ExperimentTypeCorrect` for its types), from one invariant `ExperimentInv`: at most one run per case holds its row, a run that found no assignment still finds none at its commit, rows have an arm exactly if they are assigned, every arm recorded or drawn was the arm under some deployed setting, and a case exists only after the experiment.
- `EvaluationTypeCorrect` and `LiftHidesNoLoss`: `TypeOK` and `AgentKeepsBaseline` of `OfflineEvaluation` for all batch sizes, amounts and scores. `SharesFillBatch` says that the four shares are a partition of the batch.
- `TrainedOnWhatIsServed`, `GroundTruthFitsCategories`, `CreditIsAttainable`: `CategoriesAgree`, `MethodFitsCategory` and `CreditedActionIsAllowed`, from the invariant that an event is one of the generator's scenarios and its row what the evaluation makes of it (`ScenarioInvariant`). `CreditIsAttainable` assumes that a first retry is allowed at all, that the floor of `check_all` is not above the smallest generated amount, and that the model may answer the actions the evaluation credits; it holds for all quiet hours, since they always leave an hour out (`SomeHourIsNotQuiet`).

Every safety invariant a run checks is proved. Only model-checked are the liveness properties, which are out of the prover's reach: `QueuedCaseIsSettled`, `ApprovedCaseRunsAgain`, `EventBecomesCase`, `FailedClientsHurtNobody`, `FailingGatewayIsNoticed`, `ApiComesUp`.

## Known divergences

Each was met while modelling; the first four are runs.

- A retry waiting for approval starts its own cooldown; a duplicate id makes a second payment link; a case whose push fails is lost; the relay dies when the connection set changes during a broadcast (see the runs above). Of the lost case, razorpay_handler.py:132 says "will process later", but logs it only if creating the client raises; a push that failed is logged at line 130, and lost all the same.
- A failure that `normalize_razorpay_event` raises on is answered 500 on every delivery and never becomes a case. `EventBecomesCase` is about all other failures.
- `check_all` has no circuit check, and only the treatment arm's override defers: the control arm may retry into an open circuit (README.md:51).
- An approval holds for the case. After it the model is asked again, and the action executed may be another than the one the human saw (`docs/PRODUCT_CASE_STUDY.md:81`).
- `evaluate` writes a closed document back even if nothing changed, possibly over the trip of another process; `FailingGatewayIsNoticed` shows that this delays a trip and does not prevent it.
- `record_probe_result` has no caller: in the deployed system a half-open circuit is never decided. Nor does anything but `simulate_outage` and the demo record outcomes.
- `assign_experiment_arm` says "retries cannot switch treatment groups" (assignment.py:21); a changed split does switch them.
- Nothing writes status `recovered`, so that recovery rates of the live experiment are 0; `ChannelBandit.update` has no caller either.
- A live `(bank, timeout)` or `(bank, authentication_failed)` is stored as `unknown`, while features built from the raw event call it systemic or customer. The generator makes neither.

## Not modelled

The triage model, the bandit's sampling, training and the analyzer are numeric; the LLM, Razorpay and n8n are external and appear as choices; read endpoints, checkout and the dashboard change no state of a recovery; the demo scripts start services and render a video. The n8n notification before the commit of its approval is listed as a hazard without a property: the other side is not in the repository.

## Plan

1. Done: policy and pipeline, approval gate, intake, circuit breaker; fan-out, gateway statistics composed with the breaker, experiment assignment, classification and evaluation; their theorems.
2. `RecoverySystem`: intake and pipeline over one queue and one set of tables; every delivered failure is settled when Redis is up; refinement of an abstract "each failed payment is decided".
3. Done: the safety invariants of all modules. the intake's ledger. Next: refinement of an abstract specification of the fan-out, and the composed safety of `RecoverySystem`.
