# Verification of vonavy_agent

TLA+ models of the experiment workbench in this repository, the TLC runs that
check them on small instances, and proofs that TLAPS checks for every instance.

## 1. The system

The repository holds a local workbench (`src/vonavy_agent`) and a cloud version
of it (`infra/`).

| Component | State it keeps | Operations | What is hard |
|---|---|---|---|
| Job queue, `jobs.py` | `jobs`, `job_events`, `runs`, `exports` rows in SQLite; `runs/`, `exports/`, `jobs/tmp/` on disk | enqueue, cancel, recover, claim, execute, finish, repair | several workers and request threads, leases that expire under live workers, crashes between a transaction and a rename |
| Executor, `executor.py` | one child process per claim | assert_running, begin_publish, finalize, rename, parent watch | outlives its lease or its worker |
| Managed files, `managed_files.py`, `settings.py` | files under the managed root | verify, publish | damage on disk |
| Dataset registry, `datasets.py` | content-addressed blobs, dataset versions | ingest, append, read | concurrent ingests of one dataset, leftovers of a crash |
| Experiments, `experiments.py`, `policy.py`, `eligibility.py` | mappings, profiles, specs, gate results | profile, spec, gate | leakage rules, stale gates |
| Planner, `planner.py` | planner drafts | draft, confirm | one draft confirmed twice |
| Backtest, `backtest.py` | none (pure) | origins, features, metrics, staging | availability cutoffs, common rows |
| Web application, `api.py`, `cli.py` | the worker's process handle | routing; starts one worker | does not restart it |
| Validation worker, `validation_worker/` | objects in S3 | validate, publish the result | retries of a Batch job |
| Control plane, `infra/lambda/control_plane` | DynamoDB items, S3 uploads, Batch jobs | upload slots, complete, validation jobs | conditional writes, late answers, retries |
| Forecast control plane, `infra/lambda/forecast_control_plane/handler.py` | runs, the owner's slot, Batch jobs | submit, reconcile, check and review a result | polling races, no grace periods, comparisons |
| Agent sessions, `handler.py`, `agent_async.py` | session items, the quota of the day | queue a message, claim and run a turn, store the answer | events delivered twice, a worker that dies in the middle of a turn, stale history |
| Agent and orchestrator, `agent.py`, `orchestrator.py` | none (pure, but for the provider) | accept a mapping, guard its roles, advise an adapter | whatever the provider answers |
| Forecasting library, `src/vonavy_agent/forecasting` | the document of one Batch job | panel, training rows, holdout, evidence, comparison | lookahead, limits, failing adapters |
| Web apps, CDK stacks | none | presentation, resources | not modelled |

How they interact: the web process writes `queued` rows and, for a waiting job,
ends it on cancellation. Worker processes poll the table; each starts one
executor per claim. Workers, executors and request threads share only the
database (one writer at a time, compare-and-set updates on state and lease
token) and the file system (renames). In the cloud, Lambda handlers share
DynamoDB items through conditional updates and start Batch jobs.

### What each component has to get right

- Job queue: an accepted cancellation is final; at most one attempt publishes;
  evidence is visible only of a job that is being finalized or succeeded; a
  succeeded job has the bundle its hash describes; every job ends; every failed
  or cancelled run gets terminal evidence; a damaged bundle is found.
- Dataset registry: a version's blob exists and has the recorded hash; version
  numbers are unique and dense.
- Experiments: a run starts only from a passing gate of its own spec; no
  feature is visible before its availability; what the gate counted is what the
  run scores.
- Control plane, uploads: an open session holds its slot whatever other requests
  do; a published dataset names one whole version, for good; the staged file is
  deleted only when the upload is complete.
- Control plane, validation: the slot and the status end together; a verdict
  rests on the worker's result; a token starts one Batch job; every job ends.
- Forecast control plane: the slot and the status of a run end together; the
  statuses recorded of a run and its children are those of one document; a
  document that a worker may leave behind is accepted, since a refusal would
  repeat at every poll.
- Agent sessions: a turn is run at most once and in order; what may be confirmed
  is the plan of the last turn; the quota bounds what is run; every accepted turn
  is answered or fails.
- Agent and orchestrator: a plan that may be confirmed is accepted when it is
  requested, and the worker prepares its panel if the file is of the past only or
  ends in the future rows the agent asks for.
- Forecasting library: nothing is learned from the days after an origin, but for the
  median that stands in for a baseline (Remarks); a result
  that is called ready hides nothing; the training budget and the batches fit.

## 2. Modules

- `JobLifecycle` - the abstract promise of the queue to its clients: phases,
  attempts, the request to cancel, and whether evidence is shown. No workers,
  leases or files.
- `JobQueue` - `jobs.py` and `executor.py`, one action per transaction and per
  file system step outside a transaction. `ImplementsLifecycle` states that it
  implements `JobLifecycle` under the mapping of states to phases.
- `MCJobQueue` - the job kinds and model values of the runs.
- `JobQueueProofs` - type correctness, cancellation and the generation fence.
- `JobQueueEvidenceProofs` - what is visible of a job, its bundles, and the
  refinement of `JobLifecycle`.
- `UploadSlots`, `MCUploadSlots`, `UploadSlotsProofs` - upload sessions of the
  cloud control plane.
- `ValidationJobs`, `MCValidationJobs`, `ValidationJobsProofs` - its validation
  jobs, with Batch and the worker.
- `ComparisonResults` - the document of a forecast run: how the worker builds it
  from what its adapters did, and how the control plane checks and reviews it.
- `ForecastRuns`, `MCForecastRuns`, `ForecastRunsProofs` - the forecast runs of an
  owner, with Batch and the worker; extends `ComparisonResults`, whose `RunStatus`
  is the status a document gives its run.
- `AgentSessions`, `AgentSessionsProofs` - one conversation with the agent, with
  its asynchronous invocations and the daily quota.
- `ForecastPanel` - the panel the adapters are trained and evaluated on.
- `ForecastEvaluation` - the evidence derived from a holdout, its validation and
  its review.
- `AgentPlans` - the plans the agent accepts and what becomes
  of one that is confirmed; extends `ForecastPanel`, where it is run.
- `Backtest` - the gate of an experiment, the grid of what is scored, and what the
  local models read and a run scores.
- `Decisions`, `DecisionsProofs` - draws an input for these pure modules and looks at
  what they decide: the shapes of the inputs, the properties, and their proofs for
  every input of these shapes.
- `MCDecisions` - the inputs of the runs.
- `MCCloudJobs` - one instance for the liveness of both kinds of cloud jobs: a
  behaviour is of `ValidationJobs` or of `ForecastRuns`.
- `SetArithmetic` - facts about sums over finite sets, least and greatest integers and
  ranks in a total order, which the proofs of uploads and decisions cite.

The cloud modules do not share state with the local queue: no program of the
repository runs both on the same data. Uploads, validations, forecasts and
sessions have items and slots of their own; a later one only reads that the
earlier one succeeded, so that they are modelled apart.

### State of JobQueue and the code

| Variable | Code |
|---|---|
| `job[j]` | the row: `state`, `attempt`, `cancel_requested`; `token` stands for `worker_id` with `lease_token`; `lease` says whether `lease_expires_at` is unset, ahead or past; `result` is the attempt whose `result_json` is stored |
| `manifest[j]` | `manifest_hash` of the run or export, named by the status and attempt of the manifest that has this hash |
| `evidence[j]` | the rows that `publish_evidence` wrote: metrics and summary, profile, gate result, export path |
| `final[j]`, `staging[j][t]` | the bundle at `runs/<id>` or `exports/<id>` and the one under `jobs/tmp/<job>/<token>` |
| `executor[j][t]` | the child process of token `t` and its return code |
| `proc[p]` | where a worker or a request thread is in `recover`, `_execute`, the finishing methods or `_record_terminal_run`, and the local variables it will use |

A worker is a loop: `poll` - `Sweep` - `settle` (finalizing claims) -
`recording` (endings of the sweep) - `repairing` (runs without terminal
evidence) - `verifying` (published bundles) - `ClaimOldest` or
`NothingToClaim` - `executing` - an outcome. `back` is the point a shared
method (`_finish_success`, `_record_terminal_run`) returns to.

Atomicity. SQLite admits one writer, and every UPDATE of the code repeats in its
WHERE clause the state and token it was computed from. A SELECT before it runs
outside the write lock. Where a change in between matters it is modelled: a
cancellation between the look and the update of `_finish_failed` (`FailLook`,
`FinishFailed`). Elsewhere a lost update is the same as the step not taken: a
sweep passes over a row that changed, which is a sweep before the lease
expired; `_claim` that loses the oldest job polls again.

Abstractions. Time is whether a lease has expired. The content of a bundle is
the status and attempt its manifest states (a success manifest is the one with
metrics and no `status` field) and whether all its files still match. Bundles
are written and removed in one step; `_legacy_publishing_complete` reads the
bundle in the step that uses the answer. `job_events` is a log that nothing
reads back.

### State of UploadSlots and the code

| Variable | Code |
|---|---|
| `slot[s]` | item `SLOT#s`: `status` and `upload_id` |
| `upload[u]` | item `UPLOAD#u`: `status` and `slot_key`; "unused" before the transaction that writes it |
| `dataset[u]` | item `DATASET#...` of the session: `status` and `object_version_id` |
| `lapsed` | sessions whose `expires_at` is past (the three items have the same one) |
| `posting`, `staged[u]` | whether the presigned POST is valid, and what lies at the staging key |
| `copies[u]` | the versions at the final key, one per `copy_object` |
| `call[r]` | where a request is in `_create_upload_session` or `_complete_upload`, and its local variables |

Each remote call is a step: the consistent query of the slots (`ChooseSlot`), the
transactions (`Reserve`, `Commit`), `copy_object`, `head_object` with the
comparison and deletion, the second read after a cancelled transaction
(`Recheck`), the deletion of the staged file. A transaction may also be cancelled
for a conflict, so `Commit` may fail although its conditions hold. `Stop` ends a
request anywhere. DynamoDB removes the items of a lapsed session one by one, at
any time. The model is of one owner: every key begins with the owner.

### State of ValidationJobs and the code

| Variable | Code |
|---|---|
| `record[j]` | item `VALIDATION#j`: `status`, whether `batch_job_id` and `result_version_id` are set |
| `slot` | item `VALIDATION_SLOT#0000`: `status`, `job_id`, whether `expires_at` is past |
| `old` | jobs whose `updated_at` lies further back than the grace periods |
| `batch[j]` | the Batch job: not yet visible, waiting, running, ended, forgotten |
| `result[j]` | the status in the object at the job's result key |
| `call[r]` | where a request is in `_create_validation_job` or `_reconcile_validation_job`, with what it has read |

A job is named by its request token, because the code derives the identifier from
owner and token. The four Batch states before running are one. A malformed or
oversized result counts as none: both end as failed. Failure codes, counts and
the dataset a job refers to are left out. A request that raises in the middle,
for a transaction conflict or a service error, is `Stop`.

Time. A Lambda invocation ends after 15 seconds (`control_plane_stack.py`), and
the grace periods are 60 and 120 seconds. So `Age` waits for a request that is
creating the job and for Batch to show it, and `SlotLapses` (six hours or more)
waits for the creating request. Status requests have no such guard: a slow one
may act on what it read before any number of other steps. The job definition
allows one attempt, so a worker writes its result once.

### State of ForecastRuns and the code

| Variable | Code |
|---|---|
| `record[f]` | item `FORECAST#f`: `status`, `adapter_ids`, whether `batch_job_id` and `result_version_id` are set, the statuses of `child_runs` |
| `slot` | item `FORECAST_SLOT#0000` |
| `batch[f]`, `result[f]` | the Batch job, and the statuses of the models in its document |
| `call[r]` | where a request is in `_create`, `_refresh`, `_release_failure` or `_terminalize`, with the status it will write |
| `faults` | how many requests stopped and leases ran out |

It differs from `ValidationJobs` as the code does: no grace period, a job whose
submission failed is not terminated, a job Batch no longer describes fails the
run at once (`NextStep`), and the transactions ask only that the slot names the
run. A single run and a comparison are one action each, which differ in
`Queued` and `Children`. `SlotLapses` waits for the creating request: the lease
is the timeout of the job and a quarter of an hour.

### State of AgentSessions and the code

| Variable | Code |
|---|---|
| `session` | item `AGENT_SESSION#`: `status`, `turn_id`, `turn_count`, the turns of its history, the turn whose draft may be confirmed |
| `events` | accepted invocations of the Lambda function that may be delivered |
| `request[r]` | a POST between its read, its update, the invocation and the failure |
| `worker[w]` | an invocation of `_agent_turn_worker`, with the history and count it read before the claim |
| `quota` | `call_count` of the day's `AGENT_QUOTA#` item |
| `answered`, `calls` | what the provider was asked: history variables |
| `drawn`, `lost`, `faults` | tokens drawn, turns of which a fault leaves no trace in the session, number of faults |

Planning sessions and sessions about a result share the code and the model. A
call to the provider with all its tool rounds is one step (`Call`): it writes
nothing. An event is delivered any number of times until Lambda is done with it
(`Ends`, `WorkerDies`). `lost` names the faults the code does not recover from:
an invocation that dies, a claim that fails for another reason than its condition, a
request that ends between its read and the invocation. An invocation that is refused
and an answer whose update seems to fail are not among them: the code stores these as
failures (`RequestFails`, `WorkerFails`), and `TurnsAnswered` asks for it.

### The pure modules and the code

`ComparisonResults`, `ForecastEvaluation`, `ForecastPanel`, `AgentPlans` and
`Backtest` hold no state; each operator names its function. Errors (WAPE) are pairs of a
numerator and a denominator, so that comparisons are exact; rounding of reported
numbers is left out. A panel gives each entity and day a cell; a column's values
are what the checks tell apart (type, nulls, negative, not finite, the name of an
outcome). The learned models themselves are not modelled: only what they are
given, and what is made of what they return.

In `Backtest` a dataset gives each entity and day a row, with the days its target
and feature are known. A prediction is what it is computed from: the rows a model
read. An empty known-at cell is NaT in pandas, in no order with any time; the gate
reads it as late (`InTime`), the run as early (`Eligible`, `Given`), and each side
is modelled as it is.

`Decisions` has one step, which looks at an input of one of eight kinds. The shape of
each kind (`InputAssumption`) is what the code has parsed and checked before it
decides: a prediction is not negative because every adapter clips it (model.py:100,
neural_net.py:402, chronos2.py:271), an experiment has models, origins, lags and
rolling means because `EvaluationSpec` and `RidgeDirectConfig` ask for them
(`IsLocalSpec`). How many rows, entities, columns or adapters there are is left open.
TLC evaluates the assumption for the inputs of `MCDecisions`. The two sides of a contract
(worker and control plane, agent and worker, gate and run) are separate operators, translated
from separate files, and the properties relate them.

## 3. Runs

| Run | Instance | Question |
|---|---|---|
| `core` | 1 run, 2 workers, 1 request thread, 2 attempts, 4 tokens, 1 crash, 1 stalled lease, fair | all safety properties of the queue, the refinement, and that the run ends with its ending recorded |
| `mixed` | a run left in PUBLISHING by the older release and an export, 2 workers, 1 crash, 1 damage, fair | several jobs in one sweep, compatibility, evidence under disk damage, damage is found |
| `failed` | 1 run, 1 worker, 1 crash | finding 1 |
| `upload` | 2 sessions that compete for one slot, 2 requests, up to 2 copies each | the slot, the storage ceiling, what is published |
| `validation_safe` | 2 jobs, 2 requests, 1 stop, 1 lapsed lease | safety of validation jobs |
| `validation_two_active` | 2 jobs, no faults | finding 2 |
| `forecast_safe` | 2 comparisons of 2 adapters, 2 requests, 1 stop or 1 lapsed lease | safety of forecast runs |
| `cloud_live` | 1 validation, or 1 forecast run of 1 or 2 adapters; 2 requests, 2 stops, 1 lapsed lease, fair | every validation and every run ends |
| `agent_turns` | 3 messages, 2 requests and 2 invocations at a time, 2 turns, 3 calls a day, 1 fault, fair | safety and liveness of a conversation |
| `decisions` | the inputs of `MCDecisions` | the pure algorithms, whose properties are proved for all inputs |
| `origins` | the experiments of `MCDecisions` | finding 3 |
| `boundary` | the files of `MCDecisions` | finding 4 |

Bounds. `MaxTokens` bounds the leases a job is given; in `core` a run with one
more token has the same states, so the bound never bites. `MaxAttempts` is 2 as
in `settings.py`; `mixed` takes 1, since an attempt more only repeats the way from
the queue to the executor. One crash and one stall are enough to put
every pair of steps of two owners of a job next to each other: each property
concerns one job, its current owner and one former owner. Two workers suffice for
the same reason. In the cloud runs two requests are enough to put any step of one
between any two of another. With one slot both sessions must meet; that the first
free of several slots is taken does not matter to the properties, and
`UploadSlotsProofs` holds for any number. Two copies suffice for a completion
that copies again after another one published; the proofs hold for any
`MaxCopies`. `MaxStops`, `MaxLapses` and `MaxFaults` bound faults only: the
proofs hold for all of them, and for any number of runs, adapters, tokens and
invocations. `forecast_safe` compares two adapters in every run, and a state
constraint (`OneFault`) takes a stop or a lapse but not both; `cloud_live` has single
runs and both faults, and the proofs have no such bounds. In `agent_turns` three messages are
enough that two arrive at once after an answered one, and that the maximum of
two turns binds; the daily limit of three binds together with `AgentPlan`.

In `decisions` the constants are scaled down so that every limit is met: a horizon
of two days with baseline lags of two and three, a window of two, a history of
four days, eight training rows in batches of three, lists of two diagnostics.
Inputs lie on both sides of every limit, and what the operators compare is only
order and equality of small numbers; the ratios (1 %, 5 %, 10 %, 100 %) are met
with demand and error of 0 to 9 and 50 forecast values. The actual constants
satisfy the same assumptions (`PanelAssumption`, `EvidenceAssumption`). The
experiments have two entities over eight days, one before the training split, a
calibration and a test origin with two days each, lags of one and means of two
days. One row has any fault and another one some: a row missing or twice, no
target, an unavailable product, a known-at day that is missing, too early, a day
late or after the evaluation. The last actuals are known at the evaluation or not,
and the minimum coverage lies on both sides of what is left. The files have two
entities over four days, with nulls, missing rows, and covariates that are given or
not on each side of the boundary. The origins of a training set have few rows or more
than the whole budget.

Deadlock is checked: a worker that lives always has a step, and one that is down
can be started again; in the cloud runs a request can be answered or time goes on.
Only the runs of `Decisions` stop, after their one step.

Fairness. In `core` and `mixed`, a live worker goes on: none of its steps waits for anything
but the child. A child that hangs meets the wall clock limit of the monitor loop.
Time passes, so the lease of a dead worker expires. Nothing is assumed of
executors, clients or restarts; the properties say "as long as some worker
lives", because nothing in the code restarts a worker. In the validation runs a
request that began takes its next step (or is stopped, at most `MaxStops` times),
Batch starts and ends what was submitted (the job definition has a timeout), time
passes, and the status of a job is asked for again and again. Only this polling
is strongly fair: both requests may be busy in between. It is the client that
polls, so `ValidationsEnd` says what the code does for a client that waits. The same
holds of the forecast runs and `ForecastsEnd`. A behaviour of `cloud_live` is of one
kind; the other has no step it could be fair to. In `agent_turns` nobody has to ask: requests and
invocations go on, and Lambda delivers an event it accepted (strongly fair, since
both invocations may be busy in between).

### Properties

- `CancelSticks`, `NothingPublishedEarly`, `OnePublisher`,
  `EvidenceOfSuccessOnly`, `FinalizingRecoverable`, `SucceededVerified`,
  `CancelledEvidence`: what section 1 asks of the queue.
- `ImplementsLifecycle`: the same seen by a client, as a refinement.
- `JobsEnd`, `DamageFound`: liveness. A job ends with what it ended as on record; a
  stalled lease, and with it a final update that comes too late and ends its worker,
  does not prevent that as long as another worker lives.
- `OpenHoldsSlot`, `StorageCeiling`: reservations under concurrent quota checks,
  expiry, and removal of items.
- `PublishedWhole`, `CompletedTogether`, `VersionFixed`, `StagedUntilCompleted`:
  concurrent and repeated completions.
- `ActiveSlotHasLiveJob`, `ReleasedByItsJob`, `VerdictHasResult`,
  `SubmittedOnce`: validation jobs under stale reads, stops and lapsed leases.
  `ValidationsEnd`: each ends or lost its slot.
- `ActiveSlotHasLiveRun`, `ReleasedByItsRun`, `VerdictHasDocument`,
  `SubmittedOnce`, `ForecastsEnd`: the same of forecast runs, with the children of a
  comparison. Here too a late answer may write an active status over a terminal
  one, but the next poll ends the run again: `ForecastsEnd` and
  `ActiveSlotHasLiveRun` hold.
- `RunOnce`, `TurnsInOrder`, `ConfirmableIsLatest`, `QuotaCoversCalls`: a
  conversation under repeated deliveries, two tabs and faults.
  `TurnsAnswered`: its liveness, also when the invocation is refused.
- `ResultAccepted`: a document and its evidence are accepted whatever the
  adapters did. `BestReported`, `NothingHidden`: what the review says of them.
  `NoLookahead`: what models are given is what would be if nothing that becomes known
  after the origin were there, in the cloud and locally. It names what it leaves out:
  the whole-history median of a baseline (`RowLooksBack`; all else of such a row is
  still asked for), and experiments with rows outside their days that nothing proves
  to be known (`ProvenOutside`), which are finding 3.
  `GateForetells`: an experiment that passes the gate ends, and each of its models
  is scored on exactly the rows the gate counted. `BatchesFit`: the training budget.
  `PlansHold`: a plan that may be confirmed is accepted when it is requested, and
  advice follows the objective. `PlannedFilesRun`: for which files a plan confirmed as
  drafted is prepared and for which it is refused, stated as an equivalence over files
  with any nulls. It holds because two pieces of code far apart agree on the days
  that are held back; that some of the refused files are described to the user as if
  they ended in future rows is finding 4.

### Findings

1. `failed`: a worker that fails a FINALIZING run after its bundle was renamed
   into place commits FAILED, and crashes before it removes the bundle. The next
   repair sees a `manifest.json` at the final path and records its hash, so the
   failed run shows the manifest of a success for good. The tests assert that the
   manifest of a failed run says failed.
2. `validation_two_active`: a status request that saw the Batch job run writes
   `running` after another request ended the job and released the slot, because
   the condition of that update does not look at the status. A second job takes
   the slot, two jobs are active, and the first cannot end while the slot names
   the second. The documentation allows one active job.
3. `origins`: the gate refuses missing known-at times between `train.start` and
   `test.end` (experiments.py:205, 267), but a training window may begin earlier
   (backtest.py:254), and there the fit takes a row without one as always known
   (backtest.py:138: a comparison with NaT is false). `README.md:71` says that missing
   availability proof blocks the run, and `README.md:66` that an origin uses only data
   available at it. In the trace a row of the day before `train.start` has no known-at
   time, the gate passes, and Ridge learns from it.
4. `boundary`: any null in the target makes the agent hold back the last seven days
   (agent.py:706). If the null is a gap in the history, targets were observed on those
   days, and the worker refuses the plan that was confirmed as drafted (panel.py:113).
   The draft says that target nulls are the forecast boundary (orchestrator.py:581) and
   that the seven days were treated as future rows (agent.py:709); it also asks the
   user to confirm the date, which is the way out.

### Remarks

Seen while the code was translated; the models contain them, no run is about
them.

- Cloud control plane: a second completion that read a session as pending and
  copies after the first one committed answers `upload_missing` (handler.py:573)
  for a completed upload; `README.md:172` calls the completion idempotent. An
  interrupted submission whose slot item was removed or given away is not failed
  (handler.py:1301), against `docs/phase-2b-aws-validation.md:103`; that is why
  `ValidationsEnd` says "ended or lost the slot".
- Forecast runs: a request that stops between `submit_job` and the update that
  records its identifier leaves the run `submitting` for good; no code looks at
  such a run again (handler.py:751, 1161). `ForecastsEnd` begins with the identifier.
- Agent: a worker that dies after its claim, a request that stops between update
  and invocation, and a failed claim leave the turn active for good
  (`TurnsAnswered` excludes the turns in `lost`). `_columns` (handler.py:199)
  refuses roles of more than 64 columns while the agent reads up to 250 and
  excludes all it did not assign; `PlanAccepted` says so. An objective "without
  training" contains "train", so that it counts for retraining as well
  (orchestrator.py:106).
- Panel: the last fallbacks of a baseline are the entity's median (panel.py:243) and
  the panel's (panel.py:180) over the whole history, also for rows of the holdout and
  for training rows before it: for a series of which nothing recent is known, the
  holdout's baseline contains what it is compared with. The web application calls the
  plan leakage-safe (`infra/web/app.js:1294`). `RowLooksBack` states exactly this
  exception: the baseline of such a row is that median, all its other columns look
  back.
- Local experiments: the minimum coverage is one ratio over calibration and test, so
  that a test split may have less (experiments.py:390).
- Local registry and planner (not modelled): version numbers are read outside the
  write transaction (datasets.py:228), and a confirmation checks and marks its
  proposal in different transactions (planner.py:203).

## 4. Proofs

`JobQueueProofs!TypeCorrect` proves `TypeOK`, which also says that each program
point of a worker has the arguments it needs (`LocalsOK`). One lemma per group
of actions, one step per action, one sub-step per variable it changes.

The two safety theorems of the same module rest on `JobMoves`: over all actions, a row makes one of
eleven moves of its state and cancel flag (`StateMove`); only a claim counts an
attempt, only `finalize` stores a result. From it follow

- `CancellationIsFinal`: `Spec => []CancelSticks`. The property is inductive
  together with `TypeOK`.
- `GenerationFence`: `Spec => []OnePublisher`. Not inductive by itself;
  `PublisherInv` adds that a job with an executor past `begin_publish` is in a
  state from which it is never claimed again (`LateStays`).

`JobQueueEvidenceProofs` classifies, over all actions, what one step may do to
the row and the evidence of a job (`RowSteps`: shows, hides, records, or leaves
them and ends the job in one of the ways of `Ends`), to its tokens
(`TokenSteps`), to its bundles (`FileSteps`), and to the locals of one process
(`PcSources`, `ClaimSources`, `PromoteSources`, `NewEndings`, `GivenBy`). The
invariants below are then proved per class of step, not per action:

- `EvidenceMeansSuccess` and half of `QueueImplementsLifecycle`: `EvidenceInv`
  adds `LegacyIdle`, that nobody claims or settles a job an older release left in
  PUBLISHING; without it such a claim could fail the job and leave its evidence.
- `QueueImplementsLifecycle`: `StepSeen` maps each class to a step of
  `JobLifecycle` or a stutter. It needs `AttemptsLeft` (a queued job has not
  used all its attempts) and `CancelAsked` (a process that is about to
  end a job as cancelled acts on an accepted request).
- `NothingVisibleEarly`: `VisibleInv` adds that pending renames belong to jobs that
  were finalized (`SettledClaims`), that pending terminal bundles belong to jobs
  that ended that way (`EndedTargets`), and that tokens are never reused
  (`TokenInv`).
- `CancelledShowsNothingElse`: from `VisibleInv` and what a recorder may find at the
  final path.
- `FinalizingCanBeCompleted`, `SucceededIsVerified`: while nobody damages files.
  `DroppedPaths` says that a directory a process is about to remove belongs to no
  attempt that may still publish, nor to a result that is not hidden again.
  `IntactInv` ties the chain together: the bundle of an attempt that may publish
  is staged (`StagedIntact`), so `finalize` leaves a job that can be completed
  (`FinalizingRecoverable`), so a worker about to commit has a verified bundle
  (`CommitVerified`), so a succeeded job has one. None of them is inductive alone.

`UploadSlotsProofs` proves the type invariant, `OpenHoldsSlot`, `StorageCeiling`,
`PublishedWhole`, `CompletedTogether`, `VersionFixed` and
`StagedUntilCompleted`. Its inductive invariant `IInv` adds what a request may
rely on between two remote calls: the identifier it reserves is its own and
unused (`ReservesFresh`), the version it is about to publish exists and has the
right size (`CopyKnown`), and what it cleans up was completed
(`CleansCompleted`). The reservation keeps `OpenHoldsSlot` because of the
condition of its own transaction, not of the earlier read; the commit because no
other open session can hold the slot that names this one. `StorageCeiling` follows:
open sessions have different slots (`OpenAreFew`), so they are at most `NumSlots`, and
a sum of so many sizes is within the limits the control plane checks when it is loaded
(`PolicyAssumption`, handler.py:40).

`ValidationJobsProofs` proves the type invariant, `ActiveSlotHasLiveJob`,
`VerdictHasResult`, `SubmittedOnce` and `ReleasedByItsJob`. `IInv` adds what a
request is about to write (`CallWrites`, `CallVerdict`) and that a job is
recorded before it is submitted (`RecordedFirst`). `StatusInvariant` is the
lemma for every step that writes a status: an active one leaves the slot alone,
a terminal one releases it.

`ForecastRunsProofs` proves the type invariant, `ActiveSlotHasLiveRun`,
`VerdictHasDocument`, `SubmittedOnce` and `ReleasedByItsRun`. `IInv` adds
`CallWrites`, `RecordedFirst` and `DocumentFits` (a document is about the adapters
that were recorded). The conditions of the transactions look only at the slot, so
the argument for the slot runs through it: whoever ends a run held the slot.

`AgentSessionsProofs` proves the type invariant (no run repeats it), `RunOnce`,
`TurnsInOrder`, `ConfirmableIsLatest` and `QuotaCoversCalls`. `IInv` adds that a token whose
message is not stored is known to nobody (`TokensDrawn`, `NewTurns`), that what an
invocation read before its claim is still so while its turn is under way
(`HistoryFresh`), that a turn is claimed once (`ClaimedOnce`), and that the quota
counts the invocations that paid and did not call yet (`QuotaHeld`, by the
cardinality of that finite set).

`DecisionsProofs` proves all eight invariants of the run `decisions`. `Shaped` (the input has
the shape of its kind) is inductive; each invariant follows from it by a lemma about
the operators, in which all the work lies:

- `EveryResultAccepted`: the ranks the worker gives are exactly `1 .. n` and follow
  the errors (`Leaderboard`, from `RanksTaken`), and every list, count and verdict of
  the evidence passes each check of the control plane (`EvidenceIsAccepted`).
- `BestAlwaysReported`: the adapter of rank 1 is before all others (`FirstOfAll`).
- `NothingEverHidden`: both lists are cut, so all depends on their first element. The
  keys they are sorted by make a total order (`HigherCompares`: ratios compared by
  products, one without a denominator last; `OrderedByKeys`), so the first entity has
  the greatest WAPE and the first feature the greatest severity, and what does not
  warn about them warns about none (`BelowOne`). Sorting entities by their absolute
  error first, the mutant of the run, breaks this step.
- `NeverLooksAhead`: each operator a model's input is made of gives the same when the
  history is cut at the origin (`UntilRows`, `UntilExample`, `UntilTrain`,
  `UntilPrediction` for experiments; `KnownThen`, `SeasonalLooksBack`,
  `RollingLooksBack`, `MadeRowLooksBack`, `ContextsLookBack` for the panel). For
  experiments the cut removes unproven values as well; `GateProves` shows that the gate
  leaves none within the days of the experiment, and `ProvenOutside` assumes it of the
  other days, which no code does.
- `GateAlwaysForetells`: a passing gate leaves no row unpredicted (`AllPredicted`), and
  it counts a row exactly if the run can score it (`CountedRows`).
- `BatchesAlwaysFit`: the budget bounds the rows (`RowsBounded`), and the batches cover
  them for any batch size of at least 3 (`BatchCount`).
- `PlansAlwaysHold`: `ConfirmedPlanAccepted` for any columns and any answer of the
  provider; `AdviceIs`, by the points each wish and signal adds.
- `FilesAlwaysRun`: a file with every target is planned without holding back a day and
  is never refused (`HistoryRuns`); any other file loses its last days, and each of the
  four refusals of the worker is the negation of one part of `EndsInFuture`
  (`FutureRuns`).

`SetArithmetic` carries these proofs. The prover cannot instantiate an induction
theorem, whose parameter is an operator; each induction over finite sets is therefore
an argument about a least counterexample, which exists because proper inclusion of
finite sets is well-founded (`LeastSubset`, from the library's `WFMin`). So the sums
of the community modules are shown to unfold (`SumsExist`, `FunctionSums`), and to
be monotone, bounded and independent of the order (`SumMonotone`, `SumBounded`,
`SumRemove`).

The proofs assume only the assumptions on the constants in the modules. The
bounds `MaxTokens`, `MaxCrashes`, `MaxStalls`, `MaxDamage`, `MaxCopies`,
`MaxStops`, `MaxLapses` and `MaxFaults` are constants like the others, so the
theorems hold for all of them.

Every safety property of a passing run is proved. Model-checked only are the
liveness properties (`JobsEnd`, `DamageFound`, `ValidationsEnd`, `ForecastsEnd`,
`TurnsAnswered`), because fairness and ENABLED are beyond the prover, and the four
findings of section 3. The lists of an evidence are given by their order
(`Ordered`) instead of the library's sort, which the prover cannot expand; TLC
evaluates the same definition. `Median` still uses that sort: no proof needs its value,
as `RowLooksBack` only says which median it is.

## 5. Not modelled

Listed with the reason in `PROJECT.json`: presentation, infrastructure
declarations, numerical training and inference, log collection, and path
handling below the managed root. The removal of a validation record after the
retention days is left out: nothing else reads it. Names, media types and owner
checks of the control plane are left out, as every key carries the owner.
Prompts, tool schemas and the wording of the agent's diagnostics are left out;
`Attention` keeps the findings that are about values.

## 6. Plan

1. Local registry: blobs and versions under concurrent ingests; planner
   confirmation; gate and enqueue. One module, one run.
2. The validation worker's verdict and limits, as further inputs of `Decisions`.
