# TLA+ models of the anomaly detection platform

This directory models the concurrent core of the repository in TLA+, checks the
models with TLC and proves properties of them with TLAPS. Paths below are under
`backend/app/` unless they begin with another directory.

## 1. The system

A FastAPI process serves requests on one event loop. PostgreSQL holds the rows,
Azure Blob Storage (or the local disk) the artifacts, and Redis is at once the
Celery broker, the log and status channel of training jobs, and the snapshot
store of the in-memory services. One Celery worker (`compose.yml`:
`--concurrency=1`, queues features, training, monitoring) executes tasks.

| Part | State it keeps | Operations | Talks to |
|---|---|---|---|
| Training pipeline (`services/training_service.py`, `workers/training_worker.py`, `workers/celery_app.py`) | `training_jobs`, blobs `models/{job}/`, key `training:status:{job}`, broker messages | create, publish, delete; the nine steps of `train_model`, its retry and except block; start-up sweep | registry, storage, Redis, alerts |
| Model registry (`ModelService`, `api/v1/models.py`) | `ml_models`, `baselines`, `training_jobs.model_id` | register, link, promote, delete, set baselines | storage, training |
| Log stream (`api/v1/training_logs.py`, `backend/ml/logging/job_log_handler.py`) | Redis list and status key | emit, poll, reconnect | training worker, browser |
| Retraining (`services/retraining_service.py`, `workers/retraining_worker.py`) | one Redis snapshot, a memory copy per process | trigger, enqueue, five steps, delete | training, registry |
| Inference (`services/inference_service.py`) | a singleton: engine, preprocessor, calibrator, threshold, second stage | load, predict, predict a batch in a thread | A/B testing, storage |
| A/B testing (`services/ab_testing_service.py`) | tests, active test, buffered counters, one Redis snapshot | create, start, route, record, evaluate, conclude, abort, delete | inference |
| Alerts and monitoring (`services/alert_service.py`, `workers/monitoring_worker.py`) | `alerts` | create with deduplication, acknowledge, resolve, auto-resolve | training, baselines |
| Feature sets (`services/feature_service.py`, `workers/feature_worker.py`) | `feature_sets`, plan versions and drafts | create with deduplication, draft, commit, compute, analyse, delete | datasets, broker |
| Data preparation (`services/data_processing_service.py`) | `datasets`, blobs | split, two uploads, one commit | training |
| Baselines (`services/baseline_service.py`) | `baselines` | set (replaces), check | registry, alerts |
| Scheduler (`workers/scheduler.py`) | jobs and runs, one Redis snapshot | create, run, enable, disable, delete | handlers |
| Drift and bias (`services/drift_service.py`, `bias_service.py`) | snapshots per model in Redis | check, trend, raise | monitoring worker, pages, alerts |
| Storage (`core/storage.py`, `services/data_service.py`) | blobs, files of the local disk | upload, read, delete, sign | every service that keeps an artifact |
| Features of a row (`backend/ml/transformers`, `backend/ml/features`) | a fitted transformer, kept as an artifact | detect roles, fit, transform, select | feature worker, inference |
| Fits and searches (`backend/ml/algorithms/trainer.py`, `backend/ml/tuning`, `schemas/hyperparameter_validator.py`) | none | check a form, search, fit, calibrate | API, training worker |
| Accounts and roles (`api/v1/auth.py`, `admin.py`, `role_requests.py`) | `users`, `role_requests` | sign up, approve, reject | |
| Training page and feature card (`frontend/src/pages/Training`) | what the user selected, answers in flight, the query cache | pick, split, compute, train, poll, analyse | data preparation, feature sets, training |

Comparison, analytics, audit, authentication, configuration, migrations and the other
pages are listed with their reasons in `PROJECT.json`: they are reports, stateless
checks, start-up wiring or layout. The rate-limit middleware (`core/rate_limit.py`)
is never installed by `main.py`.

What is hard, and what makes each part correct:

- *Training.* A message outlives its execution (`task_acks_late`,
  `task_reject_on_worker_lost`, the visibility timeout), so every job may be
  executed several times, each time from the beginning, over what the last time
  committed. Correct means: the row follows the execution, no job is left behind,
  a COMPLETED job has its model, every model has artifacts at least as new.
- *Registry.* Requests read rows, await and write. Correct means: at most one
  PRODUCTION model, no dangling link, no model without artifacts, distinct versions.
- *Log stream, retraining, A/B testing, scheduler.* A snapshot or a key in Redis
  is read and written in separate steps by several processes. Correct means: no
  update is lost, and what ended is seen to end.
- *Inference, alerts, feature sets, baselines, roles.* Check, await, act.
- *Rows, forms, fits, searches, figures, paths.* No concurrency, but the same decision
  taken in several places that were written apart: training and serving compute the
  same features, four tables describe the same hyperparameters, three searches read
  the same range, writers and readers build the same path. Correct means that they
  agree, and each exception is named where it is.

The `hazards` of `PROJECT.json` list these at their lines.

## 2. Plan

Done:

1. `JobLifecycle`, `TrainingPipeline` (section 3), proofs in `TrainingPipeline_proofs`
   and `TrainingRefinement_proofs`.
2. `ModelRegistry` (section 4), proofs in `ModelRegistry_proofs`.
3. `LogStream` (section 5), proofs in `LogStream_proofs`.
4. `Retraining` (section 6), proofs in `Retraining_proofs`.
5. `ApiProcess`, `ABTesting`, `Inference`, `BatchPrediction`, composed in `Serving`
   (section 7), proofs in `Serving_proofs`.
6. `Alerts`, `FeatureSets`, `Preprocessing`, `Datasets`, `Accounts`, `Scheduler`,
   `Baselines`, `Monitoring`, `BlobStorage`, `TrainingPage` and `FeatureCard`, composed
   in `BackOffice` (section 8), proofs in `BackOffice_proofs` (which builds on
   `Computations_proofs`) and, of the plan, the metrics and the paths, in
   `Computations_proofs`.
7. `FeatureEngineering`, `FeatureAnalysis`, `Hyperparameters`, `Tuning`,
   `ModelFitting`, `Scoring`: the decisions a row, a form and a label go through,
   also in `BackOffice` (section 9), proofs in `Computations_proofs`, of their types in
   `BackOffice_proofs`.

Left open:

- `BlobStorage` under the steps of `Datasets`, so that paths and interleavings meet.

## 3. Training: `TrainingPipeline` and `JobLifecycle`

`TrainingPipeline` has one action for every database commit, blob upload, Redis
write and broker operation. `status`, `progress`, `error`, `linked` are the columns
of `training_jobs` (`linked` is `model_id`); a model is the pair of its job and the
number of the execution that registered it; `pkl[j]` and `rest[j]` say which
execution last wrote `model.pkl` and the other artifacts; `stream[j]` is the Redis
status key; `queue[<<j, r>>]` counts deliverable copies of the message of job `j`
with `request.retries = r`; `pc`, `task` are the worker's next step and the message
it holds.

| Actions | Code |
|---|---|
| `CreateJob`, `Publish`, `PublishFails` | `create_training_job`: the commit, then `train_model.delay` |
| `DeleteJob` | `delete_training_job`, at any status |
| `Boot` | `cleanup_stale_running_jobs` on `worker_ready` |
| `Consume`, `Ack`, `Restore`, `LoseChild`, `LoseWorker`, `HardTimeLimit` | Celery over Redis with the settings of `celery_app.py` |
| `LoadJob`, `Progress`, `UploadModel`, `UploadRest`, `Register`, `Complete`, `ApplyBaselines`, `ReportCompleted`, `Notify` | STEPS 1 to 9 |
| `Raise`, `Retry`, `RetryFails`, `ReportFailed`, `MarkFailed`, `MarkFailedRaises` | the except block |

Any step of the body may raise. `Raise` after STEP 7 is possible too (the block is
one `try`), and is bounded with the swallowed errors by `MaxLateErrors`.

`JobLifecycle` is what a client that polls `GET /training/jobs/{id}` may rely on,
with no worker and no messages: a job begins from any status (delivery is at least
once), completes only while it runs and together with a newer registered model,
and several jobs may fail in one commit (the sweep). `ImplementsLifecycle` checks
that the pipeline implements it, with `phase` computed from the row and the
request that created it.

Properties:

- `RowFollowsExecution`: nobody changes the row under a running execution;
- `CompletedIsBacked`: COMPLETED has a `model_id`, and each names a model of the job;
- `ArtifactsNotOlder`: a model's artifacts are at least as new as the model;
- `NoLostWork`: a QUEUED or RUNNING job is in somebody's hands, or the broker
  dropped a message of it (`lost`: the publish failed, the hard time limit, a
  refused retry, a commit of the except block that raised);
- `GivesUpAfterAllRetries`; `ReportedIsRecorded`: baselines, notification and a
  COMPLETED stream status speak only of what is committed;
- `Settles` (liveness): a submitted job ends and stays ended, unless `lost`.

*Fairness.* The API finishes a request it began, Docker restarts the worker
(`restart: unless-stopped`), an idle worker takes a waiting message, a busy one
goes on. Each is weak fairness; no fault is fair, and retries and faults are
bounded, without which a job could fail for ever.

*Runs and bounds.* `training_two_jobs`: two jobs (the least that compete for the
worker and the queue), one retry (the least with a first and a last execution),
one crash. `training_faults`: one job with a crash, a restored delivery while it
runs and a late error at once; it checks the refinement and liveness, without
symmetry. The code's `max_retries` is 2; a third attempt repeats the middle one,
and the proofs hold for every number.

*Findings.* `training_swept_is_over`: the sweep asks the user to resubmit a job that
the redelivered message then runs again; the row may end COMPLETED with that
error message on it. `training_end_reaches_stream`: a job failed by the sweep with
no message left never gets the Redis status, so its log stream never ends.

## 4. Registry: `ModelRegistry`

Each request is a session with what it has read: `promote_model` is `StartPromote`
(read the row), `ReadProduction` (read the current one; raises if there are
several) and `CommitPromotion`, which writes only columns that changed in the
session, as SQLAlchemy does, and nothing if a row it updates is gone. `delete_model`
is `StartDelete`, `DeleteBlobs` and `DeleteRow`; the foreign key
`training_jobs.model_id` has no ON DELETE. The worker is reduced to the three
commits that concern models. A version is the count of rows at registration. Models
of repeated executions of a job share its prefix.

The ids a row may get are in `Models`; `owner[m] = NoJob` says that the id is unused,
so an id is used once. All models have one algorithm, since versions count per
algorithm; promotion looks at all.

- `SplitOnlyByRace`: two models are in PRODUCTION together only if their promotions
  raced. `races` remembers, when a promotion commits, the other promotions to
  PRODUCTION that have read and not committed, and forgets a pair when one of them
  is neither in PRODUCTION nor about to be, so an old race excuses nothing.
- `LinksResolve`, `VersionsDistinct` (until a deletion).
- `registry_one_production` and `registry_delete_is_whole` refute what a test
  and a docstring say (see the findings).

*Bounds.* Two requests race; three models allow a current one and two rivals, or
one job executed three times. `registry` has one job, the refuting runs two.

## 5. Log stream: `LogStream`

One training job, executed up to twice (a retry or a redelivery), and the
connections that follow it. `Attach`, `Emit`, `Report`, `Detach` are
`attach_job_logger`, `JobLogHandler.emit`, `_set_redis_status`, `detach_job_logger`;
lines may follow the status (STEP 9) and the status of an earlier execution stays.
`ExpireLog` and `ExpireStatus` are the times to live of the two keys (a day, longer
than an execution may last). A connection is `Connect`, then rounds of `Fetch`
(LRANGE) and `Check` (GET); `Drop` is a client that leaves or Redis failing.

- `SendsPrefix`: each line once and in order, from the first to the cursor (proved too);
- `LinesArrive`, `StreamEnds` (liveness): a line in the list reaches each connection
  that stays open, and a terminal status ends it. Fairness: the event loop resumes
  each generator. Nothing else has to happen;
- `log_stream_done_is_complete` refutes the docstring: lines pushed between the two
  reads of the last round are answered by "done", without them.

*Bounds.* Two connections, three lines (one before, between and after two reads),
two executions, one expiry.

## 6. Retraining: `Retraining`

The API process and the worker each hold a `RetrainingPipeline` singleton whose jobs
are in memory; `_persist_state` replaces one Redis key by all of them, `_load_state`
replaces all of them by the key. A pipeline runs as a daemon thread of the worker
and keeps the job object it took; when another thread loads, that object is no
longer in the memory that is persisted (`held`).

| Actions | Code |
|---|---|
| `Construct`, `Refresh`, `RunLoad`, `DeleteLoad` | the loads of the singleton, of GET, of run and of delete |
| `Trigger`, `RunQueue`, `Publish`, `PublishFails` | trigger and run, with the step put back when `delay` raises |
| `DeleteRead`, `DeleteWrite`, `DeleteFallsBack` | `delete_job`: memory, then the snapshot read again and filtered |
| `Launch`, `Begin` | `run_retraining_job` and the load of `run_pipeline` |
| `Prepare` ... `Decide`, `Raise` | the five steps and the except block |
| `RestartApi`, `RestartWorker`, `TrainingMoves` | deployments; what `JobLifecycle` lets a training job do |

Validation reads the training job once: the branch that was to wait for it names
undefined variables (`services/retraining_service.py:453-462`), so a job that is
not over raises. A step that persists twice in a row is one action.

Whole-snapshot writes lose updates; that is the code, so what can be promised is
conditional. `behind` remembers the copies that somebody wrote over since they
were read, and `clean` that nobody has persisted such a copy, no thread replaced
the object of a running pipeline and nothing failed. `DecisionBacked` holds
without that condition: whichever copy wins, a decided job was decided on metrics
of a training job that completed. `SnapshotIsTrue` (the snapshot is what clients
were told and what the running pipelines hold, and no job is executed twice) and
`QueuedIsDecided` (liveness) hold while `clean`.

*Fairness.* A handler of the API runs to its end (`Respond` never awaits), and the
worker runs some thread or takes some message. Which thread is not promised.

*Bounds.* Two jobs (two threads that load over each other), two publications (a
failed one and its repetition), and two events, a trigger, a Redis error or a
restart each: two jobs without a fault, or one job with one.

## 7. Serving: `Inference`, `BatchPrediction`, `ABTesting`, `Serving`, `MCServing`

The API process runs one coroutine at a time (`turn`); another takes a step only
while it awaits. `Inference` has the singleton's fields, each named after the model
it came from, and `load_model` cut at its awaits: the database, one download per
artifact when Azure is configured (`azure`), the search and load of the second
stage. `ABTesting` has the tests, the active pointer, the buffered counters, the
simulation progress and the Redis snapshot, with `Load` and `Persist` in the places
the code calls them. `Serving` composes them: a prediction is routed, loads the
arm's model, predicts and is counted; a simulation replays rows through both arms
in the background. `ApiProcess` holds the budget of events the modules share.

`BatchPrediction` is `predict_batch`, which the endpoint runs in a thread of the pool: one action for
each read of a field of the singleton (`BatchRaises`, `ReadsColumns`, `ChoosesPath`,
`Transforms`, `ScoresRows`, `CalibratesRows`, `DecidesRow`, `NamesModel`) and one for
the log of its rows. It shares no lock with the event loop, so `Serving` interleaves
its steps with those of the handlers; `used` collects the models whose parts it read
and `clean` says that no field changed under it.

- `OneRunning`: at most one test is RUNNING and the pointer names exactly that one, in
  memory and in the snapshot.
- `AnalysisEarned`: a test with a statistical analysis has the samples it asks for.
- `LoadIsWhole`: a load that no other overlapped leaves parts of one model only.
- `AnswersAttributed`: `CountedForItsModel`, a routed prediction is counted for the
  model that made it, with the two exceptions its comment names; and
  `BatchIsOfOneModel`, the rows of a batch that no change of the fields overlapped are
  computed by the one model they are logged for.
- `SimulationsEnd` (liveness): a simulation that replays rows ends and says so.

*Fairness.* A coroutine resumes when what it awaits has answered, failed or been
given up (`WF_vars(Moves(c))`); nobody has to send a request.

*Bounds.* Two callers, the least that overlap; two tests with the same models in
opposite arms; two models, one of them calibrated and one of the second stage;
two samples; one batch per arm; four events. `Serves` starts a behaviour in a state
the fresh process reaches with two events, so that loads overlap within the budget;
`Batched` in such a state without tests, with one load about to begin and a batch to
be posted, so that every read of the batch meets every step of a load.
A failure costs an event. Every model's manifest and metrics both hold a
threshold, as those of a trained model do. Left out: the routed-traffic counters,
which decide nothing.
PAUSED is accepted by `start_test` and never set.

## 8. Back office: `BackOffice`

Components that share no state with one another. A behaviour follows one of them,
named by `scene`, and the others keep their initial states; no step of one reads
or writes what another owns, so exploring them one at a time loses nothing.

| Module | Code | Actors |
|---|---|---|
| `Alerts` | `alert_service.py`: `create_alert` in two steps, acknowledge, resolve, the UPDATE that listing begins with | two raisers, one user |
| `FeatureSets` | `feature_service.py`, `feature_worker.py`: create, delete, analyse, both tasks with retries | one request, one worker, the broker |
| `Preprocessing` | the plan, its decisions, its audit and its commits | two editors |
| `Datasets` | `data_service.py`, `data_processing_service.py`: upload with fallback, split, merge with lineage, delete | one of each |
| `Accounts` | `api/v1/auth.py`, `admin.py`, `role_requests.py` | one person, two administrators |
| `Scheduler` | `workers/scheduler.py` | the process and its successors |
| `Baselines` | `baseline_service.py`, `check_performance_baselines` | two requests, the predictions and their feedback, the check |
| `Monitoring` | `drift_service.py`, `bias_service.py`, the two tasks of `monitoring_worker.py` | the worker and a page |
| `BlobStorage` | `core/storage.py` and the path each service writes, reads, signs, removes | saves, removals, restarts with another configuration |
| `TrainingPage` | `frontend/src/pages/Training/index.tsx`: what is selected, the requests in flight, the list of jobs it fetched | one user, the API that answers |
| `FeatureCard` | `FeatureAnalysisCard` of that page: its polling and the analyses it asks for, by itself or when the user does | the page that mounts it, the API, the worker |

A request that reads a row and later commits is two actions; a column set to the
value that was read is not written. A computation of features is one transaction,
so RUNNING is never committed and the row is locked until the end (`RowLocked`).
Messages are acknowledged when the task ends, and come back when the worker dies.
`set_baselines` is its DELETE and its INSERT with the commit: the DELETE sees what
was committed when it began. A check of drift or bias is the computation, the time
stamp, the push to Redis and one action for each alert, which may fail by itself
(`NoticeFails`); a worker that is killed or a request that is cancelled ends a check
anywhere (`CheckDies`). `missed` remembers the titles that neither came to. In `BlobStorage` a path is a
sequence of segments and a store maps a path to the artifact and part that lies
there, so two writers that build the same path overwrite each other in the model
as on the disk.

- `TwinsOnlyByRace`: twins among the ACTIVE alerts come only from checks that
  overlapped (`known` remembers what the later search saw), and two baselines of one
  metric only from requests that did (`over` remembers what each DELETE saw).
- `CompletedIsStored`, `ComputationEnds` (liveness): a COMPLETED set has both blobs;
  a set whose message was sent gets an outcome or its row is removed.
- `AuditMatches`: the audit trail explains every decision unless a commit or a
  generation `crossed` an update. The check of `expected_plan_version` orders
  nothing, since nothing locks the row it reads.
- `DatasetsStand`: an ACTIVE dataset has its file where the row says, unless a delete
  was begun (`doomed`); a merged dataset has all its lineage, unless its request
  was `cut` or a source is `doomed`.
- `RejectedNotGranted`: a rejected request gave no role, unless two decisions
  `overlapped`.
- `JobsKept`: across restarts the jobs are as the calls answered left them, unless a
  process began `blind`.
- `WorseFeedbackShows` (an action property): a right prediction that a corrected label
  makes wrong ends no violation of a baseline, also while a ratio has nothing to
  divide by.
- `MonitoringTells`: the trend shows the latest check of each day, whatever the order of
  the pushes; an OK comes of splits that do not drift, or of a check that read
  nothing, which its volume of 0 shows. What a stored snapshot shows as drifted has an
  alert, is about to have one, or was `missed`: an alert that is taken for a duplicate
  leaves no feature without one. The severities, both ways: an alert of a feature has
  that of its PSI or that of its shift, the first of a feature whose PSI drifted has that
  of the PSI (unless it was missed), and one of an attribute has the level of its groups.
  It is not claimed that an alert shows the worst of its feature: the search for a
  duplicate ignores the severity, and a worse shift may stay behind a PSI warning.
- `PageFollowsUser`: `FeaturesFollowSplit`, the selected feature set was chosen under the
  split that is selected, unless the split was `moved` from under it or its answer came
  late; `AnalysedOnce`, a card asks by itself for no more than one analysis and one for
  each of its requests that was refused, its own or the button's (`own`, `refused`: the
  trigger is given back by whichever was refused). So two of its own may be accepted.
  The converse, that a set which is ready without scores is analysed, does not hold
  (section 14).
- `BlobsStand`: `ReadersFindTheirs` (what a row names is what its readers find: the
  workers, the pages of datasets, and, in the cloud, the planner),
  `ModelsAreWhole` (a model is read whole, in the configuration it was stored in,
  unless a row of the same job was removed) and `RemovalsAreWhole`. Nothing is
  claimed of the reader behind previews and downloads of a feature set:
  `_download_feature_set_blob` raises on a name it does not import (`NameError`) for
  every set. For the same reason the card's preview is not modelled.

*Fairness.* `BackOffice` has two specifications: `Spec` without fairness, which the
theorems are about, and `FairSpec`, which the run uses and only `ComputationEnds` needs:
weak fairness of the worker's steps where feature sets are computed, that is, the worker
takes its next message and goes on with its task. Nobody has to send a request, and no
crash or failure has to happen.

*Bounds.* `MaxAlerts` 2 (twins), `MaxSets` 2 and `MaxAnalyses` 1, one fault and one
retry (a task that cannot succeed is retried without a fault, so both happen),
`MaxWrites` 3, `MaxRuns` 1, `MaxRestarts` 2 (blind and after). Two setters and two
metrics, one computed from the log and one kept from the training; `MaxLogged` 2 predictions, the
least of which one may turn wrong while the other keeps a ratio. Two checks on two
days with two notices, so that two are pushed out of order and one is a repetition.
One artifact of each stage and one model job, `MaxSaves` 3 and `MaxSwitches` 2: the job
may store three times, and the cloud may go and come back. On the page one dataset, one
split job, one set and two visits (a request of the first, the answer in the second);
two sets in the card, the least to turn between, and two refused requests, one of each
kind or two of one. Deadlock is not checked:
rows, runs and restarts are bounded, so a behaviour stops when they are used up.

## 9. Rows, forms, fits: the sequential modules

These run in `BackOffice` too, each as a scene of its own. Nothing interleaves in
them; what is hard is that parts written apart must agree, so each property relates
two of them over every input within the bounds.

| Module | What it has | Steps |
|---|---|---|
| `FeatureEngineering` | `column_role_detector.py`, `fraud_feature_engineer.py`: roles, what a fit learns, the features of a frame | `FitEngineer`, `TransformFrame` |
| `Scoring` | `predict_single` and `predict_batch` from a row's score to its answer; the choice of the second stage | `LoadForScoring`, `AnswerBatch`, `AnswerAlone` |
| `Hyperparameters` | the catalogue, `hyperparameter_validator.py`, the API's refusals, the constructors of the trainer | `OpenForm`, `ChangeValue`, `SubmitForm`, `BuildModel` |
| `Tuning` | the API's contract on ranges, the grid, random, Bayesian and manual tuners, the final fit | `AskTuning`, `PrepareSpace`, `GridSearch`, `RandomSearch`, `BayesianSearch`, `FitBest`, `FitManually` |
| `ModelFitting` | label coding of both stages, `train_with_splits`: split, balance, fit, calibrate, threshold, test | `CodeLabels`, `SplitTrain`, `BalanceFit`, `FitModel`, `Calibrate`, `TestModel` |
| `FeatureAnalysis` | the target an analysis finds, the filters and the ranking of `feature_selector.py`, the report's statuses | `ComputeSet`, `RankFeatures`, `ReportNoTarget`, `AnalysisFails` |

- `ServedAlike`: `FeaturesAlike`, a row gets the features it would get alone, and a
  training row those it was trained with (`Skewed` names the exceptions: the time
  since the user's last row, the activity of an unknown user, a logarithm that a
  negative value takes from all rows, the time features of a text time that is not
  written as the first row of its frame has it); and `ScoredAlike`, a first-stage model answers
  a row alone as in a batch, unless its column names differ in case.
- `ChecksAgree`: `QueuedTrains`, what the API queues is trained, and
  `OfferedIsQueued`, one offered value changed in a default form is accepted; the
  exceptions of both are listed in the two definitions. Among those of the first is
  an objective for more classes: the constructor replaces it when the labels have two,
  and a search sets it past the constructor, on an estimator without `num_class`.
- `SearchedAsAsked`: a fitted model is fitted with all rows and has a value that was
  asked for, or, trained manually, the int of one in a parameter the constructor cuts
  (2.5 trains with 2). `space` is what a search may come to and `tried` what it compared,
  which are two things: the random and the Bayesian search stop after `n_iter` draws
  (`Draws`), so they compare no more than those, of what was asked and nothing else; a
  grid, and a random search of one parameter with no more values than draws, compare
  all (`Exhaustive`). `LeavesOut` names what no number of draws reaches.
- `DecidesSoundly`: a completed training predicts classes it was fitted on
  (`PredictsTrained`), its threshold is on the scale it is applied on
  (`ThresholdFits`), and the classes are made even once (`EvenedOnce`).
- `AnalysedSoundly`: no two correlated features are kept and each group of such keeps
  one; the target is the one the features were computed for and is not ranked, and
  an analysis fails no set, unless the report that named the target is overwritten.

`pd.to_datetime` reads a whole column by the layout of its first cell, and what does not
fit becomes NaT; `Stamp` is the time that a row gets, given its frame. `Written` says how
a text time is laid out: a day above twelve tells the order of day and month, another
does not (`Either`, which is read with the month first unless the column says otherwise),
an ISO date is of its own, and for text without a guessed layout each cell is read for
itself (`Loose`). Numbers and datetime columns need no layout. Time zones, which make
the conversion of a mixed column raise, are left out.

*What is left open.* Probabilities, importances, correlations, drift statistics are
values of small sets chosen by the action that computes them. In `FeatureEngineering` the
features are computed from the cells, since the property compares them; a mean is
the total it divides.

*Bounds.* Six columns, one for each role (target, time, two amounts that form a
deviation pair, user, identifier), frames of two rows, the least for an effect of one row on another. A row has one
column with a value of its own, of two (one of them negative), or a time in one of
two layouts; its other cells are alike in all rows.
All nine algorithms with two changed values (a conflict takes two), labels of two
classes (as those of fraud are; with more, the constructor corrects the other way). Amounts up to
`MostHalves` 6, that is 3 in steps of a half: more list values than `GridCap`, fractions
between two whole ends; two draws, so that a search sees some of its values, or all. Scores of three kinds and two thresholds, a half and one
above. Three features, for a chain of correlations; two gains and importances,
two analyses, so that one finds the report of the other.

## 10. What is proved

`TrainingPipeline_proofs`: for every set of jobs, every number of retries and of
faults, `TypeCorrect`, `RowFollows`, `CompletedBacked`, `ArtifactsFresh`,
`WorkNotLost`, `AllRetriesUsed`, `ReportsRecorded`. None of the six invariants is
inductive alone; `Inductive` adds `MessageHistory` (a held or waiting message comes
from an execution already counted, so a new execution is newer than every model),
`FreshJobs` (nothing exists of a job not yet created) and `ExecutionSoFar` (what
the steps taken so far have written). `RowFollowsExecution` needs that only a worker
without a message sweeps; `NoLostWork` that each way of giving up a message either
puts one back, ends the job, or sets `lost`. The step is proved in four parts, on
the history, the tables, the reports and the work, each with one step per action.

`TrainingRefinement_proofs`: `Refinement`, that `TrainingPipeline` implements
`JobLifecycle`. Each commit maps to one lifecycle step (`CreateJob` to `Submit`,
`LoadJob` to `Begin`, `Register` to `RegisterModel`, `Complete` to `Finish`,
`MarkFailed` and a sweep to `Fail`, `DeleteJob` to `Delete`), every other action to
a stutter. That a registered or linked model is newer than any before it needs
`NoLaterResult` (an execution meets no result later than its own); that only a
trainable job begins or fails needs `PreparedIsOver`.

`ModelRegistry_proofs`: for every finite set of models and every set of requests,
`TypeCorrect`, `InductiveInvariant`, `SplitNeedsRace` and `LinksAlwaysResolve`. For
the first three the strengthening is
`ReadCurrent`: a promotion about to commit raced with each model in PRODUCTION that
it will not archive. Only a commit to PRODUCTION is hard: `RaceKept` shows that
the pairs needed survive, `CommitRaces` that they are enough. `LinksAlwaysResolve`
rests on `RegisteredForJob` (each row was registered for its owner) and `Linking`
(the worker about to link holds the model it registered for that job).

`LogStream_proofs`: for any number of connections, lines, executions, reconnections
and expiries, `TypeCorrect` and `StreamSendsPrefix`. `SendsPrefix` is not inductive:
`StreamInv` adds that the list is in the order of its lines (`LogOrdered`), that what a
connection got is older than what lies beyond its cursor (`SentOrdered`), and that
without an expiry it is exactly the list up to the cursor (`SentWhole`).

`VersionsStayDistinct` of the registry: `Numbered` adds that a row has an owner and that,
while nothing was deleted, every version is below the number of rows, so that the next
number is new. It needs `Models` finite, since versions count rows.

`Retraining_proofs`: for any jobs, faults and restarts, `TypeCorrect`,
`DecisionsAreBacked`, `SnapshotTells`.

- The type invariant needs `MayPublish`: a run that was begun has a publication left,
  since `RunLoad` looks at the bound and `Publish` no more.
- `DecisionBacked` speaks of the snapshot and of what clients are shown; `DecisionInv`
  says the same of every copy that may become it: both memories, what a deletion read
  (`CopiesBacked`), and the object of each thread at its step (`ThreadBacked`).
- `SnapshotIsTrue` holds while `clean`, and `TrueInv` says what the copies look like
  then. A copy that nobody wrote over is the snapshot (`ApiCurrent`, `RawCurrent`,
  `WorkerCurrent`), and each job is in one of four phases (`Phases`): unknown; waiting,
  for its request, its message or its thread to begin; in hand of the thread whose object
  the snapshot shows; or over. `PhaseKept` says on
  which pieces of state a phase depends, so an action needs an argument only for the
  job it touches. `KeyInv` and `SingletonInv` (what holds before the first write of
  the key and before the first request) hold in any case.

`Serving_proofs`: for any models, tests and callers, `TypeCorrect`, `OneTestRuns`,
`AnalysesAreEarned`, `LoadsAreWhole`, `AnswersAreAttributed`. The theorems are about
`FairSpec`, which starts with the fresh process; the run also starts in states that
the fresh process reaches.

- The A/B tests: an image of the tests is right (`ImageOK`) when it names its one
  RUNNING test and each analysis is earned; memory is right always, the snapshot once
  it was written. `Load` and `Persist` replace one image by another, so each operation is
  shown right on the image it works on.
- The loads: `NextStep` shows that each of the many steps has one of few shapes (a
  call asks, ends, proceeds or loads; a load gives up, resets, goes on, completes, loads
  locally or tries the second stage). `ServedInv` is proved by shape, not by action. It says
  what the fields hold while a load runs alone: as they were until it resets them
  (`SelectInv`), then only its own parts and never all (`ResetInv`), then its model
  (`LoadedInv`), or what they were if it failed before the reset (`FailInv`). `TurnInv` relates a request
  to the load it waits for. `BatchInv` says that what a batch has read comes
  from the fields as they are, as long as none changed under it.

`BackOffice_proofs`: for any numbers of people, requests, jobs, alerts, feature sets,
datasets and visits, `RejectionsStand`, `JobsAreKept`, `PageFollows`, `TwinsNeedRace`,
`SetsAreStored`, `DatasetsKeep`, `MonitoringIsTold`, and for all components of the back
office `TypesHold`. The module extends `Computations_proofs`. `ComponentStep` shows that a step of the back office is,
for each component, one of its own or none, so each theorem rests on an invariant of
one component (of two for `PageFollows` and `TwinsNeedRace`):

- Accounts (`DecidedOnce`): what was granted stays APPROVED, and a request that an
  administrator has open is PENDING, unless two had it open at once. Without the second
  half a decision could be made on a request already granted.
- Scheduler: in a process that is not blind, memory is what was answered, and so is
  what Redis would give back to the next process, unless the last persist was lost.
- The page and the card: which answer may still be on its way for which selection; while
  the trigger is unused, no more analyses were asked for than refused (`TriggerKept`).
- Alerts (`RowsKept`, `SearchedInVain`): no row becomes ACTIVE again, so whoever searched
  in vain and inserts makes a twin only if another has inserted since.
- Baselines (`Whole`, `Committed`): the rows of one request come and go together, so a
  DELETE that saw one of them removes all that are left of them.
- Feature sets (`StoredSoFar`): at each step of a computation the blobs of its earlier
  steps are stored, and no step removes a blob.
- Datasets (`DataInv`): before a request commits a row its file is stored where the row
  will say (`StoredBeforeRows`); the row of an upload or merge is not ACTIVE before its
  step (`NotYetActive`); the sources of a merge are ACTIVE or a delete of them was begun
  (`SourcesStand`); every open delete has marked its dataset (`DeletesDoom`).
- Monitoring (`MonitorInv`): every snapshot and alert, stored, being stored or about to
  be, is true of the splits (`SnapshotTrue`, `NoticeTrue`); `ToldInv`: in
  the alerts, and in what a check has yet to raise, the PSI of a drifted feature comes
  before its shift (`Leads`), and the drifted features of a snapshot are raised, missed or
  still to come. What a fold over a sequence
  is needs a recursion over the subsets of its indices; `SubsetInduction`, from `LeastOf`,
  takes the place of the library's theorems, whose operator parameters are out of reach.
- Types (`TypesHold`): for each component `X`, `XTyped` is what its invariant above leaves
  out of `XTypeOK` and `XTypeStep` that its steps keep it. Two are more than the range of
  a variable. That the messages of a feature set and the checks of monitoring stay within
  their bounds is a count: what is done and what is still held are together no more than
  was begun (`DoneOf`, `CopyTaken` to `CopyKept`). That a fitted table has its roles on different columns needs
  that each role is looked for among the columns the roles before it left
  (`HoldersApart`, `OneOfFour`).

`Computations_proofs`: for any columns, rows, forms, ranges, scores, labels and
artifacts, and for any number of writers of a plan, `RowsAreServedAlike`,
`ModelsDecideSoundly`, `TrailExplainsPlan`, `WorseIsShown`, `ChecksAndModelsAgree`,
`SearchesTryWhatIsAsked`, `AnalysesAreSound`, `PathsKeepApart`. `ComputationStep` plays
the part of `ComponentStep`. Each theorem is an invariant of its component, and a lemma
that what the component computes is what the property asks:

- Rows (`EngineerInv`, `ScoredInv`): what a row takes from other rows is nothing when it
  is a user's only one: the sum is its amount (`SumOfOneRow`), and no row is earlier
  (`AloneIsFirst`); a time written as the first row's is read as it would be alone. Whatever is not skewed, it has in a frame as alone (`RowAlike`).
- Fits (`FittingInv`): at each step, what the steps before it have made. A threshold
  fits since the calibrator, or its failure, decides the scale of both; the classes are
  even once since only undersampling evens them, and then nothing weighs them.
- Plan (`PlanInv`): the row of a plan is explained by its own trail, and so is every
  copy a writer holds, until a commit paired columns of two (`crossed`): each
  decision appended to a trail is the last on its feature and no other's (`DecisionSaid`).
- Metrics (`LoggedCounts`): a counter moved from right to wrong crosses each of the
  thresholds in one direction only, cross-multiplied.
- Forms (`FormInv`): what is queued is neither refused nor fails the check, for each
  algorithm and each conflict of two changed values.
- Searches (`TuningInv`): the space is that of the setting (`Space`), for lists and
  ranges of any length; what was compared is of it and no more than the draws, or all
  of it in an exhaustive search; the best one was compared, or is the default.
- Analyses (`AnalysisInv`): a feature is dropped for an earlier one, so the first of a
  group of correlated ones is kept, and of two scored ones the ranking prefers the better
  (`ChosenIsSound`). `LeastOf`, that a set of natural numbers has a least one, takes the
  place of an induction.
- Paths (`KeptInv`): each store has only its own first segments; each file lies at the
  place of its row (`DatasetFiles`, `FeatureFiles`, `ModelFiles`), so two rows share a
  path only if they are of one job, and `RowAt` says which try its parts are of. A removal
  takes what lies under its row's path (`Shrunk`) and a save adds to it (`Grown`): every
  operation is one of the two or changes no store.

Assumptions: `MaxRetries` and the bounds are natural numbers, the days of monitoring at
least one; `NoModel`, `NoJob`, `NoTest` and the other null values are no members of their
sets; `Models` of the registry, the scores of features, the anomaly types, the watched
features and the protected attributes are finite sets; the columns whose names are
recognised are columns of the table; each arm of a test names a model; the requests that upload, split and merge datasets have different names, and so
have, as paths, datasets, feature sets and jobs: ids are never used twice. The modules
state them where the constants are declared, and TLC evaluates them on each run.

Only model-checked: `Settles`, `LinesArrive`, `StreamEnds`, `QueuedIsDecided`,
`SimulationsEnd`, `ComputationEnds` (liveness under fairness is beyond this prover);
and the refuted properties. Every invariant and every action property that a passing run
checks, and the refinement, is the subject of a theorem. The type invariants of the training pipeline, the registry, the log stream and retraining
are proved and were left out of their runs.

## 11. Runs

| Run | Kind | What it checks |
|---|---|---|
| `training_two_jobs` | pass | `RowFollowsExecution`, `CompletedIsBacked`, `NoLostWork`, `GivesUpAfterAllRetries` |
| `training_faults` | pass | `ArtifactsNotOlder`, `ReportedIsRecorded`, `ImplementsLifecycle`, `Settles` |
| `training_swept_is_over`, `training_end_reaches_stream` | refuted | what the sweep's message and the stream's end promise |
| `registry` | pass | `SplitOnlyByRace`, `LinksResolve`, `VersionsDistinct` |
| `registry_one_production`, `registry_delete_is_whole` | refuted | one PRODUCTION model; delete removes all or nothing |
| `log_stream` | pass | `SendsPrefix`, `LinesArrive`, `StreamEnds` |
| `log_stream_done_is_complete` | refuted | "done" comes after every line |
| `retraining` | pass | `DecisionBacked`, `SnapshotIsTrue`, `QueuedIsDecided` |
| `serving` | pass | `TypeOK`, `OneRunning`, `AnalysisEarned`, `LoadIsWhole`, `AnswersAttributed`, `SimulationsEnd` |
| `back_office` | pass | `TypeOK` and the properties of sections 8 and 9 |

## 12. Abstractions

- What a fit computes, metrics and log text are left out of the training pipeline;
  `ModelFitting` and `Hyperparameters` have the decisions around them.
- A commit is one atomic step; READ COMMITTED is modelled by separate reads.
- `_save_model_artifacts` uploads several blobs; they are `pkl` and the rest.
- STEP 1 waits up to three seconds for the row: a row is committed before its
  message is published, so a missing row is a deleted one.
- In `TrainingPipeline` models are not deleted; `ModelRegistry` has the deletions.
- A late error is bounded; so are crashes and restored deliveries.

## 13. Not modelled

- Comparison, analytics and audit: reports over rows, or a list in memory nobody reads
  back; they change nothing another component waits for.
- Authentication and permissions: stateless checks. Migrations: run once, offline.
  Rate limiting: the middleware is never installed.
- What an estimator learns and a statistic or explanation computes: numerical code.
  `ml/` at the top of the repository is an older copy of `backend/ml` that nothing
  imports; `validation_transformer.py`, `feature_engineer.py`, `fairness_analyzer.py` and
  `explainer.py` have no caller in the application.
- `EDA_anomaly_detection.ipynb`, an exploration that no component reads.
- In `core/storage.py`, the methods without a caller: feature definitions, reports,
  prediction logs, experiments, backups, temporary files.
- The advice a preprocessing plan is proposed from, previews of datasets, downloads and
  names: they only read, or only word an answer. The preview of a feature set in the card,
  which the API always fails.
- The other pages under `frontend/src` (about 12 000 lines with the two modelled): layout
  and forms over the API, without requests whose order matters.

## 14. Seen while modelling, without a run

- `services/ab_testing_service.py:842` says readiness "must include at least some
  label-backed evaluation basis"; unlabelled traffic fills the samples (829-836).
  `abort_test` ("Abort a running test") accepts any status.
- `services/inference_service.py:160` "safe for asyncio context": two loads that
  overlap mix their parts, since each awaits between the fields (`LoadIsWhole`
  needs `clean`).
- `services/alert_service.py:92-93` "updates existing instead of creating new": the
  existing row is returned as it is. `resolve_alert` writes `resolution_note`, and
  the column is `resolved_notes`.
- `workers/monitoring_worker.py:224-229` passes a `threshold` argument that
  `create_performance_alert` (`services/alert_service.py:447`) does not have; the
  TypeError is logged and swallowed, so no violation becomes an alert although
  line 219 says "Persist violations as performance alerts".
- `services/feature_service.py`: the plan version is called immutable, and two
  concurrent commits give the same version.
- `backend/ml/algorithms/trainer.py` (about 185-201): when calibration fails the calibrator is
  left unfitted but not None, so the prediction on the test split raises and the
  announced fallback to raw probabilities never happens.
- `backend/ml/algorithms/trainer.py` (about 970): above 500 000 rows SMOTE is said to fall
  back to class weights, and the model is built without any.

Monitoring and baselines:

- A computation of drift that fails, or finds no data, is stored as an "OK" snapshot
  (`services/drift_service.py:243`). It compares the model's own training splits, so it
  cannot change until the model is trained again.
- The KS statistic is passed as PSI, so a KS warning may become a CRITICAL "PSI" alert;
  deduplication ignores the severity, so a worse alert of the same title is dropped.
- PUT of the drift thresholds stores nothing. A NaN in a protected column makes a
  group of rate 0, which is CRITICAL bias.
- Without feedback `fpr` is "not found" and counts as violated; a training AUC of None
  makes the check raise. POST `/models/{id}/baselines` passes dictionaries where
  attributes are read, and always raises.

Features and rows:

- Two columns mapped to one role: the first is lost to all roles. A log feature says it
  uses the sign of the training values and uses that of the frame. The train and the
  test feature set are fitted by transformers of their own.
- An analysis overwrites the report that names the target: the next analysis, or its
  retry, detects again without the mapping. A mapped target that cannot be detected
  stays among the features of a set stored in the cloud, and of a local one the analysis
  fails on an unbound name and turns COMPLETED into FAILED; a retry that succeeds keeps
  FAILED.
- A feature of two values whose name contains `fraud` or `label` may be taken for the
  target. The variance filter runs after scaling and removes exactly constant columns,
  though the reason says "near-constant". A feature is dropped for an earlier one that
  is itself dropped. `max_features`, `correlation_threshold` and
  `enable_feature_selection` of the set are ignored by `analyze`.
- Only the batch endpoint normalises the case of columns; it never types anomalies and
  ignores that a model is of the second stage. A failed download of the calibrator
  leaves raw scores under a threshold chosen on calibrated ones.

- `services/feature_service.py:547` uses `Path`, which the file does not import: each
  preview and each download of a feature set raises NameError, and the API answers 500.

Forms, searches and fits:

- `schemas/hyperparameter_validator.py:26` "No exceptions are raised": a list of
  objectives, which a grid may have, raises AttributeError (line 100).
- The catalogue offers values the check refuses (depth 0, regression objectives, zero
  for `n_jobs`), and `scale_pos_weight` 1 overrides the `class_weight` strategy.
- `schemas/hyperparameter_validator.py:5` says creation is never blocked, and the API
  refuses every ❌.
- "Remove max_samples" for a forest without bootstrap still fails, on the trainer's own
  0.8. A list of `early_stopping_rounds` passes the check and fails in a grid.
- `grid.py` reads `cv`, while the other tuners and the form say `cv_folds`; it samples its
  rows with replacement. Null defaults break grid and random search. A range whose
  float ends are whole numbers is searched over integers. A step below one raises.
- SMOTE never runs (its package is not required). Under undersampling a job's own
  class weights still apply (`trainer.py:652` says not), and at stage 2 classes vanish.
- The second stage numbers the classes of both splits: a class of the test set only
  leaves a gap, and LightGBM then predicts codes it was not fitted on. The binary
  coding takes the label "0" for an anomaly.

Storage:

- `delete_model` removes `model.pkl` and `model.onnx` and leaves the preprocessor,
  calibrator and manifest; local model files are never removed. Rows of one job share
  their files, so deleting one breaks the other.
- The plan of a locally stored dataset fails: its source is always read from the cloud.
  A model saved locally is not found once Azure is configured, and the reverse may
  find an older local one. A cloud dataset removed while the cloud is not configured
  stays. A download URL is signed without looking for the blob.

Pages:

- Training sends the dataset picked by hand and falls back to the train split, features
  the other way round, so a job may be trained on another table than its features
  were computed of.
- `FeatureAnalysisCard.tsx:268` promises to "Auto-trigger analysis when Feature Set is
  ready but no scores in report". The trigger (line 273) is the card's, not the set's, and
  is given back only by a refusal: a card that had one set analysed and is turned to
  another leaves that one without scores.
- A refused "Retry Analysis" gives the trigger back that the card's own accepted request
  had used, so the card may ask by itself once more.
- A feature set deleted from the registry of sets stays selected, and a training is
  offered with it.
