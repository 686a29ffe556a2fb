-------------------------- MODULE TrainingPipeline --------------------------
(***************************************************************************)
(* One Celery worker (compose.yml: --concurrency=1) executing train_model  *)
(* for the jobs that the API commits and publishes.                        *)
(*                                                                         *)
(* Every database commit, blob upload, Redis write and broker operation of *)
(* train_model is an action of its own, so that a crash, a redelivery or a *)
(* DELETE request can fall between any two of them.  The broker is Celery  *)
(* over Redis with task_acks_late and task_reject_on_worker_lost: a        *)
(* message leaves it only when its execution is over.                      *)
(***************************************************************************)
EXTENDS Integers, FiniteSets

CONSTANTS
  Jobs,           \* training_jobs ids
  MaxRetries,     \* max_retries of the task (2 in the code)
  MaxCrashes,     \* bound: losses of the worker or of its child process
  MaxRestores,    \* bound: deliveries restored by the visibility timeout
  MaxLateErrors    \* bound: errors after STEP 7 and of Redis status writes

ASSUME RetriesAssumption == MaxRetries \in Nat
ASSUME BoundsAssumption == MaxCrashes \in Nat /\ MaxRestores \in Nat /\ MaxLateErrors \in Nat

VARIABLES
  \* the training_jobs table, one function per column
  status, progress, error, linked,
  \* the ml_models table (a row is its job and the execution that made it),
  \* the models with baseline rows, and those whose success was announced
  models, baselined, notified,
  \* blobs models/{job_id}/...: the execution that wrote model.pkl, the others
  pkl, rest,
  stream,         \* Redis key training:status:{job_id}
  api,            \* progress of the request that creates the job
  queue,          \* broker: number of deliverable copies of each message
  pc, task, restored,   \* the worker, the message it holds unacknowledged
  attempts,       \* history: executions of the job started so far
  lost,           \* history: the broker dropped a message of this job
  crashes, restores, lateErrors

row == <<status, progress, error, linked>>
registry == <<models, baselined, notified>>
blobs == <<pkl, rest>>
worker == <<pc, task, restored>>
bounds == <<crashes, restores, lateErrors>>
vars == <<row, registry, blobs, stream, api, queue, worker, attempts, lost, bounds>>

-----------------------------------------------------------------------------
Messages == Jobs \X (0..MaxRetries)      \* job_id and request.retries
NoTask == <<"none", 0>>                  \* the worker holds no message
Terminal == {"COMPLETED", "FAILED"}
Statuses == {"ABSENT", "QUEUED", "RUNNING", "DATA_PREPARED"} \cup Terminal

\* The steps of train_model's try block, in order, up to STEP 7 and after it.
Body == {"load", "prepare", "train", "upload", "uploadRest", "uploaded",
         "register", "complete"}
AfterComplete == {"baselines", "report", "notify"}
Handler == {"raising", "markFailed"}     \* its except block
Busy == Body \cup AfterComplete \cup Handler \cup {"ack"}

TypeOK ==
  /\ status \in [Jobs -> Statuses]
  /\ progress \in [Jobs -> {0, 10, 30, 70, 85, 100}]
  /\ error \in [Jobs -> {"none", "raised", "restarted"}]
  /\ linked \in [Jobs -> Nat]            \* model_id; 0 is NULL
  /\ models \subseteq Jobs \X Nat
  /\ baselined \subseteq Jobs \X Nat
  /\ notified \subseteq Jobs \X Nat
  /\ pkl \in [Jobs -> Nat]
  /\ rest \in [Jobs -> Nat]
  /\ stream \in [Jobs -> {"none"} \cup Terminal]
  /\ api \in [Jobs -> {"new", "committed", "done"}]
  /\ queue \in [Messages -> Nat]
  /\ pc \in {"down", "idle"} \cup Busy
  /\ task \in Messages \cup {NoTask}
  /\ pc \in Busy => task \in Messages
  /\ restored \in BOOLEAN
  /\ attempts \in [Jobs -> Nat]
  /\ lost \in [Jobs -> BOOLEAN]
  /\ crashes \in Nat
  /\ restores \in Nat
  /\ lateErrors \in Nat

Init ==
  /\ status = [j \in Jobs |-> "ABSENT"]
  /\ progress = [j \in Jobs |-> 0]
  /\ error = [j \in Jobs |-> "none"]
  /\ linked = [j \in Jobs |-> 0]
  /\ models = {} /\ baselined = {} /\ notified = {}
  /\ pkl = [j \in Jobs |-> 0]
  /\ rest = [j \in Jobs |-> 0]
  /\ stream = [j \in Jobs |-> "none"]
  /\ api = [j \in Jobs |-> "new"]
  /\ queue = [m \in Messages |-> 0]
  /\ pc = "down" /\ task = NoTask /\ restored = FALSE
  /\ attempts = [j \in Jobs |-> 0]
  /\ lost = [j \in Jobs |-> FALSE]
  /\ crashes = 0 /\ restores = 0 /\ lateErrors = 0

-----------------------------------------------------------------------------
(* The API process *)

\* create_training_job commits the row; a job that only prepares data is
\* finished by that and is never published.
CreateJob(j, processing_only) ==
  /\ api[j] = "new"
  /\ status' = [status EXCEPT ![j] = IF processing_only THEN "DATA_PREPARED" ELSE "QUEUED"]
  /\ progress' = [progress EXCEPT ![j] = IF processing_only THEN 100 ELSE 0]
  /\ api' = [api EXCEPT ![j] = IF processing_only THEN "done" ELSE "committed"]
  /\ UNCHANGED <<error, linked, registry, blobs, stream, queue, worker, attempts, lost, bounds>>

\* train_model.delay after the commit.
Publish(j) ==
  /\ api[j] = "committed"
  /\ api' = [api EXCEPT ![j] = "done"]
  /\ queue' = [queue EXCEPT ![<<j, 0>>] = @ + 1]
  /\ UNCHANGED <<row, registry, blobs, stream, worker, attempts, lost, bounds>>

\* The API stops, or the broker refuses, between the commit and the delay:
\* nothing compensates for the committed row.
PublishFails(j) ==
  /\ api[j] = "committed"
  /\ api' = [api EXCEPT ![j] = "done"]
  /\ lost' = [lost EXCEPT ![j] = TRUE]
  /\ UNCHANGED <<row, registry, blobs, stream, queue, worker, attempts, bounds>>

\* delete_training_job: any status, and the message stays in the broker.
DeleteJob(j) ==
  /\ status[j] # "ABSENT"
  /\ status' = [status EXCEPT ![j] = "ABSENT"]
  /\ progress' = [progress EXCEPT ![j] = 0]
  /\ error' = [error EXCEPT ![j] = "none"]
  /\ linked' = [linked EXCEPT ![j] = 0]
  /\ UNCHANGED <<registry, blobs, stream, api, queue, worker, attempts, lost, bounds>>

-----------------------------------------------------------------------------
(* The broker and the worker process *)

\* Mutant of Boot: the sweep also runs while the worker is busy.
SweepAnyTime(sweeps) ==
  /\ pc' = IF pc = "down" THEN "idle" ELSE pc
  /\ LET stale == {j \in Jobs : sweeps /\ status[j] = "RUNNING"}
     IN /\ status' = [j \in Jobs |-> IF j \in stale THEN "FAILED" ELSE status[j]]
        /\ error' = [j \in Jobs |-> IF j \in stale THEN "restarted" ELSE error[j]]
  /\ UNCHANGED <<progress, linked, registry, blobs, stream, api, queue, task, restored,
                 attempts, lost, bounds>>

\* worker_ready runs cleanup_stale_running_jobs before the first delivery;
\* an exception in it is logged and the worker serves all the same.
Boot(sweeps) ==
  /\ pc = "down"
  /\ pc' = "idle"
  /\ LET stale == {j \in Jobs : sweeps /\ status[j] = "RUNNING"}
     IN /\ status' = [j \in Jobs |-> IF j \in stale THEN "FAILED" ELSE status[j]]
        /\ error' = [j \in Jobs |-> IF j \in stale THEN "restarted" ELSE error[j]]
  /\ UNCHANGED <<progress, linked, registry, blobs, stream, api, queue, task, restored,
                 attempts, lost, bounds>>

Consume(m) ==
  /\ pc = "idle" /\ queue[m] > 0
  /\ queue' = [queue EXCEPT ![m] = @ - 1]
  /\ pc' = "load" /\ task' = m /\ restored' = FALSE
  /\ attempts' = [attempts EXCEPT ![m[1]] = @ + 1]
  /\ UNCHANGED <<row, registry, blobs, stream, api, lost, bounds>>

\* The worker holds nothing any more.
Release(next) == pc' = next /\ task' = NoTask /\ restored' = FALSE

\* The execution is over: the broker forgets the delivery, not a copy of it
\* that was restored meanwhile.
Ack ==
  /\ pc = "ack"
  /\ Release("idle")
  /\ UNCHANGED <<row, registry, blobs, stream, api, queue, attempts, lost, bounds>>

\* Mutant of GiveBack: task_acks_late is off.
AckEarly == queue' = queue

\* The held message becomes deliverable again, once.
GiveBack ==
  queue' = IF pc \in Busy /\ ~restored THEN [queue EXCEPT ![task] = @ + 1] ELSE queue

\* Redis restores a delivery that is not acknowledged within the visibility
\* timeout (an hour unless configured; the task may run for two).
Restore ==
  /\ pc \in Busy /\ ~restored /\ restores < MaxRestores
  /\ GiveBack
  /\ restored' = TRUE /\ restores' = restores + 1
  /\ UNCHANGED <<row, registry, blobs, stream, api, pc, task, attempts, lost, crashes,
                 lateErrors>>

\* The pool's child process dies: task_reject_on_worker_lost requeues.
LoseChild ==
  /\ pc \in Busy /\ crashes < MaxCrashes
  /\ GiveBack
  /\ Release("idle") /\ crashes' = crashes + 1
  /\ UNCHANGED <<row, registry, blobs, stream, api, attempts, lost, restores, lateErrors>>

\* The whole worker stops: acks_late leaves the message unacknowledged.
LoseWorker ==
  /\ pc # "down" /\ crashes < MaxCrashes
  /\ GiveBack
  /\ Release("down") /\ crashes' = crashes + 1
  /\ UNCHANGED <<row, registry, blobs, stream, api, attempts, lost, restores, lateErrors>>

\* time_limit: the child is killed in the middle of a fit that never returned
\* to Python for the soft limit, and the message is acknowledged.
HardTimeLimit ==
  /\ pc = "train"
  /\ Release("idle")
  /\ lost' = [lost EXCEPT ![task[1]] = TRUE]
  /\ UNCHANGED <<row, registry, blobs, stream, api, queue, attempts, bounds>>

-----------------------------------------------------------------------------
(* train_model: the try block *)

Job == task[1]
Run == attempts[Job]                     \* the execution in progress

\* A step that reads the job row and writes its progress; on a deleted row it
\* raises (AttributeError on None) instead.
WithRow(step, next, percent) ==
  /\ pc = step
  /\ \/ /\ status[Job] # "ABSENT"
        /\ pc' = next
        /\ progress' = [progress EXCEPT ![Job] = percent]
     \/ /\ status[Job] = "ABSENT"
        /\ pc' = "raising" /\ UNCHANGED progress

\* STEP 1: RUNNING whatever the status was; error_message is not cleared.
LoadJob ==
  /\ WithRow("load", "prepare", 10)
  /\ status' = IF status[Job] = "ABSENT" THEN status ELSE [status EXCEPT ![Job] = "RUNNING"]
  /\ UNCHANGED <<error, linked, registry, blobs, stream, api, queue, task, restored,
                 attempts, lost, bounds>>

\* STEPS 2-3 (load and validate the split, sample, check the schema), STEP 4
\* (fit, tune, evaluate) and the end of STEP 5 each finish by committing progress.
PrepareData == WithRow("prepare", "train", 30)
Fit == WithRow("train", "upload", 70)
SaveProgress == WithRow("uploaded", "register", 85)

Progress ==
  /\ PrepareData \/ Fit \/ SaveProgress
  /\ UNCHANGED <<status, error, linked, registry, blobs, stream, api, queue, task,
                 restored, attempts, lost, bounds>>

\* Mutant of UploadModel: overwrite=False.
UploadIfAbsent ==
  /\ pc = "upload" /\ pc' = "uploadRest"
  /\ pkl' = [pkl EXCEPT ![Job] = IF @ = 0 THEN Run ELSE @]
  /\ UNCHANGED <<row, registry, rest, stream, api, queue, task, restored, attempts, lost, bounds>>

\* STEP 5: _save_model_artifacts overwrites the blobs of the job's prefix,
\* model.pkl first.
UploadModel ==
  /\ pc = "upload" /\ pc' = "uploadRest"
  /\ pkl' = [pkl EXCEPT ![Job] = Run]
  /\ UNCHANGED <<row, registry, rest, stream, api, queue, task, restored, attempts, lost, bounds>>

UploadRest ==
  /\ pc = "uploadRest" /\ pc' = "uploaded"
  /\ rest' = [rest EXCEPT ![Job] = Run]
  /\ UNCHANGED <<row, registry, pkl, stream, api, queue, task, restored, attempts, lost, bounds>>

\* Mutant of Register: the new model is never committed.
RegisterUncommitted ==
  /\ pc = "register" /\ pc' = "complete"
  /\ UNCHANGED <<row, registry, blobs, stream, api, queue, task, restored, attempts, lost, bounds>>

\* Mutant of Register: success is reported before STEP 7.
RegisterThenReport ==
  /\ pc = "register" /\ pc' = "report"
  /\ models' = models \cup {<<Job, Run>>}
  /\ UNCHANGED <<row, baselined, notified, blobs, stream, api, queue, task, restored,
                 attempts, lost, bounds>>

\* STEP 6 uses the job object loaded before, not the row.
Register ==
  /\ pc = "register" /\ pc' = "complete"
  /\ models' = models \cup {<<Job, Run>>}
  /\ UNCHANGED <<row, baselined, notified, blobs, stream, api, queue, task, restored,
                 attempts, lost, bounds>>

\* Mutant of Complete: a model_id once set is kept.
CompleteKeepingLink ==
  /\ WithRow("complete", "baselines", 100)
  /\ IF status[Job] = "ABSENT"
     THEN UNCHANGED <<status, linked>>
     ELSE /\ status' = [status EXCEPT ![Job] = "COMPLETED"]
          /\ linked' = [linked EXCEPT ![Job] = IF @ = 0 THEN Run ELSE @]
  /\ UNCHANGED <<error, registry, blobs, stream, api, queue, task, restored, attempts,
                 lost, bounds>>

\* STEP 7.
Complete ==
  /\ WithRow("complete", "baselines", 100)
  /\ IF status[Job] = "ABSENT"
     THEN UNCHANGED <<status, linked>>
     ELSE /\ status' = [status EXCEPT ![Job] = "COMPLETED"]
          /\ linked' = [linked EXCEPT ![Job] = Run]
  /\ UNCHANGED <<error, registry, blobs, stream, api, queue, task, restored, attempts,
                 lost, bounds>>

\* An error in a best-effort effect, or late in the try block.
LateError == lateErrors < MaxLateErrors /\ lateErrors' = lateErrors + 1

\* STEP 8: an error is logged.
ApplyBaselines ==
  /\ pc = "baselines" /\ pc' = "report"
  /\ \/ baselined' = baselined \cup {<<Job, Run>>} /\ UNCHANGED lateErrors
     \/ LateError /\ UNCHANGED baselined
  /\ UNCHANGED <<row, models, notified, blobs, stream, api, queue, task, restored,
                 attempts, lost, crashes, restores>>

\* _set_redis_status writes nothing when Redis fails.
SetRedisStatus(s) ==
  \/ stream' = [stream EXCEPT ![Job] = s] /\ UNCHANGED lateErrors
  \/ LateError /\ UNCHANGED stream

ReportCompleted ==
  /\ pc = "report" /\ pc' = "notify"
  /\ SetRedisStatus("COMPLETED")
  /\ UNCHANGED <<row, registry, blobs, api, queue, task, restored, attempts, lost, crashes,
                 restores>>

\* STEP 9: an error is logged.
Notify ==
  /\ pc = "notify" /\ pc' = "ack"
  /\ \/ notified' = notified \cup {<<Job, Run>>} /\ UNCHANGED lateErrors
     \/ LateError /\ UNCHANGED notified
  /\ UNCHANGED <<row, models, baselined, blobs, stream, api, queue, task, restored,
                 attempts, lost, crashes, restores>>

-----------------------------------------------------------------------------
(* train_model: the except block *)

\* Any step of the try block can raise: a missing dataset, a failing fit, a
\* database or storage error, or the soft time limit, even after STEP 7.
Raise ==
  /\ \/ pc \in Body /\ UNCHANGED lateErrors
     \/ pc \in AfterComplete /\ LateError
  /\ pc' = "raising"
  /\ UNCHANGED <<row, registry, blobs, stream, api, queue, task, restored, attempts, lost,
                 crashes, restores>>

\* self.retry publishes the next attempt; the row stays as it is.
Retry ==
  /\ pc = "raising" /\ task[2] < MaxRetries
  /\ pc' = "ack"
  /\ queue' = [queue EXCEPT ![<<Job, task[2] + 1>>] = @ + 1]
  /\ UNCHANGED <<row, registry, blobs, stream, api, task, restored, attempts, lost, bounds>>

\* The broker refuses it: Celery rejects the delivery without requeueing.
RetryFails ==
  /\ pc = "raising" /\ task[2] < MaxRetries
  /\ pc' = "ack"
  /\ lost' = [lost EXCEPT ![Job] = TRUE]
  /\ UNCHANGED <<row, registry, blobs, stream, api, queue, task, restored, attempts, bounds>>

\* Mutant of ReportFailed: gives up although retries are left.
GiveUpAtOnce ==
  /\ pc = "raising"
  /\ pc' = "markFailed"
  /\ SetRedisStatus("FAILED")
  /\ UNCHANGED <<row, registry, blobs, api, queue, task, restored, attempts, lost, crashes,
                 restores>>

\* Retries exhausted: Redis first, the row after.
ReportFailed ==
  /\ pc = "raising" /\ task[2] = MaxRetries
  /\ pc' = "markFailed"
  /\ SetRedisStatus("FAILED")
  /\ UNCHANGED <<row, registry, blobs, api, queue, task, restored, attempts, lost, crashes,
                 restores>>

MarkFailed ==
  /\ pc = "markFailed" /\ pc' = "ack"
  /\ IF status[Job] = "ABSENT"
     THEN UNCHANGED <<status, error>>
     ELSE /\ status' = [status EXCEPT ![Job] = "FAILED"]
          /\ error' = [error EXCEPT ![Job] = "raised"]
  /\ UNCHANGED <<progress, linked, registry, blobs, stream, api, queue, task, restored,
                 attempts, lost, bounds>>

\* The commit itself raises: the task fails and its message is acknowledged.
MarkFailedRaises ==
  /\ pc = "markFailed" /\ pc' = "ack"
  /\ lost' = [lost EXCEPT ![Job] = TRUE]
  /\ UNCHANGED <<row, registry, blobs, stream, api, queue, task, restored, attempts, bounds>>

-----------------------------------------------------------------------------
TrainModel ==
  \/ LoadJob \/ Progress \/ UploadModel \/ UploadRest \/ Register \/ Complete
  \/ ApplyBaselines \/ ReportCompleted \/ Notify
  \/ Retry \/ ReportFailed \/ MarkFailed \/ Ack

Faults ==
  \/ Raise \/ RetryFails \/ MarkFailedRaises
  \/ HardTimeLimit \/ Restore \/ LoseChild \/ LoseWorker
  \/ \E j \in Jobs : PublishFails(j)

Next ==
  \/ \E j \in Jobs : CreateJob(j, TRUE) \/ CreateJob(j, FALSE) \/ Publish(j) \/ DeleteJob(j)
  \/ \E sweeps \in BOOLEAN : Boot(sweeps)
  \/ \E m \in Messages : Consume(m)
  \/ TrainModel
  \/ Faults

Spec == Init /\ [][Next]_vars

\* The API finishes a request it started, Docker restarts the worker
\* (restart: unless-stopped), an idle worker takes a waiting message and a
\* busy one goes on.  No fault is fair.
Fairness ==
  /\ \A j \in Jobs : WF_vars(Publish(j))
  /\ WF_vars(\E sweeps \in BOOLEAN : Boot(sweeps))
  /\ WF_vars(\E m \in Messages : Consume(m))
  /\ WF_vars(TrainModel)

FairSpec == Spec /\ Fairness
-----------------------------------------------------------------------------
(* Safety *)

\* While train_model works on a job whose row exists, the row says RUNNING
\* until the commit of STEP 7 and COMPLETED after it: no sweep, retry or
\* redelivery changes the row under a running execution.
RowFollowsExecution ==
  /\ pc \in Body \ {"load"} => status[Job] \in {"RUNNING", "ABSENT"}
  /\ pc \in AfterComplete => status[Job] \in {"COMPLETED", "ABSENT"}

\* A job that says COMPLETED, and any model_id a job shows, is backed by a
\* registered model of that same job, whatever was retried, killed or rerun.
CompletedIsBacked ==
  \A j \in Jobs :
    /\ linked[j] # 0 => <<j, linked[j]>> \in models
    /\ status[j] = "COMPLETED" => linked[j] # 0

\* The blobs under a job's prefix are never older than the newest model
\* registered from them: STEP 5 finished before STEP 6 and every run overwrites.
ArtifactsNotOlder ==
  \A m \in models : pkl[m[1]] >= m[2] /\ rest[m[1]] >= m[2]

\* A message of the job waits in the broker.
Deliverable(j) == \E r \in 0..MaxRetries : queue[<<j, r>>] > 0

\* A job left QUEUED or RUNNING still has somebody to finish it: the request
\* about to publish it, a deliverable message or the execution under way,
\* unless the broker dropped a message of the job.
NoLostWork ==
  \A j \in Jobs :
    status[j] \in {"QUEUED", "RUNNING"} =>
      \/ api[j] = "committed"
      \/ Deliverable(j)
      \/ pc \in Body \cup Handler /\ Job = j
      \/ lost[j]

\* A job is FAILED by its own error only after MaxRetries + 1 executions.
GivesUpAfterAllRetries ==
  \A j \in Jobs : error[j] = "raised" => attempts[j] > MaxRetries

\* What the log stream and the success notification say never runs ahead of
\* the tables: they speak of registered models, and of a job whose row (if it
\* is still there) has a model at least as new.
ReportedIsRecorded ==
  /\ \A j \in Jobs : stream[j] = "COMPLETED" => status[j] = "ABSENT" \/ linked[j] # 0
  /\ \A m \in baselined \cup notified :
       /\ m \in models
       /\ status[m[1]] = "ABSENT" \/ linked[m[1]] >= m[2]

\* What makes the six invariants above inductive: where the message held by
\* the worker came from, ...
MessageHistory ==
  /\ \A m \in Messages : queue[m] > 0 => m[2] <= attempts[m[1]]
  /\ pc \in Busy => /\ task[2] < attempts[Job]
                    /\ api[Job] # "new"
                    /\ restored => queue[task] > 0
  /\ pc = "markFailed" => task[2] = MaxRetries

\* ... that nothing exists of a job not yet created, ...
FreshJobs ==
  \A j \in Jobs : api[j] = "new" =>
    /\ status[j] = "ABSENT" /\ stream[j] = "none" /\ attempts[j] = 0
    /\ \A r \in 0..MaxRetries : queue[<<j, r>>] = 0

\* ... and what the steps taken so far of this execution have left behind.
ExecutionSoFar ==
  /\ \A m \in models : m[2] \in 1..attempts[m[1]]
  /\ pc \in {"uploadRest", "uploaded", "register"} => pkl[Job] = Run
  /\ pc \in {"uploaded", "register"} => rest[Job] = Run
  /\ pc \in {"complete"} \cup AfterComplete => <<Job, Run>> \in models
  /\ pc \in AfterComplete => status[Job] = "ABSENT" \/ linked[Job] = Run

Inductive ==
  /\ TypeOK /\ MessageHistory /\ FreshJobs /\ ExecutionSoFar
  /\ RowFollowsExecution /\ CompletedIsBacked /\ ArtifactsNotOlder
  /\ NoLostWork /\ GivesUpAfterAllRetries /\ ReportedIsRecorded

\* The tables behave as JobLifecycle promises.  Beside Inductive this needs
\* that an execution finds no later result than its own, ...
NoLaterResult ==
  pc \in Body =>
    /\ linked[Job] < Run
    /\ pc # "complete" => <<Job, Run>> \notin models

\* ... and that a job that only prepares data is in nobody's hands.
PreparedIsOver ==
  \A j \in Jobs : status[j] = "DATA_PREPARED" =>
    /\ api[j] = "done"
    /\ \A r \in 0..MaxRetries : queue[<<j, r>>] = 0
    /\ pc \in Busy => Job # j

Refining == Inductive /\ NoLaterResult /\ PreparedIsOver

Phase == [j \in Jobs |-> IF status[j] # "ABSENT" THEN status[j]
                         ELSE IF api[j] = "new" THEN "unsubmitted" ELSE "deleted"]

Lifecycle == INSTANCE JobLifecycle WITH phase <- Phase, registered <- models
ImplementsLifecycle == Lifecycle!ASpec

(* Liveness *)

\* Every job the API finished submitting is in the end COMPLETED, FAILED,
\* prepared or deleted, and stays so, unless the broker dropped its message.
Settles ==
  \A j \in Jobs :
    (api[j] = "done") ~>
      [](lost[j] \/ status[j] \in Terminal \cup {"DATA_PREPARED", "ABSENT"})

-----------------------------------------------------------------------------
(* What the code says of itself and does not do *)

\* The sweep tells the user that the run is over ("Please resubmit the
\* training job"): a job it failed is not run again.
SweptIsOver ==
  [][\A j \in Jobs : status[j] = "FAILED" /\ error[j] = "restarted" =>
       status'[j] \in {"FAILED", "ABSENT"}]_vars

\* The Redis key exists "so SSE stream can stop": a job that ended for good
\* gets one.
EndReachesStream ==
  \A j \in Jobs : <>[](status[j] \in Terminal) => <>(stream[j] # "none")
=============================================================================
