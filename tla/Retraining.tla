----------------------------- MODULE Retraining -----------------------------
(***************************************************************************)
(* Retraining jobs live in the memory of two processes, the API and the    *)
(* training worker, each with a RetrainingPipeline singleton, and in one   *)
(* Redis key that every writer replaces as a whole.  A pipeline runs as a  *)
(* thread of the worker and keeps the job object it found when it began;   *)
(* the _load_state of another thread replaces the objects they share.      *)
(*                                                                         *)
(* The API's handlers call the pipeline without awaiting, so they run one  *)
(* after the other; the worker's Redis commands come between theirs.  What *)
(* a thread assigns before a persist and the persist (often written twice) *)
(* are one step: where two threads overlap, the later one has already      *)
(* replaced the object of the earlier.                                     *)
(***************************************************************************)
EXTENDS Integers, FiniteSets

CONSTANTS
  Jobs,          \* ids of retraining jobs
  NoJob,
  MaxPublishes,  \* bound: attempts to publish a message
  MaxEvents      \* bound: jobs triggered, Redis errors and restarts, together

ASSUME RetrainingAssumption ==
  NoJob \notin Jobs /\ MaxPublishes \in Nat /\ MaxEvents \in Nat

VARIABLES
  redis,         \* the snapshot: each job's record, Absent if it is not in it
  stored,        \* the key was written
  memory,        \* per process, the records of the objects in _jobs
  built,         \* the API has constructed its singleton
  api,           \* the request in progress
  queue,         \* deliverable messages of each job
  thread,        \* the worker's thread for each job: its next step, its job
                 \* object and whether the worker's memory still holds that
  trained,       \* jobs whose last training job is COMPLETED now
  life,          \* history: "new", "live" or "deleted", as clients were told
  finished,      \* history: jobs a training job of which was COMPLETED
  runs,          \* history: pipelines begun for each job
  published,     \* attempts to publish so far
  behind,        \* history: copies that another process wrote over since read
  clean,         \* history: no stale write, replaced object or fault so far
  faults

requests == <<built, api, life, published>>
workers == <<thread, trained, finished, runs>>
vars == <<redis, stored, memory, queue, requests, workers, behind, clean, faults>>

-----------------------------------------------------------------------------
Active == {"DATA_PREPARATION", "TRAINING", "VALIDATION", "COMPARISON"}
Terminal == {"COMPLETED", "FAILED", "REJECTED"}

\* A RetrainJob: queued is current_step = "Queued for background execution",
\* dispatched and metrics say that training_job_id and metrics are set, better
\* what comparison_result says.
Records ==
  [status : {"PENDING"} \cup Active \cup Terminal, queued : BOOLEAN, dispatched : BOOLEAN,
   metrics : BOOLEAN, better : {"unknown", "yes", "no"}]

Initializing == [status |-> "PENDING", queued |-> FALSE, dispatched |-> FALSE,
                 metrics |-> FALSE, better |-> "unknown"]
Absent == [Initializing EXCEPT !.status = "ABSENT"]

Snapshots == [Jobs -> Records \cup {Absent}]
Nothing == [j \in Jobs |-> Absent]

NoRequest == [pc |-> "idle", job |-> NoJob, raw |-> Nothing]
Free == [pc |-> "free", object |-> Absent, held |-> FALSE]

\* What a thread does next.
Steps == {"load", "prepare", "train", "dispatch", "record", "validate", "check",
          "compare", "result", "decide"}

Running(j) == thread[j].pc \in Steps \ {"load"}

TypeOK ==
  /\ redis \in Snapshots /\ stored \in BOOLEAN
  /\ memory \in [{"api", "worker"} -> Snapshots]
  /\ built \in BOOLEAN
  /\ api \in [pc : {"idle", "run", "publish", "delete", "filter"},
              job : Jobs \cup {NoJob}, raw : Snapshots]
  /\ api.pc # "idle" => api.job \in Jobs
  /\ queue \in [Jobs -> Nat]
  /\ thread \in [Jobs -> [pc : Steps \cup {"free"}, object : Records \cup {Absent},
                          held : BOOLEAN]]
  /\ \A j \in Jobs : Running(j) => thread[j].object \in Records
  /\ trained \subseteq Jobs
  /\ life \in [Jobs -> {"new", "live", "deleted"}]
  /\ finished \subseteq Jobs
  /\ runs \in [Jobs -> Nat] /\ published \in 0..MaxPublishes
  /\ behind \subseteq {"api", "worker", "raw"}
  /\ clean \in BOOLEAN
  /\ faults \in Nat

Init ==
  /\ redis = Nothing /\ stored = FALSE
  /\ memory = [p \in {"api", "worker"} |-> Nothing]
  /\ built = FALSE
  /\ api = NoRequest
  /\ queue = [j \in Jobs |-> 0]
  /\ thread = [j \in Jobs |-> Free]
  /\ trained = {}
  /\ life = [j \in Jobs |-> "new"]
  /\ finished = {}
  /\ runs = [j \in Jobs |-> 0] /\ published = 0
  /\ behind = {} /\ clean = TRUE /\ faults = 0

-----------------------------------------------------------------------------
(* The shared snapshot *)

MoreEvents == faults + Cardinality({j \in Jobs : life[j] # "new"}) < MaxEvents

\* _load_state of process p: its objects are made anew; a missing key or a
\* Redis error leaves them.
Load(p, alone) ==
  \/ /\ memory' = IF stored THEN [memory EXCEPT ![p] = redis] ELSE memory
     /\ behind' = behind \ {p}
     /\ clean' = (clean /\ alone)
     /\ UNCHANGED <<redis, stored, faults>>
  \/ /\ MoreEvents /\ faults' = faults + 1
     /\ clean' = FALSE
     /\ UNCHANGED <<redis, stored, memory, behind>>

\* _persist_state of process p: the whole key becomes the snapshot, made from
\* the named copy; an error is logged and nothing is written.
Persist(p, copy, snapshot) ==
  \/ /\ redis' = snapshot /\ stored' = TRUE
     /\ behind' = behind \cup (IF p = "api" THEN {"worker"} ELSE {"api", "raw"})
     /\ clean' = (clean /\ copy \notin behind)
     /\ UNCHANGED faults
  \/ /\ MoreEvents /\ faults' = faults + 1
     /\ clean' = FALSE
     /\ UNCHANGED <<redis, stored, behind>>

-----------------------------------------------------------------------------
(* The API *)

\* The first request constructs the singleton, which loads.
Construct ==
  /\ ~built /\ api = NoRequest
  /\ built' = TRUE
  /\ Load("api", TRUE)
  /\ UNCHANGED <<api, life, published, queue, workers>>

\* POST /retraining/trigger: persists the memory as it is, without a load.
Trigger(j) ==
  /\ built /\ api = NoRequest /\ life[j] = "new" /\ MoreEvents
  /\ life' = [life EXCEPT ![j] = "live"]
  /\ memory' = [memory EXCEPT !["api"][j] = Initializing]
  /\ Persist("api", "api", memory'["api"])
  /\ UNCHANGED <<built, api, published, queue, workers>>

\* GET /retraining and /retraining/{id}.
Refresh ==
  /\ built /\ api = NoRequest
  /\ Load("api", TRUE)
  /\ UNCHANGED <<requests, queue, workers>>

\* get_job of POST /retraining/{id}/run.
RunLoad(j) ==
  /\ built /\ api = NoRequest /\ published < MaxPublishes
  /\ api' = [NoRequest EXCEPT !.pc = "run", !.job = j]
  /\ Load("api", TRUE)
  /\ UNCHANGED <<built, life, published, queue, workers>>

Runnable(record) == record.status = "PENDING" /\ ~record.queued

\* The rest of the handler up to the publication: 404, 409 or 400, or the job
\* is marked as queued.
RunQueue ==
  /\ api.pc = "run"
  /\ IF Runnable(memory["api"][api.job])
     THEN /\ api' = [api EXCEPT !.pc = "publish"]
          /\ memory' = [memory EXCEPT !["api"][api.job].queued = TRUE]
          /\ Persist("api", "api", memory'["api"])
     ELSE /\ api' = NoRequest
          /\ UNCHANGED <<redis, stored, memory, behind, clean, faults>>
  /\ UNCHANGED <<built, life, published, queue, workers>>

Publish ==
  /\ api.pc = "publish" /\ api' = NoRequest
  /\ published' = published + 1
  /\ queue' = [queue EXCEPT ![api.job] = @ + 1]
  /\ UNCHANGED <<redis, stored, memory, built, life, workers, behind, clean, faults>>

\* Mutant of PublishFails: the step is not put back.
PublishFailsSilently ==
  /\ api.pc = "publish" /\ api' = NoRequest
  /\ published' = published + 1
  /\ UNCHANGED <<redis, stored, memory, built, life, queue, workers, behind, clean, faults>>

\* delay raises: the earlier step is put back and persisted.
PublishFails ==
  /\ api.pc = "publish" /\ api' = NoRequest
  /\ published' = published + 1
  /\ memory' = [memory EXCEPT !["api"][api.job].queued = FALSE]
  /\ Persist("api", "api", memory'["api"])
  /\ UNCHANGED <<built, life, queue, workers>>

DeleteLoad(j) ==
  /\ built /\ api = NoRequest /\ life[j] = "live"
  /\ api' = [NoRequest EXCEPT !.pc = "delete", !.job = j]
  /\ Load("api", TRUE)
  /\ UNCHANGED <<built, life, published, queue, workers>>

\* delete_job: only a job that is over is taken from the memory; the snapshot
\* is read again.
DeleteRead ==
  /\ api.pc = "delete"
  /\ IF memory["api"][api.job].status \in Terminal
     THEN /\ api' = [api EXCEPT !.pc = "filter", !.raw = redis]
          /\ memory' = [memory EXCEPT !["api"][api.job] = Absent]
          /\ behind' = behind \ {"raw"}
     ELSE /\ api' = NoRequest
          /\ UNCHANGED <<memory, behind>>
  /\ UNCHANGED <<redis, stored, built, life, published, queue, workers, clean, faults>>

\* The snapshot just read is written without the job.
DeleteWrite ==
  /\ api.pc = "filter" /\ api' = NoRequest
  /\ life' = [life EXCEPT ![api.job] = "deleted"]
  /\ Persist("api", "raw", [api.raw EXCEPT ![api.job] = Absent])
  /\ UNCHANGED <<memory, built, published, queue, workers>>

\* A Redis error in either of the two: the memory is persisted instead.
DeleteFallsBack ==
  /\ api.pc = "filter" /\ api' = NoRequest
  /\ MoreEvents /\ faults' = faults + 1
  /\ life' = [life EXCEPT ![api.job] = "deleted"]
  /\ redis' = memory["api"] /\ stored' = TRUE
  /\ behind' = behind \cup {"worker"} /\ clean' = FALSE
  /\ UNCHANGED <<memory, built, published, queue, workers>>

\* The API restarts (a deployment, --reload, a crash): a request between its
\* persist and its publication is lost.
RestartApi ==
  /\ built /\ built' = FALSE
  /\ MoreEvents /\ faults' = faults + 1
  /\ api' = NoRequest
  /\ memory' = [memory EXCEPT !["api"] = Nothing]
  /\ clean' = (clean /\ api.pc # "publish")
  /\ UNCHANGED <<redis, stored, life, published, queue, workers, behind>>

-----------------------------------------------------------------------------
(* The worker *)

\* run_retraining_job: starts a thread unless the job's is alive, and
\* acknowledges the message.
Launch(j) ==
  /\ queue[j] > 0 /\ queue' = [queue EXCEPT ![j] = @ - 1]
  /\ thread' = IF thread[j] = Free THEN [thread EXCEPT ![j].pc = "load"] ELSE thread
  /\ UNCHANGED <<redis, stored, memory, requests, trained, finished, runs, behind, clean, faults>>

\* run_pipeline: loads, which replaces the object of every other pipeline, and
\* takes the job's object; without one the thread ends.
Begin(j) ==
  /\ thread[j].pc = "load"
  /\ Load("worker", \A k \in Jobs : ~Running(k))
  /\ LET found == memory'["worker"][j]
         loaded == stored /\ faults' = faults
         others == [k \in Jobs |-> [thread[k] EXCEPT !.held = @ /\ ~loaded]]
     IN IF found = Absent
        THEN /\ thread' = [others EXCEPT ![j] = Free]
             /\ UNCHANGED runs
        ELSE /\ thread' = [others EXCEPT ![j] = [pc |-> "prepare", object |-> found,
                                                 held |-> TRUE]]
             /\ runs' = [runs EXCEPT ![j] = @ + 1]
  /\ UNCHANGED <<requests, queue, trained, finished>>

\* The thread assigns to its object and persists the worker's memory, which
\* shows the change only if the object is still in it.
Save(j, record, next) ==
  /\ memory' = IF thread[j].held THEN [memory EXCEPT !["worker"][j] = record] ELSE memory
  /\ Persist("worker", "worker", memory'["worker"])
  /\ thread' = [thread EXCEPT ![j] =
       IF next = "free" THEN Free ELSE [@ EXCEPT !.object = record, !.pc = next]]
  /\ UNCHANGED <<requests, queue, runs>>

\* A step of run_pipeline begins: its status is shown.
Enter(j, pc, status, next) ==
  /\ thread[j].pc = pc
  /\ Save(j, [thread[j].object EXCEPT !.status = status, !.queued = FALSE], next)
  /\ UNCHANGED <<trained, finished>>

Prepare(j) == Enter(j, "prepare", "DATA_PREPARATION", "train")
Train(j) == Enter(j, "train", "TRAINING", "dispatch")
Validate(j) == Enter(j, "validate", "VALIDATION", "check")
Compare(j) == thread[j].object.metrics /\ Enter(j, "compare", "COMPARISON", "result")

\* create_training_job commits the training job and publishes it.
Dispatch(j) ==
  /\ thread[j].pc = "dispatch"
  /\ trained' = trained \ {j}
  /\ thread' = [thread EXCEPT ![j].pc = "record"]
  /\ UNCHANGED <<redis, stored, memory, queue, requests, finished, runs, behind, clean, faults>>

RecordTraining(j) ==
  /\ thread[j].pc = "record"
  /\ Save(j, [thread[j].object EXCEPT !.dispatched = TRUE], "validate")
  /\ UNCHANGED <<trained, finished>>

\* Mutant of Check: the status of the training job is not looked at.
CheckAnyStatus(j) ==
  /\ thread[j].pc = "check" /\ thread[j].object.dispatched
  /\ Save(j, [thread[j].object EXCEPT !.metrics = TRUE], "compare")
  /\ UNCHANGED <<trained, finished>>

\* Validation reads the training job once.
Check(j) ==
  /\ thread[j].pc = "check" /\ thread[j].object.dispatched
  /\ j \in trained
  /\ Save(j, [thread[j].object EXCEPT !.metrics = TRUE], "compare")
  /\ UNCHANGED <<trained, finished>>

Result(j) ==
  /\ thread[j].pc = "result"
  /\ \E better \in {"yes", "no"} : Save(j, [thread[j].object EXCEPT !.better = better], "decide")
  /\ UNCHANGED <<trained, finished>>

Decide(j) ==
  /\ thread[j].pc = "decide"
  /\ Save(j, [thread[j].object EXCEPT
                !.status = IF thread[j].object.better = "yes" THEN "COMPLETED" ELSE "REJECTED"],
          "free")
  /\ UNCHANGED <<trained, finished>>

\* Mutant of Raise: the except block without its finally.
RaiseUnsaved(j) ==
  /\ thread[j].pc \in {"dispatch", "record", "check", "result"}
  /\ thread' = [thread EXCEPT ![j] = Free]
  /\ UNCHANGED <<redis, stored, memory, queue, requests, trained, finished, runs, behind,
                 clean, faults>>

\* A step raises: the database, the broker, a model or dataset that is gone, a
\* training job that FAILED or (an undefined name in the branch that was to
\* wait for it) is not over.
Raise(j) ==
  /\ thread[j].pc \in {"dispatch", "record", "check", "result"}
  /\ Save(j, [thread[j].object EXCEPT !.status = "FAILED"], "free")
  /\ UNCHANGED <<trained, finished>>

\* The worker is restarted; its threads are daemons.  A message whose thread
\* has just started may not have been acknowledged and comes again.
RestartWorker ==
  /\ MoreEvents /\ faults' = faults + 1
  /\ \E again \in {NoJob} \cup {j \in Jobs : thread[j].pc = "load"} :
       queue' = [j \in Jobs |-> queue[j] + IF j = again THEN 1 ELSE 0]
  /\ thread' = [j \in Jobs |-> Free]
  /\ memory' = [memory EXCEPT !["worker"] = Nothing]
  /\ clean' = (clean /\ \A j \in Jobs : thread[j] = Free)
  /\ UNCHANGED <<redis, stored, requests, trained, finished, runs, behind>>

\* What JobLifecycle promises of the training job, while a pipeline may read it:
\* it becomes COMPLETED, and may begin again.
TrainingMoves(j) ==
  /\ thread[j].pc \in {"record", "validate", "check"}
  /\ \/ /\ j \notin trained
        /\ trained' = trained \cup {j} /\ finished' = finished \cup {j}
     \/ /\ trained' = trained \ {j}
        /\ UNCHANGED finished
  /\ UNCHANGED <<redis, stored, memory, queue, requests, thread, runs, behind, clean, faults>>

-----------------------------------------------------------------------------
Pipeline(j) ==
  \/ Begin(j) \/ Prepare(j) \/ Train(j) \/ Dispatch(j) \/ RecordTraining(j)
  \/ Validate(j) \/ Check(j) \/ Compare(j) \/ Result(j) \/ Decide(j) \/ Raise(j)

Worker == \E j \in Jobs : Launch(j) \/ Pipeline(j)

Respond == RunQueue \/ Publish \/ PublishFails \/ DeleteRead \/ DeleteWrite \/ DeleteFallsBack

Next ==
  \/ Construct \/ Refresh \/ Respond \/ Worker \/ RestartApi \/ RestartWorker
  \/ \E j \in Jobs : Trigger(j) \/ RunLoad(j) \/ DeleteLoad(j) \/ TrainingMoves(j)

\* A handler of the API runs to its end; the worker takes a message or runs one
\* of its threads, whichever.
Fairness == WF_vars(Respond) /\ WF_vars(Worker)

Spec == Init /\ [][Next]_vars
FairSpec == Spec /\ Fairness

-----------------------------------------------------------------------------
(* Properties *)

Showing == {redis, memory["api"], memory["worker"], api.raw}

\* Whatever copies overwrite each other: a job shown as COMPLETED or REJECTED
\* was decided on the metrics of a training job that had completed.
DecisionBacked ==
  \A j \in Jobs : \A shown \in Showing :
    shown[j].status \in {"COMPLETED", "REJECTED"} =>
      shown[j].metrics /\ shown[j].better # "unknown" /\ j \in finished

\* As long as nobody persisted a copy another process had written over, no
\* thread replaced a running pipeline's object, and nothing failed, the
\* snapshot is what clients were told and what the pipelines hold, and no job
\* has been executed twice.
SnapshotIsTrue ==
  clean =>
    \A j \in Jobs :
      /\ (redis[j] # Absent) = (life[j] = "live")
      /\ Running(j) => redis[j] = thread[j].object
      /\ redis[j].status \in Active => Running(j)
      /\ redis[j].queued =>
           \/ queue[j] > 0 \/ thread[j] # Free
           \/ api.pc = "publish" /\ api.job = j
      /\ runs[j] <= 1

\* A job accepted for execution is decided, or its publication failed and it
\* may be run again, unless the snapshots were disturbed.
QueuedIsDecided ==
  \A j \in Jobs :
    redis[j].queued ~> (redis[j].status \in Terminal \/ Runnable(redis[j]) \/ ~clean)
=============================================================================
