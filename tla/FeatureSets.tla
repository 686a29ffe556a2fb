---------------------------- MODULE FeatureSets -----------------------------
(***************************************************************************)
(* Feature sets: requests that create them, the broker's messages (acked   *)
(* late, redelivered when the worker dies), and the worker, which runs one *)
(* task at a time.  A computation is one database transaction from its     *)
(* first status to its last, so RUNNING is never committed, and the row    *)
(* stays locked meanwhile: deletes of it wait.                             *)
(***************************************************************************)
EXTENDS Integers, Sequences, FiniteSets

CONSTANTS
  Configs,       \* what _compute_config_hash tells apart
  Requests,
  MaxSets,       \* bound: rows created
  MaxAnalyses,   \* bound: analyses asked for
  MaxFaults,     \* bound: steps that raise and deaths of a process, together
  MaxRetries     \* max_retries of the two tasks (3 in the code)

ASSUME FeatureSetsAssumption ==
  /\ MaxSets \in Nat /\ MaxAnalyses \in Nat /\ MaxFaults \in Nat /\ MaxRetries \in Nat

VARIABLES
  sets,      \* the rows, in the order of creation
  asks,      \* each create_feature_set request: its next step, row and config
  messages,  \* what the broker holds: [kind, set, tries] and how many
  task,      \* what the worker runs and its next step
  artifacts, \* blobs stored: <<set, kind>>
  told,      \* the Redis key feature:status of each set
  analyses, faults

featureVars == <<sets, asks, messages, task, artifacts, told, analyses, faults>>

-----------------------------------------------------------------------------
SetIds == 1..MaxSets
Sets == DOMAIN sets
SetStatuses == {"QUEUED", "COMPLETED", "FAILED"}
Artifacts == {"features", "transformer"}
Kinds == {"compute", "analyze"}
Messages == [kind : Kinds, set : SetIds, tries : 0..MaxRetries]
WorkerIdle == [pc |-> "idle"]
IdleAsk == [pc |-> "idle"]
SetRecord == [config : Configs, status : SetStatuses, deleted : BOOLEAN,
              gone : BOOLEAN, path : BOOLEAN, sent : BOOLEAN]

FeaturesTypeOK ==
  /\ Len(sets) <= MaxSets /\ \A f \in Sets : sets[f] \in SetRecord
  /\ \A q \in Requests : asks[q].pc \in {"idle", "insert", "delay"}
  /\ messages \in [Messages -> 0..MaxAnalyses + 1]
  /\ task.pc \in {"idle", "begin", "features", "transformer", "commit", "status"}
  /\ task.pc # "idle" => task.msg \in Messages
  /\ artifacts \subseteq SetIds \X Artifacts
  /\ told \in [SetIds -> {"none", "COMPLETED", "FAILED"}]
  /\ analyses \in 0..MaxAnalyses /\ faults \in 0..MaxFaults

FeaturesInit ==
  /\ sets = <<>> /\ asks = [q \in Requests |-> IdleAsk]
  /\ messages = [g \in Messages |-> 0] /\ task = WorkerIdle
  /\ artifacts = {} /\ told = [f \in SetIds |-> "none"]
  /\ analyses = 0 /\ faults = 0

Fault == faults < MaxFaults /\ faults' = faults + 1

Present(f) == ~sets[f].gone

\* The worker's transaction has updated this row and is not over.
RowLocked(f) ==
  /\ task.pc \in {"features", "transformer", "commit"}
  /\ task.msg.kind = "compute" /\ task.msg.set = f

-----------------------------------------------------------------------------
(* create_feature_set, delete_feature_set, analyze_feature_set *)

Reusable(f, c) ==
  Present(f) /\ sets[f].config = c /\ sets[f].status = "COMPLETED" /\ ~sets[f].deleted

\* A request that finds a reusable set ends there and leaves no trace.
FindReusable(q, c) ==
  /\ asks[q].pc = "idle" /\ Len(sets) < MaxSets
  /\ ~\E f \in Sets : Reusable(f, c)
  /\ asks' = [asks EXCEPT ![q] = [pc |-> "insert", config |-> c]]
  /\ UNCHANGED <<sets, messages, task, artifacts, told, analyses, faults>>

InsertSet(q) ==
  /\ asks[q].pc = "insert" /\ Len(sets) < MaxSets
  /\ sets' = Append(sets, [config |-> asks[q].config, status |-> "QUEUED", deleted |-> FALSE,
                           gone |-> FALSE, path |-> FALSE, sent |-> FALSE])
  /\ asks' = [asks EXCEPT ![q] = [pc |-> "delay", set |-> Len(sets) + 1]]
  /\ UNCHANGED <<messages, task, artifacts, told, analyses, faults>>

Compute(f) == [kind |-> "compute", set |-> f, tries |-> 0]

Delay(q) ==
  /\ asks[q].pc = "delay"
  /\ sets' = [sets EXCEPT ![asks[q].set].sent = TRUE]
  /\ messages' = [messages EXCEPT ![Compute(asks[q].set)] = @ + 1]
  /\ asks' = [asks EXCEPT ![q] = IdleAsk]
  /\ UNCHANGED <<task, artifacts, told, analyses, faults>>

\* The request ends early: the row may stay QUEUED with no message for it.
AskDies(q) ==
  /\ asks[q].pc # "idle" /\ Fault
  /\ asks' = [asks EXCEPT ![q] = IdleAsk]
  /\ UNCHANGED <<sets, messages, task, artifacts, told, analyses>>

SoftDelete(f) ==
  /\ Present(f) /\ ~RowLocked(f) /\ ~sets[f].deleted
  /\ sets' = [sets EXCEPT ![f].deleted = TRUE]
  /\ UNCHANGED <<asks, messages, task, artifacts, told, analyses, faults>>

\* delete_dataset removes the rows of its feature sets; their blobs stay.
DropByDataset(f) ==
  /\ Present(f) /\ ~RowLocked(f)
  /\ sets' = [sets EXCEPT ![f].gone = TRUE]
  /\ UNCHANGED <<asks, messages, task, artifacts, told, analyses, faults>>

AnalyzeSet(f) ==
  /\ Present(f) /\ analyses < MaxAnalyses
  /\ analyses' = analyses + 1
  /\ messages' = [messages EXCEPT ![[kind |-> "analyze", set |-> f, tries |-> 0]] = @ + 1]
  /\ UNCHANGED <<sets, asks, task, artifacts, told, faults>>

-----------------------------------------------------------------------------
(* The worker *)

\* The message stays with the broker, unacknowledged, until the task ends.
Receive(g) ==
  /\ task.pc = "idle" /\ messages[g] > 0
  /\ messages' = [messages EXCEPT ![g] = @ - 1]
  /\ task' = [pc |-> "begin", msg |-> g]
  /\ UNCHANGED <<sets, asks, artifacts, told, analyses, faults>>

Step(pc) == task' = [task EXCEPT !.pc = pc]

\* Status RUNNING, source data, engineered features.
BeginCompute ==
  /\ task.pc = "begin" /\ task.msg.kind = "compute" /\ Present(task.msg.set)
  /\ Step("features")
  /\ UNCHANGED <<sets, asks, messages, artifacts, told, analyses, faults>>

\* The row must exist and have a path, and the blob is read.
BeginAnalyze ==
  /\ task.pc = "begin" /\ task.msg.kind = "analyze"
  /\ Present(task.msg.set) /\ sets[task.msg.set].path
  /\ Step("commit")
  /\ UNCHANGED <<sets, asks, messages, artifacts, told, analyses, faults>>

\* Mutant: compute_features forgets the transformer.
WithoutTransformer(kind) == "commit"

NextAfter(kind) == IF kind = "features" THEN "transformer" ELSE "commit"

Upload(kind) ==
  /\ task.pc = kind /\ Step(NextAfter(kind))
  /\ artifacts' = artifacts \cup {<<task.msg.set, kind>>}
  /\ UNCHANGED <<sets, asks, messages, told, analyses, faults>>

\* A computation completes the row.  An analysis writes its report and the
\* status it read, which no one else changes meanwhile: the row is as it was.
CommitTask ==
  /\ task.pc = "commit"
  /\ sets' = IF task.msg.kind = "compute"
             THEN [sets EXCEPT ![task.msg.set].status = "COMPLETED", ![task.msg.set].path = TRUE]
             ELSE sets
  /\ Step("status")
  /\ UNCHANGED <<asks, messages, artifacts, told, analyses, faults>>

\* The Redis key, then the acknowledgement.
EndTask ==
  /\ task.pc = "status"
  /\ told' = [told EXCEPT ![task.msg.set] = "COMPLETED"]
  /\ task' = WorkerIdle
  /\ UNCHANGED <<sets, asks, messages, artifacts, analyses, faults>>

\* An analysis without a target column returns early and tells no one.
EndAnalysisEarly ==
  /\ task.pc = "commit" /\ task.msg.kind = "analyze"
  /\ task' = WorkerIdle
  /\ UNCHANGED <<sets, asks, messages, artifacts, told, analyses, faults>>

Retried(g) == [g EXCEPT !.tries = @ + 1]

\* The except block: roll back, commit FAILED (unless that fails too), and send
\* the task again or, after the last try, tell the stream.
FailTask(written) ==
  LET g == task.msg IN
  /\ sets' = IF written /\ Present(g.set) THEN [sets EXCEPT ![g.set].status = "FAILED"] ELSE sets
  /\ IF g.tries < MaxRetries
     THEN messages' = [messages EXCEPT ![Retried(g)] = @ + 1] /\ UNCHANGED told
     ELSE told' = [told EXCEPT ![g.set] = "FAILED"] /\ UNCHANGED messages
  /\ task' = WorkerIdle
  /\ UNCHANGED <<asks, artifacts, analyses>>

\* The row is gone, or an analysis has nothing to read.
TaskImpossible ==
  /\ task.pc = "begin"
  /\ \/ ~Present(task.msg.set)
     \/ task.msg.kind = "analyze" /\ ~sets[task.msg.set].path
  /\ FailTask(TRUE) /\ UNCHANGED faults

TaskRaises ==
  /\ task.pc \in {"begin", "features", "transformer", "commit"} /\ Fault
  /\ \E written \in BOOLEAN : FailTask(written)

\* Mutant: the broker forgets the message when the worker takes it.
ForgottenMessages == messages

\* task_acks_late and task_reject_on_worker_lost: the message comes back.
ReturnedMessages == [messages EXCEPT ![task.msg] = @ + 1]

WorkerDies ==
  /\ task.pc # "idle" /\ Fault
  /\ messages' = ReturnedMessages /\ task' = WorkerIdle
  /\ UNCHANGED <<sets, asks, artifacts, told, analyses>>

WorkerStep ==
  \/ \E g \in Messages : Receive(g)
  \/ BeginCompute \/ BeginAnalyze \/ CommitTask \/ EndTask \/ EndAnalysisEarly \/ TaskImpossible
  \/ \E kind \in Artifacts : Upload(kind)

FeaturesNext ==
  \/ \E q \in Requests :
       \/ \E c \in Configs : FindReusable(q, c)
       \/ InsertSet(q) \/ Delay(q) \/ AskDies(q)
  \/ \E f \in Sets : SoftDelete(f) \/ DropByDataset(f) \/ AnalyzeSet(f)
  \/ WorkerStep \/ TaskRaises \/ WorkerDies

-----------------------------------------------------------------------------
(* Properties *)

\* A set offered for training has both artifacts and a path, in whatever order
\* its computation, its repeats and deaths of the worker came: the status is
\* committed after both uploads (compute_features).
CompletedIsStored ==
  \A f \in Sets : sets[f].status = "COMPLETED"
    => sets[f].path /\ \A kind \in Artifacts : <<f, kind>> \in artifacts

\* A set whose message was sent gets an outcome, or its row is removed, though
\* the worker dies and steps raise (late acknowledgement, retries).  When every
\* try's FAILED is refused by the database, the stream at least is told.
ComputationEnds ==
  \A f \in SetIds :
    (f \in Sets /\ sets[f].sent)
      ~> (f \in Sets /\ (sets[f].gone \/ told[f] # "none" \/ sets[f].status \in {"COMPLETED", "FAILED"}))
=============================================================================
