---------------------- MODULE TrainingPipeline_proofs ----------------------
(* Proofs about TrainingPipeline for any jobs, retries and fault bounds. *)
EXTENDS TrainingPipeline, TLAPS

\* Giving a held message back leaves the broker with a count for each message.
LEMMA GiveBackType ==
  ASSUME TypeOK, GiveBack
  PROVE  queue' \in [Messages -> Nat]
<1>1. CASE pc \in Busy /\ ~restored
  BY <1>1 DEF TypeOK, GiveBack
<1>2. CASE ~(pc \in Busy /\ ~restored)
  BY <1>2 DEF TypeOK, GiveBack
<1> QED
  BY <1>1, <1>2

(***************************************************************************)
(* Type correctness, one step per action.                                  *)
(***************************************************************************)

\* Every step keeps the tables, the broker and the worker well typed; in
\* particular no message count becomes negative and a busy worker always
\* holds a message.
LEMMA TypeStep == TypeOK /\ [Next]_vars => TypeOK'
<1> SUFFICES ASSUME TypeOK, [Next]_vars PROVE TypeOK'
  OBVIOUS
<1> USE RetriesAssumption, BoundsAssumption
    DEF TypeOK, Messages, NoTask, Statuses, Terminal, Busy, Body, AfterComplete, Handler,
        row, registry, blobs, worker, bounds
<1>1. ASSUME NEW j \in Jobs, NEW processing_only \in BOOLEAN, CreateJob(j, processing_only)
      PROVE  TypeOK'
  BY <1>1 DEF CreateJob
<1>2. ASSUME NEW j \in Jobs, Publish(j) PROVE TypeOK'
  BY <1>2 DEF Publish
<1>3. ASSUME NEW j \in Jobs, PublishFails(j) PROVE TypeOK'
  BY <1>3 DEF PublishFails
<1>4. ASSUME NEW j \in Jobs, DeleteJob(j) PROVE TypeOK'
  BY <1>4 DEF DeleteJob
<1>5. ASSUME NEW sweeps \in BOOLEAN, Boot(sweeps) PROVE TypeOK'
  <2>1. status' \in [Jobs -> Statuses]
    BY <1>5 DEF Boot
  <2>2. error' \in [Jobs -> {"none", "raised", "restarted"}]
    BY <1>5 DEF Boot
  <2> QED
    BY <1>5, <2>1, <2>2 DEF Boot
<1>6. ASSUME NEW m \in Messages, Consume(m) PROVE TypeOK'
  <2>1. /\ queue' \in [Messages -> Nat]
        /\ task' \in Messages
    BY <1>6 DEF Consume
  <2>2. attempts' \in [Jobs -> Nat]
    BY <1>6 DEF Consume
  <2> QED
    BY <1>6, <2>1, <2>2 DEF Consume
<1>7. CASE Ack
  BY <1>7 DEF Ack, Release
<1>8. CASE Restore
  <2>1. queue' \in [Messages -> Nat]
    BY <1>8, GiveBackType DEF Restore
  <2> QED
    BY <1>8, <2>1 DEF Restore
<1>9. CASE LoseChild
  <2>1. queue' \in [Messages -> Nat]
    BY <1>9, GiveBackType DEF LoseChild
  <2>2. pc' \in {"down", "idle"} /\ task' = NoTask /\ crashes' \in Nat
    BY <1>9 DEF LoseChild, Release
  <2>3. restored' = FALSE
    BY <1>9 DEF LoseChild, Release
  <2> QED
    BY <1>9, <2>1, <2>2, <2>3 DEF LoseChild
<1>10. CASE LoseWorker
  <2>1. queue' \in [Messages -> Nat]
    BY <1>10, GiveBackType DEF LoseWorker
  <2>2. pc' \in {"down", "idle"} /\ task' = NoTask /\ crashes' \in Nat
    BY <1>10 DEF LoseWorker, Release
  <2>3. restored' = FALSE
    BY <1>10 DEF LoseWorker, Release
  <2> QED
    BY <1>10, <2>1, <2>2, <2>3 DEF LoseWorker
<1>11. CASE HardTimeLimit
  BY <1>11 DEF HardTimeLimit, Release
<1>12. CASE LoadJob
  BY <1>12 DEF LoadJob, WithRow, Job
<1>13. CASE Progress
  BY <1>13 DEF Progress, PrepareData, Fit, SaveProgress, WithRow, Job
<1>14. CASE UploadModel
  BY <1>14 DEF UploadModel, Job, Run
<1>15. CASE UploadRest
  BY <1>15 DEF UploadRest, Job, Run
<1>16. CASE Register
  BY <1>16 DEF Register, Job, Run
<1>17. CASE Complete
  BY <1>17 DEF Complete, WithRow, Job, Run
<1>18. CASE ApplyBaselines
  BY <1>18 DEF ApplyBaselines, LateError, Job, Run
<1>19. CASE ReportCompleted
  BY <1>19 DEF ReportCompleted, SetRedisStatus, LateError, Job
<1>20. CASE Notify
  BY <1>20 DEF Notify, LateError, Job, Run
<1>21. CASE Raise
  BY <1>21 DEF Raise, LateError
<1>22. CASE Retry
  BY <1>22 DEF Retry, Job
<1>23. CASE RetryFails
  BY <1>23 DEF RetryFails, Job
<1>24. CASE ReportFailed
  BY <1>24 DEF ReportFailed, SetRedisStatus, LateError, Job
<1>25. CASE MarkFailed
  BY <1>25 DEF MarkFailed, Job
<1>26. CASE MarkFailedRaises
  BY <1>26 DEF MarkFailedRaises, Job
<1>27. CASE UNCHANGED vars
  BY <1>27 DEF vars
<1> HIDE DEF TypeOK, Messages, NoTask, Statuses, Terminal, Busy, Body, AfterComplete, Handler,
             row, registry, blobs, worker, bounds
<1>28. CASE TrainModel
  BY <1>7, <1>12, <1>13, <1>14, <1>15, <1>16, <1>17, <1>18, <1>19, <1>20, <1>22, <1>24, <1>25,
     <1>28 DEF TrainModel
<1>29. CASE Faults
  BY <1>3, <1>8, <1>9, <1>10, <1>11, <1>21, <1>23, <1>26, <1>29 DEF Faults
<1> QED
  BY <1>1, <1>2, <1>4, <1>5, <1>6, <1>27, <1>28, <1>29 DEF Next

(***************************************************************************)
(* The inductive invariant.                                                *)
(***************************************************************************)

\* A waiting message makes its job deliverable.
LEMMA WaitingDelivers ==
  ASSUME NEW i \in Jobs, NEW r \in 0..MaxRetries, queue'[<<i, r>>] > 0
  PROVE  Deliverable(i)'
BY DEF Deliverable

\* Counts that do not shrink leave a deliverable message deliverable.
LEMMA DeliverableKept ==
  ASSUME NEW i \in Jobs, Deliverable(i), TypeOK, TypeOK',
         \A m \in Messages : queue'[m] >= queue[m]
  PROVE  Deliverable(i)'
<1>1. PICK r \in 0..MaxRetries : queue[<<i, r>>] > 0
  BY DEF Deliverable
<1>2. <<i, r>> \in Messages
  BY DEF Messages
<1>3. /\ queue[<<i, r>>] \in Nat /\ queue'[<<i, r>>] \in Nat
      /\ queue'[<<i, r>>] >= queue[<<i, r>>]
  BY <1>2 DEF TypeOK
<1>4. queue'[<<i, r>>] > 0
  BY <1>1, <1>3
<1> QED
  BY <1>4, WaitingDelivers

\* Adding a message makes it waiting and shrinks no other count.
LEMMA AddGrows ==
  ASSUME TypeOK, NEW m \in Messages, queue' = [queue EXCEPT ![m] = @ + 1]
  PROVE  queue'[m] > 0 /\ \A x \in Messages : queue'[x] >= queue[x]
<1>1. queue'[m] = queue[m] + 1 /\ queue[m] \in Nat
  BY DEF TypeOK
<1>2. ASSUME NEW x \in Messages PROVE queue'[x] >= queue[x]
  <2>1. queue[x] \in Nat /\ queue'[x] = IF x = m THEN queue[m] + 1 ELSE queue[x]
    BY DEF TypeOK
  <2> QED
    BY <2>1
<1> QED
  BY <1>1, <1>2

\* Giving back never shrinks a count.
LEMMA GiveBackGrows ==
  ASSUME TypeOK, GiveBack
  PROVE  \A m \in Messages : queue'[m] >= queue[m]
<1>1. CASE pc \in Busy /\ ~restored
  BY <1>1, AddGrows DEF TypeOK, GiveBack
<1>2. CASE ~(pc \in Busy /\ ~restored)
  BY <1>2 DEF TypeOK, GiveBack
<1> QED
  BY <1>1, <1>2

\* A held message that is given back is deliverable, now or already before.
LEMMA GiveBackDelivers ==
  ASSUME TypeOK, MessageHistory, GiveBack, pc \in Busy, NEW i \in Jobs, Job = i
  PROVE  Deliverable(i)'
<1>1. task \in Messages /\ Job \in Jobs
  BY DEF TypeOK, Messages, Job
<1>2. queue'[task] > 0
  <2>1. CASE restored
    BY <1>1, <2>1 DEF TypeOK, MessageHistory, GiveBack
  <2>2. CASE ~restored
    BY <1>1, <2>2, AddGrows DEF GiveBack
  <2> QED
    BY <2>1, <2>2 DEF TypeOK
<1>3. PICK r \in 0..MaxRetries : task = <<i, r>>
  BY <1>1 DEF Messages, Job
<1>4. queue'[<<i, r>>] > 0
  BY <1>2, <1>3
<1> QED
  BY <1>4, WaitingDelivers

\* What NoLostWork says of a job before a step that drops no message and
\* leaves lost[i] set.
LEMMA WorkKept ==
  ASSUME TypeOK, TypeOK', NoLostWork, NEW i \in Jobs, status[i] \in {"QUEUED", "RUNNING"},
         \A m \in Messages : queue'[m] >= queue[m]
  PROVE  \/ api[i] = "committed" \/ Deliverable(i)'
         \/ pc \in Body \cup Handler /\ Job = i
         \/ lost[i]
BY DeliverableKept DEF NoLostWork

\* Every step keeps the bookkeeping of messages and executions, and the row
\* follows the execution.
LEMMA HistoryStep ==
  Inductive /\ [Next]_vars
  => MessageHistory' /\ FreshJobs' /\ ExecutionSoFar' /\ RowFollowsExecution'
<1> SUFFICES ASSUME Inductive, [Next]_vars
             PROVE  MessageHistory' /\ FreshJobs' /\ ExecutionSoFar' /\ RowFollowsExecution'
  OBVIOUS
<1>0. TypeOK'
  BY TypeStep DEF Inductive
<1> USE RetriesAssumption, <1>0
    DEF Inductive, TypeOK, Messages, NoTask, Statuses, Terminal, Busy, Body, AfterComplete,
        Handler, row, registry, blobs, worker, bounds, Job, Run
<1>1. ASSUME NEW j \in Jobs, NEW processing_only \in BOOLEAN, CreateJob(j, processing_only)
      PROVE  MessageHistory' /\ FreshJobs' /\ ExecutionSoFar' /\ RowFollowsExecution'
  BY <1>1 DEF CreateJob, MessageHistory, FreshJobs, ExecutionSoFar, RowFollowsExecution
<1>2. ASSUME NEW j \in Jobs, Publish(j)
      PROVE  MessageHistory' /\ FreshJobs' /\ ExecutionSoFar' /\ RowFollowsExecution'
  BY <1>2 DEF Publish, MessageHistory, FreshJobs, ExecutionSoFar, RowFollowsExecution
<1>3. ASSUME NEW j \in Jobs, PublishFails(j)
      PROVE  MessageHistory' /\ FreshJobs' /\ ExecutionSoFar' /\ RowFollowsExecution'
  BY <1>3 DEF PublishFails, MessageHistory, FreshJobs, ExecutionSoFar, RowFollowsExecution
<1>4. ASSUME NEW j \in Jobs, DeleteJob(j)
      PROVE  MessageHistory' /\ FreshJobs' /\ ExecutionSoFar' /\ RowFollowsExecution'
  BY <1>4 DEF DeleteJob, MessageHistory, FreshJobs, ExecutionSoFar, RowFollowsExecution
<1>5. ASSUME NEW sweeps \in BOOLEAN, Boot(sweeps)
      PROVE  MessageHistory' /\ FreshJobs' /\ ExecutionSoFar' /\ RowFollowsExecution'
  BY <1>5 DEF Boot, MessageHistory, FreshJobs, ExecutionSoFar, RowFollowsExecution
<1>6. ASSUME NEW m \in Messages, Consume(m)
      PROVE  MessageHistory' /\ FreshJobs' /\ ExecutionSoFar' /\ RowFollowsExecution'
  <2>1. \A x \in Messages : x # m => queue'[x] = queue[x]
    BY <1>6 DEF Consume
  <2>2. queue[m] > 0 /\ queue'[m] <= queue[m]
    BY <1>6 DEF Consume
  <2>3. m[1] \in Jobs /\ attempts'[m[1]] = attempts[m[1]] + 1
    BY <1>6 DEF Consume
  <2>4. \A i \in Jobs : attempts'[i] >= attempts[i]
    BY <1>6 DEF Consume
  <2>5. \A x \in Messages : queue'[x] > 0 => x[2] <= attempts'[x[1]]
    BY <2>1, <2>2, <2>3, <2>4 DEF MessageHistory
  <2>6. MessageHistory'
    BY <1>6, <2>2, <2>3, <2>5 DEF Consume, MessageHistory, FreshJobs
  <2>7. FreshJobs' /\ ExecutionSoFar' /\ RowFollowsExecution'
    BY <1>6 DEF Consume, MessageHistory, FreshJobs, ExecutionSoFar, RowFollowsExecution
  <2> QED
    BY <2>6, <2>7
<1>7. CASE Ack
  BY <1>7 DEF Ack, Release, MessageHistory, FreshJobs, ExecutionSoFar, RowFollowsExecution
<1>8. CASE Restore
  BY <1>8 DEF Restore, GiveBack, MessageHistory, FreshJobs, ExecutionSoFar, RowFollowsExecution
<1>9. CASE LoseChild
  <2>1. \A x \in Messages : x # task => queue'[x] = queue[x]
    BY <1>9 DEF LoseChild, GiveBack
  <2>2. pc \in Busy => task[2] <= attempts[Job]
    BY DEF MessageHistory
  <2>3. \A x \in Messages : queue'[x] > 0 => x[2] <= attempts[x[1]]
    BY <1>9, <2>1, <2>2 DEF LoseChild, GiveBack, MessageHistory
  <2>4. MessageHistory'
    BY <1>9, <2>3 DEF LoseChild, Release, MessageHistory
  <2>5. FreshJobs' /\ ExecutionSoFar' /\ RowFollowsExecution'
    BY <1>9 DEF LoseChild, GiveBack, Release, MessageHistory, FreshJobs, ExecutionSoFar,
       RowFollowsExecution
  <2> QED
    BY <2>4, <2>5
<1>10. CASE LoseWorker
  <2>1. \A x \in Messages : x # task => queue'[x] = queue[x]
    BY <1>10 DEF LoseWorker, GiveBack
  <2>2. pc \in Busy => task[2] <= attempts[Job]
    BY DEF MessageHistory
  <2>3. \A x \in Messages : queue'[x] > 0 => x[2] <= attempts[x[1]]
    BY <1>10, <2>1, <2>2 DEF LoseWorker, GiveBack, MessageHistory
  <2>4. MessageHistory'
    BY <1>10, <2>3 DEF LoseWorker, Release, MessageHistory
  <2>5. FreshJobs' /\ ExecutionSoFar' /\ RowFollowsExecution'
    BY <1>10 DEF LoseWorker, GiveBack, Release, MessageHistory, FreshJobs, ExecutionSoFar,
       RowFollowsExecution
  <2> QED
    BY <2>4, <2>5
<1>11. CASE HardTimeLimit
  BY <1>11 DEF HardTimeLimit, Release, MessageHistory, FreshJobs, ExecutionSoFar,
     RowFollowsExecution
<1>12. CASE LoadJob
  BY <1>12 DEF LoadJob, WithRow, MessageHistory, FreshJobs, ExecutionSoFar, RowFollowsExecution
<1>13. CASE Progress
  BY <1>13 DEF Progress, PrepareData, Fit, SaveProgress, WithRow, MessageHistory, FreshJobs,
     ExecutionSoFar, RowFollowsExecution
<1>14. CASE UploadModel
  BY <1>14 DEF UploadModel, MessageHistory, FreshJobs, ExecutionSoFar, RowFollowsExecution
<1>15. CASE UploadRest
  BY <1>15 DEF UploadRest, MessageHistory, FreshJobs, ExecutionSoFar, RowFollowsExecution
<1>16. CASE Register
  BY <1>16 DEF Register, MessageHistory, FreshJobs, ExecutionSoFar, RowFollowsExecution
<1>17. CASE Complete
  BY <1>17 DEF Complete, WithRow, MessageHistory, FreshJobs, ExecutionSoFar, RowFollowsExecution
<1>18. CASE ApplyBaselines
  BY <1>18 DEF ApplyBaselines, LateError, MessageHistory, FreshJobs, ExecutionSoFar,
     RowFollowsExecution
<1>19. CASE ReportCompleted
  BY <1>19 DEF ReportCompleted, SetRedisStatus, LateError, MessageHistory, FreshJobs,
     ExecutionSoFar, RowFollowsExecution
<1>20. CASE Notify
  BY <1>20 DEF Notify, LateError, MessageHistory, FreshJobs, ExecutionSoFar, RowFollowsExecution
<1>21. CASE Raise
  BY <1>21 DEF Raise, LateError, MessageHistory, FreshJobs, ExecutionSoFar, RowFollowsExecution
<1>22. CASE Retry
  BY <1>22 DEF Retry, MessageHistory, FreshJobs, ExecutionSoFar, RowFollowsExecution
<1>23. CASE RetryFails
  BY <1>23 DEF RetryFails, MessageHistory, FreshJobs, ExecutionSoFar, RowFollowsExecution
<1>24. CASE ReportFailed
  BY <1>24 DEF ReportFailed, SetRedisStatus, LateError, MessageHistory, FreshJobs,
     ExecutionSoFar, RowFollowsExecution
<1>25. CASE MarkFailed
  BY <1>25 DEF MarkFailed, MessageHistory, FreshJobs, ExecutionSoFar, RowFollowsExecution
<1>26. CASE MarkFailedRaises
  BY <1>26 DEF MarkFailedRaises, MessageHistory, FreshJobs, ExecutionSoFar, RowFollowsExecution
<1>27. CASE UNCHANGED vars
  BY <1>27 DEF vars, MessageHistory, FreshJobs, ExecutionSoFar, RowFollowsExecution
<1> HIDE DEF TypeOK, Messages, NoTask, Statuses, Terminal, Busy, Body, AfterComplete, Handler,
             row, registry, blobs, worker, bounds, Inductive, Job, Run
<1>28. CASE TrainModel
  BY <1>7, <1>12, <1>13, <1>14, <1>15, <1>16, <1>17, <1>18, <1>19, <1>20, <1>22, <1>24, <1>25,
     <1>28 DEF TrainModel
<1>29. CASE Faults
  BY <1>3, <1>8, <1>9, <1>10, <1>11, <1>21, <1>23, <1>26, <1>29 DEF Faults
<1> QED
  BY <1>1, <1>2, <1>4, <1>5, <1>6, <1>27, <1>28, <1>29 DEF Next

\* Every step keeps what jobs, models and blobs say of each other.
LEMMA TablesStep ==
  Inductive /\ [Next]_vars
  => CompletedIsBacked' /\ ArtifactsNotOlder' /\ GivesUpAfterAllRetries'
<1> SUFFICES ASSUME Inductive, [Next]_vars
             PROVE  CompletedIsBacked' /\ ArtifactsNotOlder' /\ GivesUpAfterAllRetries'
  OBVIOUS
<1>0. TypeOK'
  BY TypeStep DEF Inductive
<1> USE RetriesAssumption, <1>0
    DEF Inductive, TypeOK, Messages, NoTask, Statuses, Terminal, Busy, Body, AfterComplete,
        Handler, row, registry, blobs, worker, bounds, Job, Run
<1>1. ASSUME NEW j \in Jobs, NEW processing_only \in BOOLEAN, CreateJob(j, processing_only)
      PROVE  CompletedIsBacked' /\ ArtifactsNotOlder' /\ GivesUpAfterAllRetries'
  BY <1>1 DEF CreateJob, MessageHistory, ExecutionSoFar, CompletedIsBacked,
     ArtifactsNotOlder, GivesUpAfterAllRetries
<1>2. ASSUME NEW j \in Jobs, Publish(j)
      PROVE  CompletedIsBacked' /\ ArtifactsNotOlder' /\ GivesUpAfterAllRetries'
  BY <1>2 DEF Publish, MessageHistory, ExecutionSoFar, CompletedIsBacked, ArtifactsNotOlder,
     GivesUpAfterAllRetries
<1>3. ASSUME NEW j \in Jobs, PublishFails(j)
      PROVE  CompletedIsBacked' /\ ArtifactsNotOlder' /\ GivesUpAfterAllRetries'
  BY <1>3 DEF PublishFails, MessageHistory, ExecutionSoFar, CompletedIsBacked,
     ArtifactsNotOlder, GivesUpAfterAllRetries
<1>4. ASSUME NEW j \in Jobs, DeleteJob(j)
      PROVE  CompletedIsBacked' /\ ArtifactsNotOlder' /\ GivesUpAfterAllRetries'
  BY <1>4 DEF DeleteJob, MessageHistory, ExecutionSoFar, CompletedIsBacked,
     ArtifactsNotOlder, GivesUpAfterAllRetries
<1>5. ASSUME NEW sweeps \in BOOLEAN, Boot(sweeps)
      PROVE  CompletedIsBacked' /\ ArtifactsNotOlder' /\ GivesUpAfterAllRetries'
  BY <1>5 DEF Boot, MessageHistory, ExecutionSoFar, CompletedIsBacked, ArtifactsNotOlder,
     GivesUpAfterAllRetries
<1>6. ASSUME NEW m \in Messages, Consume(m)
      PROVE  CompletedIsBacked' /\ ArtifactsNotOlder' /\ GivesUpAfterAllRetries'
  BY <1>6 DEF Consume, MessageHistory, ExecutionSoFar, CompletedIsBacked, ArtifactsNotOlder,
     GivesUpAfterAllRetries
<1>7. CASE Ack
  BY <1>7 DEF Ack, Release, MessageHistory, ExecutionSoFar, CompletedIsBacked,
     ArtifactsNotOlder, GivesUpAfterAllRetries
<1>8. CASE Restore
  BY <1>8 DEF Restore, GiveBack, MessageHistory, ExecutionSoFar, CompletedIsBacked,
     ArtifactsNotOlder, GivesUpAfterAllRetries
<1>9. CASE LoseChild
  BY <1>9 DEF LoseChild, GiveBack, Release, MessageHistory, ExecutionSoFar,
     CompletedIsBacked, ArtifactsNotOlder, GivesUpAfterAllRetries
<1>10. CASE LoseWorker
  BY <1>10 DEF LoseWorker, GiveBack, Release, MessageHistory, ExecutionSoFar,
     CompletedIsBacked, ArtifactsNotOlder, GivesUpAfterAllRetries
<1>11. CASE HardTimeLimit
  BY <1>11 DEF HardTimeLimit, Release, MessageHistory, ExecutionSoFar, CompletedIsBacked,
     ArtifactsNotOlder, GivesUpAfterAllRetries
<1>12. CASE LoadJob
  BY <1>12 DEF LoadJob, WithRow, MessageHistory, ExecutionSoFar, CompletedIsBacked,
     ArtifactsNotOlder, GivesUpAfterAllRetries
<1>13. CASE Progress
  BY <1>13 DEF Progress, PrepareData, Fit, SaveProgress, WithRow, MessageHistory,
     ExecutionSoFar, CompletedIsBacked, ArtifactsNotOlder, GivesUpAfterAllRetries
<1>14. CASE UploadModel
  BY <1>14 DEF UploadModel, MessageHistory, ExecutionSoFar, CompletedIsBacked,
     ArtifactsNotOlder, GivesUpAfterAllRetries
<1>15. CASE UploadRest
  BY <1>15 DEF UploadRest, MessageHistory, ExecutionSoFar, CompletedIsBacked,
     ArtifactsNotOlder, GivesUpAfterAllRetries
<1>16. CASE Register
  BY <1>16 DEF Register, MessageHistory, ExecutionSoFar, CompletedIsBacked,
     ArtifactsNotOlder, GivesUpAfterAllRetries
<1>17. CASE Complete
  <2>1. ArtifactsNotOlder' /\ GivesUpAfterAllRetries'
    BY <1>17 DEF Complete, WithRow, ArtifactsNotOlder, GivesUpAfterAllRetries
  <2>2. models' = models /\ <<Job, Run>> \in models /\ Job \in Jobs
    BY <1>17 DEF Complete, WithRow, ExecutionSoFar
  <2>3. Run # 0
    BY <2>2 DEF ExecutionSoFar
  <2>4. CompletedIsBacked'
    BY <1>17, <2>2, <2>3 DEF Complete, WithRow, CompletedIsBacked
  <2> QED
    BY <2>1, <2>4
<1>18. CASE ApplyBaselines
  BY <1>18 DEF ApplyBaselines, LateError, MessageHistory, ExecutionSoFar, CompletedIsBacked,
     ArtifactsNotOlder, GivesUpAfterAllRetries
<1>19. CASE ReportCompleted
  BY <1>19 DEF ReportCompleted, SetRedisStatus, LateError, MessageHistory, ExecutionSoFar,
     CompletedIsBacked, ArtifactsNotOlder, GivesUpAfterAllRetries
<1>20. CASE Notify
  BY <1>20 DEF Notify, LateError, MessageHistory, ExecutionSoFar, CompletedIsBacked,
     ArtifactsNotOlder, GivesUpAfterAllRetries
<1>21. CASE Raise
  BY <1>21 DEF Raise, LateError, MessageHistory, ExecutionSoFar, CompletedIsBacked, ArtifactsNotOlder,
     GivesUpAfterAllRetries
<1>22. CASE Retry
  BY <1>22 DEF Retry, MessageHistory, ExecutionSoFar, CompletedIsBacked, ArtifactsNotOlder,
     GivesUpAfterAllRetries
<1>23. CASE RetryFails
  BY <1>23 DEF RetryFails, MessageHistory, ExecutionSoFar, CompletedIsBacked,
     ArtifactsNotOlder, GivesUpAfterAllRetries
<1>24. CASE ReportFailed
  BY <1>24 DEF ReportFailed, SetRedisStatus, LateError, MessageHistory, ExecutionSoFar,
     CompletedIsBacked, ArtifactsNotOlder, GivesUpAfterAllRetries
<1>25. CASE MarkFailed
  BY <1>25 DEF MarkFailed, MessageHistory, ExecutionSoFar, CompletedIsBacked,
     ArtifactsNotOlder, GivesUpAfterAllRetries
<1>26. CASE MarkFailedRaises
  BY <1>26 DEF MarkFailedRaises, MessageHistory, ExecutionSoFar, CompletedIsBacked,
     ArtifactsNotOlder, GivesUpAfterAllRetries
<1>27. CASE UNCHANGED vars
  BY <1>27 DEF vars, MessageHistory, ExecutionSoFar, CompletedIsBacked, ArtifactsNotOlder,
     GivesUpAfterAllRetries
<1> HIDE DEF TypeOK, Messages, NoTask, Statuses, Terminal, Busy, Body, AfterComplete, Handler,
             row, registry, blobs, worker, bounds, Inductive, Job, Run
<1>28. CASE TrainModel
  BY <1>7, <1>12, <1>13, <1>14, <1>15, <1>16, <1>17, <1>18, <1>19, <1>20, <1>22, <1>24, <1>25,
     <1>28 DEF TrainModel
<1>29. CASE Faults
  BY <1>3, <1>8, <1>9, <1>10, <1>11, <1>21, <1>23, <1>26, <1>29 DEF Faults
<1> QED
  BY <1>1, <1>2, <1>4, <1>5, <1>6, <1>27, <1>28, <1>29 DEF Next

\* Every step keeps reports behind the tables.
LEMMA ReportsStep ==
  Inductive /\ [Next]_vars
  => ReportedIsRecorded'
<1> SUFFICES ASSUME Inductive, [Next]_vars
             PROVE  ReportedIsRecorded'
  OBVIOUS
<1>0. TypeOK'
  BY TypeStep DEF Inductive
<1> USE RetriesAssumption, <1>0
    DEF Inductive, TypeOK, Messages, NoTask, Statuses, Terminal, Busy, Body, AfterComplete,
        Handler, row, registry, blobs, worker, bounds, Job, Run
<1>1. ASSUME NEW j \in Jobs, NEW processing_only \in BOOLEAN, CreateJob(j, processing_only)
      PROVE  ReportedIsRecorded'
  BY <1>1 DEF CreateJob, FreshJobs, ExecutionSoFar, CompletedIsBacked, ReportedIsRecorded
<1>2. ASSUME NEW j \in Jobs, Publish(j) PROVE ReportedIsRecorded'
  BY <1>2 DEF Publish, FreshJobs, ExecutionSoFar, CompletedIsBacked, ReportedIsRecorded
<1>3. ASSUME NEW j \in Jobs, PublishFails(j) PROVE ReportedIsRecorded'
  BY <1>3 DEF PublishFails, FreshJobs, ExecutionSoFar, CompletedIsBacked, ReportedIsRecorded
<1>4. ASSUME NEW j \in Jobs, DeleteJob(j) PROVE ReportedIsRecorded'
  BY <1>4 DEF DeleteJob, FreshJobs, ExecutionSoFar, CompletedIsBacked, ReportedIsRecorded
<1>5. ASSUME NEW sweeps \in BOOLEAN, Boot(sweeps) PROVE ReportedIsRecorded'
  BY <1>5 DEF Boot, FreshJobs, ExecutionSoFar, CompletedIsBacked, ReportedIsRecorded
<1>6. ASSUME NEW m \in Messages, Consume(m) PROVE ReportedIsRecorded'
  BY <1>6 DEF Consume, FreshJobs, ExecutionSoFar, CompletedIsBacked, ReportedIsRecorded
<1>7. CASE Ack
  BY <1>7 DEF Ack, Release, FreshJobs, ExecutionSoFar, CompletedIsBacked, ReportedIsRecorded
<1>8. CASE Restore
  BY <1>8 DEF Restore, GiveBack, FreshJobs, ExecutionSoFar, CompletedIsBacked,
     ReportedIsRecorded
<1>9. CASE LoseChild
  BY <1>9 DEF LoseChild, GiveBack, Release, FreshJobs, ExecutionSoFar, CompletedIsBacked,
     ReportedIsRecorded
<1>10. CASE LoseWorker
  BY <1>10 DEF LoseWorker, GiveBack, Release, FreshJobs, ExecutionSoFar, CompletedIsBacked,
     ReportedIsRecorded
<1>11. CASE HardTimeLimit
  BY <1>11 DEF HardTimeLimit, Release, FreshJobs, ExecutionSoFar, CompletedIsBacked,
     ReportedIsRecorded
<1>12. CASE LoadJob
  BY <1>12 DEF LoadJob, WithRow, FreshJobs, ExecutionSoFar, CompletedIsBacked,
     ReportedIsRecorded
<1>13. CASE Progress
  BY <1>13 DEF Progress, PrepareData, Fit, SaveProgress, WithRow, FreshJobs, ExecutionSoFar,
     CompletedIsBacked, ReportedIsRecorded
<1>14. CASE UploadModel
  BY <1>14 DEF UploadModel, FreshJobs, ExecutionSoFar, CompletedIsBacked, ReportedIsRecorded
<1>15. CASE UploadRest
  BY <1>15 DEF UploadRest, FreshJobs, ExecutionSoFar, CompletedIsBacked, ReportedIsRecorded
<1>16. CASE Register
  BY <1>16 DEF Register, FreshJobs, ExecutionSoFar, CompletedIsBacked, ReportedIsRecorded
<1>17. CASE Complete
  BY <1>17 DEF Complete, WithRow, FreshJobs, ExecutionSoFar, CompletedIsBacked,
     ReportedIsRecorded
<1>18. CASE ApplyBaselines
  <2>1. \A x \in baselined' \cup notified' :
          x \in baselined \cup notified \/ x = <<Job, Run>>
    BY <1>18 DEF ApplyBaselines
  <2>2. <<Job, Run>> \in models /\ (status[Job] = "ABSENT" \/ linked[Job] = Run)
    BY <1>18 DEF ApplyBaselines, ExecutionSoFar
  <2>3. models' = models /\ status' = status /\ linked' = linked /\ stream' = stream
    BY <1>18 DEF ApplyBaselines
  <2>4. Job \in Jobs /\ Run \in Nat
    BY <1>18 DEF ApplyBaselines
  <2>5. ASSUME NEW x \in baselined' \cup notified'
        PROVE  x \in models /\ (status[x[1]] = "ABSENT" \/ linked[x[1]] >= x[2])
    <3>1. CASE x \in baselined \cup notified
      BY <3>1 DEF ReportedIsRecorded
    <3>2. CASE x = <<Job, Run>>
      BY <2>2, <2>4, <3>2
    <3> QED
      BY <2>1, <3>1, <3>2
  <2> QED
    BY <2>3, <2>5 DEF ReportedIsRecorded
<1>19. CASE ReportCompleted
  BY <1>19 DEF ReportCompleted, SetRedisStatus, LateError, FreshJobs, ExecutionSoFar,
     CompletedIsBacked, ReportedIsRecorded
<1>20. CASE Notify
  <2>1. \A x \in baselined' \cup notified' :
          x \in baselined \cup notified \/ x = <<Job, Run>>
    BY <1>20 DEF Notify
  <2>2. <<Job, Run>> \in models /\ (status[Job] = "ABSENT" \/ linked[Job] = Run)
    BY <1>20 DEF Notify, ExecutionSoFar
  <2>3. models' = models /\ status' = status /\ linked' = linked /\ stream' = stream
    BY <1>20 DEF Notify
  <2>4. Job \in Jobs /\ Run \in Nat
    BY <1>20 DEF Notify
  <2>5. ASSUME NEW x \in baselined' \cup notified'
        PROVE  x \in models /\ (status[x[1]] = "ABSENT" \/ linked[x[1]] >= x[2])
    <3>1. CASE x \in baselined \cup notified
      BY <3>1 DEF ReportedIsRecorded
    <3>2. CASE x = <<Job, Run>>
      BY <2>2, <2>4, <3>2
    <3> QED
      BY <2>1, <3>1, <3>2
  <2> QED
    BY <2>3, <2>5 DEF ReportedIsRecorded
<1>21. CASE Raise
  BY <1>21 DEF Raise, LateError, FreshJobs, ExecutionSoFar, CompletedIsBacked, ReportedIsRecorded
<1>22. CASE Retry
  BY <1>22 DEF Retry, FreshJobs, ExecutionSoFar, CompletedIsBacked, ReportedIsRecorded
<1>23. CASE RetryFails
  BY <1>23 DEF RetryFails, FreshJobs, ExecutionSoFar, CompletedIsBacked, ReportedIsRecorded
<1>24. CASE ReportFailed
  BY <1>24 DEF ReportFailed, SetRedisStatus, LateError, FreshJobs, ExecutionSoFar,
     CompletedIsBacked, ReportedIsRecorded
<1>25. CASE MarkFailed
  BY <1>25 DEF MarkFailed, FreshJobs, ExecutionSoFar, CompletedIsBacked, ReportedIsRecorded
<1>26. CASE MarkFailedRaises
  BY <1>26 DEF MarkFailedRaises, FreshJobs, ExecutionSoFar, CompletedIsBacked,
     ReportedIsRecorded
<1>27. CASE UNCHANGED vars
  BY <1>27 DEF vars, FreshJobs, ExecutionSoFar, CompletedIsBacked, ReportedIsRecorded
<1> HIDE DEF TypeOK, Messages, NoTask, Statuses, Terminal, Busy, Body, AfterComplete, Handler,
             row, registry, blobs, worker, bounds, Inductive, Job, Run
<1>28. CASE TrainModel
  BY <1>7, <1>12, <1>13, <1>14, <1>15, <1>16, <1>17, <1>18, <1>19, <1>20, <1>22, <1>24, <1>25,
     <1>28 DEF TrainModel
<1>29. CASE Faults
  BY <1>3, <1>8, <1>9, <1>10, <1>11, <1>21, <1>23, <1>26, <1>29 DEF Faults
<1> QED
  BY <1>1, <1>2, <1>4, <1>5, <1>6, <1>27, <1>28, <1>29 DEF Next

\* Every step keeps somebody in charge of each unfinished job.
LEMMA WorkStep ==
  Inductive /\ [Next]_vars
  => NoLostWork'
<1> SUFFICES ASSUME Inductive, [Next]_vars
             PROVE  NoLostWork'
  OBVIOUS
<1>0. TypeOK'
  BY TypeStep DEF Inductive
<1> USE RetriesAssumption, <1>0
    DEF Inductive, TypeOK, Messages, NoTask, Statuses, Terminal, Busy, Body, AfterComplete,
        Handler, row, registry, blobs, worker, bounds, Job, Run
<1> DEFINE Backed(i) == \/ api[i] = "committed" \/ Deliverable(i)
                        \/ pc \in Body \cup Handler /\ Job = i
                        \/ lost[i]
<1>1. ASSUME NEW j \in Jobs, NEW processing_only \in BOOLEAN, CreateJob(j, processing_only)
      PROVE  NoLostWork'
  BY <1>1 DEF CreateJob, MessageHistory, RowFollowsExecution, NoLostWork, Deliverable
<1>2. ASSUME NEW j \in Jobs, Publish(j) PROVE NoLostWork'
  <2> SUFFICES ASSUME NEW i \in Jobs, status'[i] \in {"QUEUED", "RUNNING"}
               PROVE  Backed(i)'
    BY DEF NoLostWork
  <2>1. /\ queue'[<<j, 0>>] > 0
        /\ \A x \in Messages : queue'[x] >= queue[x]
    <3>1. <<j, 0>> \in Messages /\ queue' = [queue EXCEPT ![<<j, 0>>] = @ + 1]
      BY <1>2 DEF Publish
    <3> QED
      BY <3>1, AddGrows
  <2>2. CASE i = j
    <3>1. Deliverable(i)'
      BY <2>1, <2>2, 0 \in 0..MaxRetries, WaitingDelivers
    <3> QED
      BY <3>1
  <2>3. CASE i # j
    <3>1. /\ status[i] \in {"QUEUED", "RUNNING"}
          /\ api'[i] = api[i] /\ lost' = lost /\ pc' = pc /\ task' = task
      BY <1>2, <2>3 DEF Publish
    <3>2. \/ api[i] = "committed" \/ Deliverable(i)'
          \/ pc \in Body \cup Handler /\ Job = i
          \/ lost[i]
      BY <2>1, <3>1, WorkKept
    <3> QED
      BY <3>1, <3>2
  <2> QED
    BY <2>2, <2>3
<1>3. ASSUME NEW j \in Jobs, PublishFails(j) PROVE NoLostWork'
  <2> SUFFICES ASSUME NEW i \in Jobs, status'[i] \in {"QUEUED", "RUNNING"}
               PROVE  Backed(i)'
    BY DEF NoLostWork
  <2>1. /\ status[i] \in {"QUEUED", "RUNNING"}
        /\ \A x \in Messages : queue'[x] >= queue[x]
        /\ i # j \/ lost'[i]
    BY <1>3 DEF PublishFails
  <2> QED
    BY <1>3, <2>1, WorkKept DEF PublishFails
<1>4. ASSUME NEW j \in Jobs, DeleteJob(j) PROVE NoLostWork'
  <2> SUFFICES ASSUME NEW i \in Jobs, status'[i] \in {"QUEUED", "RUNNING"}
               PROVE  Backed(i)'
    BY DEF NoLostWork
  <2>1. /\ status[i] \in {"QUEUED", "RUNNING"}
        /\ \A x \in Messages : queue'[x] >= queue[x]
        /\ i # j \/ lost'[i]
    BY <1>4 DEF DeleteJob
  <2> QED
    BY <1>4, <2>1, WorkKept DEF DeleteJob
<1>5. ASSUME NEW sweeps \in BOOLEAN, Boot(sweeps) PROVE NoLostWork'
  BY <1>5 DEF Boot, MessageHistory, RowFollowsExecution, NoLostWork, Deliverable
<1>6. ASSUME NEW m \in Messages, Consume(m) PROVE NoLostWork'
  <2> SUFFICES ASSUME NEW i \in Jobs, status'[i] \in {"QUEUED", "RUNNING"}
               PROVE  Backed(i)'
    BY DEF NoLostWork
  <2>1. status[i] \in {"QUEUED", "RUNNING"} /\ api' = api /\ lost' = lost
    BY <1>6 DEF Consume
  <2>2. CASE i = m[1]
    BY <1>6, <2>2 DEF Consume
  <2>3. CASE i # m[1]
    <3>1. ~(pc \in Body \cup Handler /\ Job = i)
      BY <1>6 DEF Consume
    <3>2. CASE Deliverable(i)
      <4>1. PICK r \in 0..MaxRetries : queue[<<i, r>>] > 0
        BY <3>2 DEF Deliverable
      <4>2. queue'[<<i, r>>] = queue[<<i, r>>]
        BY <1>6, <2>3, <<i, r>> \in Messages, <<i, r>> # m DEF Consume
      <4>3. Deliverable(i)'
        BY <4>1, <4>2, WaitingDelivers
      <4> QED
        BY <4>3
    <3> QED
      BY <2>1, <3>1, <3>2 DEF NoLostWork
  <2> QED
    BY <2>2, <2>3
<1>7. CASE Ack
  BY <1>7 DEF Ack, Release, MessageHistory, RowFollowsExecution, NoLostWork, Deliverable
<1>8. CASE Restore
  <2> SUFFICES ASSUME NEW i \in Jobs, status'[i] \in {"QUEUED", "RUNNING"}
               PROVE  Backed(i)'
    BY DEF NoLostWork
  <2>1. status[i] \in {"QUEUED", "RUNNING"} /\ api' = api /\ lost' = lost
    BY <1>8 DEF Restore
  <2>2. GiveBack
    BY <1>8 DEF Restore
  <2>3. CASE pc \in Busy /\ Job = i
    <3>1. Deliverable(i)'
      BY <2>2, <2>3, GiveBackDelivers
    <3> QED
      BY <3>1
  <2>4. CASE ~(pc \in Busy /\ Job = i)
    <3>1. \A x \in Messages : queue'[x] >= queue[x]
      BY <2>2, GiveBackGrows
    <3>2. api[i] = "committed" \/ Deliverable(i)' \/ lost[i]
      BY <2>1, <2>4, <3>1, WorkKept
    <3> QED
      BY <2>1, <3>2
  <2> QED
    BY <2>3, <2>4
<1>9. CASE LoseChild
  <2> SUFFICES ASSUME NEW i \in Jobs, status'[i] \in {"QUEUED", "RUNNING"}
               PROVE  Backed(i)'
    BY DEF NoLostWork
  <2>1. status[i] \in {"QUEUED", "RUNNING"} /\ api' = api /\ lost' = lost
    BY <1>9 DEF LoseChild
  <2>2. GiveBack
    BY <1>9 DEF LoseChild
  <2>3. CASE pc \in Busy /\ Job = i
    <3>1. Deliverable(i)'
      BY <2>2, <2>3, GiveBackDelivers
    <3> QED
      BY <3>1
  <2>4. CASE ~(pc \in Busy /\ Job = i)
    <3>1. \A x \in Messages : queue'[x] >= queue[x]
      BY <2>2, GiveBackGrows
    <3>2. api[i] = "committed" \/ Deliverable(i)' \/ lost[i]
      BY <2>1, <2>4, <3>1, WorkKept
    <3> QED
      BY <2>1, <3>2
  <2> QED
    BY <2>3, <2>4
<1>10. CASE LoseWorker
  <2> SUFFICES ASSUME NEW i \in Jobs, status'[i] \in {"QUEUED", "RUNNING"}
               PROVE  Backed(i)'
    BY DEF NoLostWork
  <2>1. status[i] \in {"QUEUED", "RUNNING"} /\ api' = api /\ lost' = lost
    BY <1>10 DEF LoseWorker
  <2>2. GiveBack
    BY <1>10 DEF LoseWorker
  <2>3. CASE pc \in Busy /\ Job = i
    <3>1. Deliverable(i)'
      BY <2>2, <2>3, GiveBackDelivers
    <3> QED
      BY <3>1
  <2>4. CASE ~(pc \in Busy /\ Job = i)
    <3>1. \A x \in Messages : queue'[x] >= queue[x]
      BY <2>2, GiveBackGrows
    <3>2. api[i] = "committed" \/ Deliverable(i)' \/ lost[i]
      BY <2>1, <2>4, <3>1, WorkKept
    <3> QED
      BY <2>1, <3>2
  <2> QED
    BY <2>3, <2>4
<1>11. CASE HardTimeLimit
  <2> SUFFICES ASSUME NEW i \in Jobs, status'[i] \in {"QUEUED", "RUNNING"}
               PROVE  Backed(i)'
    BY DEF NoLostWork
  <2>1. /\ status[i] \in {"QUEUED", "RUNNING"}
        /\ \A x \in Messages : queue'[x] >= queue[x]
        /\ i # Job \/ lost'[i]
    BY <1>11 DEF HardTimeLimit, Release
  <2> QED
    BY <1>11, <2>1, WorkKept DEF HardTimeLimit, Release
<1>12. CASE LoadJob
  BY <1>12 DEF LoadJob, WithRow, MessageHistory, RowFollowsExecution, NoLostWork, Deliverable
<1>13. CASE Progress
  BY <1>13 DEF Progress, PrepareData, Fit, SaveProgress, WithRow, MessageHistory,
     RowFollowsExecution, NoLostWork, Deliverable
<1>14. CASE UploadModel
  BY <1>14 DEF UploadModel, MessageHistory, RowFollowsExecution, NoLostWork, Deliverable
<1>15. CASE UploadRest
  BY <1>15 DEF UploadRest, MessageHistory, RowFollowsExecution, NoLostWork, Deliverable
<1>16. CASE Register
  BY <1>16 DEF Register, MessageHistory, RowFollowsExecution, NoLostWork, Deliverable
<1>17. CASE Complete
  BY <1>17 DEF Complete, WithRow, MessageHistory, RowFollowsExecution, NoLostWork, Deliverable
<1>18. CASE ApplyBaselines
  BY <1>18 DEF ApplyBaselines, LateError, MessageHistory, RowFollowsExecution, NoLostWork,
     Deliverable
<1>19. CASE ReportCompleted
  BY <1>19 DEF ReportCompleted, SetRedisStatus, LateError, MessageHistory, RowFollowsExecution,
     NoLostWork, Deliverable
<1>20. CASE Notify
  BY <1>20 DEF Notify, LateError, MessageHistory, RowFollowsExecution, NoLostWork, Deliverable
<1>21. CASE Raise
  BY <1>21 DEF Raise, LateError, MessageHistory, RowFollowsExecution, NoLostWork, Deliverable
<1>22. CASE Retry
  <2> SUFFICES ASSUME NEW i \in Jobs, status'[i] \in {"QUEUED", "RUNNING"}
               PROVE  Backed(i)'
    BY DEF NoLostWork
  <2> DEFINE next == <<Job, task[2] + 1>>
  <2>1. next \in Messages /\ task[2] + 1 \in 0..MaxRetries
    BY <1>22 DEF Retry
  <2>2. queue'[next] > 0 /\ \A x \in Messages : queue'[x] >= queue[x]
    <3>1. queue' = [queue EXCEPT ![next] = @ + 1]
      BY <1>22 DEF Retry
    <3> HIDE DEF next
    <3> QED
      BY <2>1, <3>1, AddGrows
  <2>3. CASE i = Job
    <3>1. Deliverable(i)'
      BY <2>1, <2>2, <2>3, WaitingDelivers
    <3> QED
      BY <3>1
  <2>4. CASE i # Job
    <3>1. status[i] \in {"QUEUED", "RUNNING"}
      BY <1>22 DEF Retry
    <3> QED
      BY <1>22, <2>2, <2>4, <3>1, WorkKept DEF Retry
  <2> QED
    BY <2>3, <2>4
<1>23. CASE RetryFails
  <2> SUFFICES ASSUME NEW i \in Jobs, status'[i] \in {"QUEUED", "RUNNING"}
               PROVE  Backed(i)'
    BY DEF NoLostWork
  <2>1. /\ status[i] \in {"QUEUED", "RUNNING"}
        /\ \A x \in Messages : queue'[x] >= queue[x]
        /\ i # Job \/ lost'[i]
    BY <1>23 DEF RetryFails
  <2> QED
    BY <1>23, <2>1, WorkKept DEF RetryFails
<1>24. CASE ReportFailed
  BY <1>24 DEF ReportFailed, SetRedisStatus, LateError, MessageHistory, RowFollowsExecution,
     NoLostWork, Deliverable
<1>25. CASE MarkFailed
  <2> SUFFICES ASSUME NEW i \in Jobs, status'[i] \in {"QUEUED", "RUNNING"}
               PROVE  Backed(i)'
    BY DEF NoLostWork
  <2>1. /\ status[i] \in {"QUEUED", "RUNNING"}
        /\ \A x \in Messages : queue'[x] >= queue[x]
        /\ i # Job \/ lost'[i]
    BY <1>25 DEF MarkFailed
  <2> QED
    BY <1>25, <2>1, WorkKept DEF MarkFailed
<1>26. CASE MarkFailedRaises
  <2> SUFFICES ASSUME NEW i \in Jobs, status'[i] \in {"QUEUED", "RUNNING"}
               PROVE  Backed(i)'
    BY DEF NoLostWork
  <2>1. /\ status[i] \in {"QUEUED", "RUNNING"}
        /\ \A x \in Messages : queue'[x] >= queue[x]
        /\ i # Job \/ lost'[i]
    BY <1>26 DEF MarkFailedRaises
  <2> QED
    BY <1>26, <2>1, WorkKept DEF MarkFailedRaises
<1>27. CASE UNCHANGED vars
  BY <1>27 DEF vars, MessageHistory, RowFollowsExecution, NoLostWork, Deliverable
<1> HIDE DEF TypeOK, Messages, NoTask, Statuses, Terminal, Busy, Body, AfterComplete, Handler,
             row, registry, blobs, worker, bounds, Inductive, Job, Run
<1>28. CASE TrainModel
  BY <1>7, <1>12, <1>13, <1>14, <1>15, <1>16, <1>17, <1>18, <1>19, <1>20, <1>22, <1>24, <1>25,
     <1>28 DEF TrainModel
<1>29. CASE Faults
  BY <1>3, <1>8, <1>9, <1>10, <1>11, <1>21, <1>23, <1>26, <1>29 DEF Faults
<1> QED
  BY <1>1, <1>2, <1>4, <1>5, <1>6, <1>27, <1>28, <1>29 DEF Next

-----------------------------------------------------------------------------
(* The theorems *)

\* The initial state satisfies the inductive invariant.
LEMMA InductiveInit == Init => Inductive
<1> SUFFICES ASSUME Init PROVE Inductive
  OBVIOUS
<1>1. TypeOK
  BY DEF Init, TypeOK, NoTask, Statuses, Terminal, Busy, Body, AfterComplete, Handler
<1>2. MessageHistory /\ FreshJobs /\ ExecutionSoFar
  BY RetriesAssumption
  DEF Init, Messages, Busy, Body, AfterComplete, Handler, MessageHistory, FreshJobs,
      ExecutionSoFar
<1>3. RowFollowsExecution /\ CompletedIsBacked /\ ArtifactsNotOlder /\ NoLostWork
  BY DEF Init, Body, AfterComplete, RowFollowsExecution, CompletedIsBacked,
         ArtifactsNotOlder, NoLostWork
<1>4. GivesUpAfterAllRetries /\ ReportedIsRecorded
  BY DEF Init, GivesUpAfterAllRetries, ReportedIsRecorded
<1> QED
  BY <1>1, <1>2, <1>3, <1>4 DEF Inductive

\* Every step keeps the inductive invariant.
LEMMA InductiveStep == Inductive /\ [Next]_vars => Inductive'
BY TypeStep, HistoryStep, TablesStep, ReportsStep, WorkStep DEF Inductive

\* The columns, blobs, Redis key, message counts and the worker's state always
\* have their types: no count is negative, a busy worker holds a message.
THEOREM TypeCorrect == Spec => []TypeOK
<1>1. Init => TypeOK
  BY InductiveInit DEF Inductive
<1> QED
  BY <1>1, TypeStep, PTL DEF Spec

\* The strengthening from which the safety theorems below follow.
THEOREM InductiveInvariant == Spec => []Inductive
BY InductiveInit, InductiveStep, PTL DEF Spec

\* No sweep, retry, redelivery or DELETE puts another status on the row of the
\* job the worker is executing.
THEOREM RowFollows == Spec => []RowFollowsExecution
<1>1. Inductive => RowFollowsExecution
  BY DEF Inductive
<1> QED
  BY <1>1, InductiveInvariant, PTL

\* A COMPLETED job has a model_id and every model_id names a registered model
\* of its own job, for any number of jobs, retries, crashes and redeliveries.
THEOREM CompletedBacked == Spec => []CompletedIsBacked
<1>1. Inductive => CompletedIsBacked
  BY DEF Inductive
<1> QED
  BY <1>1, InductiveInvariant, PTL

\* The artifacts found under a job's prefix are at least as new as each model
\* registered for it.
THEOREM ArtifactsFresh == Spec => []ArtifactsNotOlder
<1>1. Inductive => ArtifactsNotOlder
  BY DEF Inductive
<1> QED
  BY <1>1, InductiveInvariant, PTL

\* A QUEUED or RUNNING job is in somebody's hands unless the broker dropped a
\* message of it.
THEOREM WorkNotLost == Spec => []NoLostWork
<1>1. Inductive => NoLostWork
  BY DEF Inductive
<1> QED
  BY <1>1, InductiveInvariant, PTL

\* No job fails by its own error before its last retry was executed.
THEOREM AllRetriesUsed == Spec => []GivesUpAfterAllRetries
<1>1. Inductive => GivesUpAfterAllRetries
  BY DEF Inductive
<1> QED
  BY <1>1, InductiveInvariant, PTL

\* Baselines, notifications and a COMPLETED stream status always speak of what
\* the tables already hold.
THEOREM ReportsRecorded == Spec => []ReportedIsRecorded
<1>1. Inductive => ReportedIsRecorded
  BY DEF Inductive
<1> QED
  BY <1>1, InductiveInvariant, PTL
=============================================================================
