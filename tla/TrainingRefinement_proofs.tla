--------------------- MODULE TrainingRefinement_proofs ---------------------
(* Proof that TrainingPipeline implements JobLifecycle, for any number of  *)
(* jobs, retries and faults.                                               *)
EXTENDS TrainingPipeline_proofs

(***************************************************************************)
(* The invariants that the refinement needs.                               *)
(***************************************************************************)

\* Every step keeps the new invariants.
LEMMA ResultStep == Refining /\ [Next]_vars => NoLaterResult' /\ PreparedIsOver'
<1> SUFFICES ASSUME Inductive, NoLaterResult, PreparedIsOver, [Next]_vars
             PROVE  NoLaterResult' /\ PreparedIsOver'
  BY DEF Refining
<1>0. TypeOK'
  BY TypeStep DEF Inductive
<1> USE RetriesAssumption, <1>0
    DEF Inductive, TypeOK, Messages, NoTask, Statuses, Terminal, Busy, Body, AfterComplete,
        Handler, row, registry, blobs, worker, bounds, Job, Run
<1>1. ASSUME NEW j \in Jobs, NEW processing_only \in BOOLEAN, CreateJob(j, processing_only)
      PROVE  NoLaterResult' /\ PreparedIsOver'
  BY <1>1 DEF CreateJob, MessageHistory, FreshJobs, ExecutionSoFar, CompletedIsBacked,
     NoLaterResult, PreparedIsOver
<1>2. ASSUME NEW j \in Jobs, Publish(j)
      PROVE  NoLaterResult' /\ PreparedIsOver'
  BY <1>2 DEF Publish, MessageHistory, FreshJobs, ExecutionSoFar, CompletedIsBacked,
     NoLaterResult, PreparedIsOver
<1>3. ASSUME NEW j \in Jobs, PublishFails(j)
      PROVE  NoLaterResult' /\ PreparedIsOver'
  BY <1>3 DEF PublishFails, MessageHistory, FreshJobs, ExecutionSoFar, CompletedIsBacked,
     NoLaterResult, PreparedIsOver
<1>4. ASSUME NEW j \in Jobs, DeleteJob(j)
      PROVE  NoLaterResult' /\ PreparedIsOver'
  BY <1>4 DEF DeleteJob, MessageHistory, FreshJobs, ExecutionSoFar, CompletedIsBacked,
     NoLaterResult, PreparedIsOver
<1>5. ASSUME NEW sweeps \in BOOLEAN, Boot(sweeps)
      PROVE  NoLaterResult' /\ PreparedIsOver'
  BY <1>5 DEF Boot, MessageHistory, FreshJobs, ExecutionSoFar, CompletedIsBacked,
     NoLaterResult, PreparedIsOver
<1>6. ASSUME NEW m \in Messages, Consume(m)
      PROVE  NoLaterResult' /\ PreparedIsOver'
  <2> DEFINE i == m[1]
  <2>1. /\ i \in Jobs /\ m[2] \in 0..MaxRetries /\ m = <<i, m[2]>> /\ queue[m] > 0
        /\ task' = m /\ attempts'[i] = attempts[i] + 1 /\ attempts[i] \in Nat
    BY <1>6 DEF Consume
  <2>2. linked[i] < attempts'[i] /\ <<i, attempts'[i]>> \notin models
    <3>1. \A r \in Nat : <<i, r>> \in models => r \in 1..attempts[i]
      <4> TAKE r \in Nat
      <4> DEFINE x == <<i, r>>
      <4>1. x \in models => x[2] \in 1..attempts[x[1]]
        BY DEF ExecutionSoFar
      <4>2. x[1] = i /\ x[2] = r
        OBVIOUS
      <4> HIDE DEF x
      <4>3. x \in models => r \in 1..attempts[i]
        BY <4>1, <4>2
      <4> QED
        BY <4>3 DEF x
    <3>2. linked[i] \in Nat /\ (linked[i] # 0 => <<i, linked[i]>> \in models)
      BY <2>1 DEF CompletedIsBacked
    <3>3. linked[i] <= attempts[i]
      BY <2>1, <3>1, <3>2
    <3>4. <<i, attempts[i] + 1>> \notin models
      BY <2>1, <3>1
    <3> QED
      BY <2>1, <3>2, <3>3, <3>4
  <2>3. NoLaterResult'
    BY <1>6, <2>1, <2>2 DEF Consume, NoLaterResult
  <2>4. status[i] # "DATA_PREPARED"
    BY <2>1 DEF PreparedIsOver
  <2>5. \A x \in Messages : x # m => queue'[x] = queue[x]
    BY <1>6 DEF Consume
  <2>6. PreparedIsOver'
    BY <1>6, <2>1, <2>4, <2>5 DEF Consume, PreparedIsOver
  <2> QED
    BY <2>3, <2>6
<1>7. CASE Ack
  BY <1>7 DEF Ack, Release, MessageHistory, FreshJobs, ExecutionSoFar, CompletedIsBacked,
     NoLaterResult, PreparedIsOver
<1>8. CASE Restore
  BY <1>8 DEF Restore, GiveBack, MessageHistory, FreshJobs, ExecutionSoFar, CompletedIsBacked,
     NoLaterResult, PreparedIsOver
<1>9. CASE LoseChild
  BY <1>9 DEF LoseChild, GiveBack, Release, MessageHistory, FreshJobs, ExecutionSoFar, CompletedIsBacked,
     NoLaterResult, PreparedIsOver
<1>10. CASE LoseWorker
  BY <1>10 DEF LoseWorker, GiveBack, Release, MessageHistory, FreshJobs, ExecutionSoFar, CompletedIsBacked,
     NoLaterResult, PreparedIsOver
<1>11. CASE HardTimeLimit
  BY <1>11 DEF HardTimeLimit, Release, MessageHistory, FreshJobs, ExecutionSoFar, CompletedIsBacked,
     NoLaterResult, PreparedIsOver
<1>12. CASE LoadJob
  BY <1>12 DEF LoadJob, WithRow, MessageHistory, FreshJobs, ExecutionSoFar, CompletedIsBacked,
     NoLaterResult, PreparedIsOver
<1>13. CASE Progress
  BY <1>13 DEF Progress, PrepareData, Fit, SaveProgress, WithRow, MessageHistory, FreshJobs, ExecutionSoFar, CompletedIsBacked,
     NoLaterResult, PreparedIsOver
<1>14. CASE UploadModel
  BY <1>14 DEF UploadModel, MessageHistory, FreshJobs, ExecutionSoFar, CompletedIsBacked,
     NoLaterResult, PreparedIsOver
<1>15. CASE UploadRest
  BY <1>15 DEF UploadRest, MessageHistory, FreshJobs, ExecutionSoFar, CompletedIsBacked,
     NoLaterResult, PreparedIsOver
<1>16. CASE Register
  BY <1>16 DEF Register, MessageHistory, FreshJobs, ExecutionSoFar, CompletedIsBacked,
     NoLaterResult, PreparedIsOver
<1>17. CASE Complete
  BY <1>17 DEF Complete, WithRow, MessageHistory, FreshJobs, ExecutionSoFar, CompletedIsBacked,
     NoLaterResult, PreparedIsOver
<1>18. CASE ApplyBaselines
  BY <1>18 DEF ApplyBaselines, MessageHistory, FreshJobs, ExecutionSoFar, CompletedIsBacked,
     NoLaterResult, PreparedIsOver
<1>19. CASE ReportCompleted
  BY <1>19 DEF ReportCompleted, MessageHistory, FreshJobs, ExecutionSoFar, CompletedIsBacked,
     NoLaterResult, PreparedIsOver
<1>20. CASE Notify
  BY <1>20 DEF Notify, MessageHistory, FreshJobs, ExecutionSoFar, CompletedIsBacked,
     NoLaterResult, PreparedIsOver
<1>21. CASE Raise
  BY <1>21 DEF Raise, MessageHistory, FreshJobs, ExecutionSoFar, CompletedIsBacked,
     NoLaterResult, PreparedIsOver
<1>22. CASE Retry
  BY <1>22 DEF Retry, MessageHistory, FreshJobs, ExecutionSoFar, CompletedIsBacked,
     NoLaterResult, PreparedIsOver
<1>23. CASE RetryFails
  BY <1>23 DEF RetryFails, MessageHistory, FreshJobs, ExecutionSoFar, CompletedIsBacked,
     NoLaterResult, PreparedIsOver
<1>24. CASE ReportFailed
  BY <1>24 DEF ReportFailed, MessageHistory, FreshJobs, ExecutionSoFar, CompletedIsBacked,
     NoLaterResult, PreparedIsOver
<1>25. CASE MarkFailed
  BY <1>25 DEF MarkFailed, MessageHistory, FreshJobs, ExecutionSoFar, CompletedIsBacked,
     NoLaterResult, PreparedIsOver
<1>26. CASE MarkFailedRaises
  BY <1>26 DEF MarkFailedRaises, MessageHistory, FreshJobs, ExecutionSoFar, CompletedIsBacked,
     NoLaterResult, PreparedIsOver
<1>27. CASE UNCHANGED vars
  BY <1>27 DEF vars, MessageHistory, FreshJobs, ExecutionSoFar, CompletedIsBacked,
     NoLaterResult, PreparedIsOver
<1> HIDE DEF TypeOK, Messages, NoTask, Statuses, Terminal, Busy, Body, AfterComplete, Handler,
             row, registry, blobs, worker, bounds, Inductive, Job, Run
<1>28. CASE TrainModel
  BY <1>7, <1>12, <1>13, <1>14, <1>15, <1>16, <1>17, <1>18, <1>19, <1>20, <1>22, <1>24, <1>25,
     <1>28 DEF TrainModel
<1>29. CASE Faults
  BY <1>3, <1>8, <1>9, <1>10, <1>11, <1>21, <1>23, <1>26, <1>29 DEF Faults
<1> QED
  BY <1>1, <1>2, <1>4, <1>5, <1>6, <1>27, <1>28, <1>29 DEF Next

(***************************************************************************)
(* The refinement, one step per action.                                    *)
(***************************************************************************)

\* The initial tables are the initial lifecycle.
LEMMA RefinementInit == Init => Lifecycle!AInit
  BY DEF Init, Lifecycle!AInit, Phase

\* Every step is a step of the lifecycle or leaves it unchanged.
LEMMA RefinementStep ==
  Refining /\ [Next]_vars => [Lifecycle!ANext]_(Lifecycle!avars)
<1> DEFINE Goal == [Lifecycle!ANext]_(Lifecycle!avars)
<1> SUFFICES ASSUME Refining, [Next]_vars PROVE Goal
  OBVIOUS
<1>0. TypeOK /\ TypeOK'
  BY TypeStep DEF Refining, Inductive
<1>a. ASSUME status' = status, linked' = linked, models' = models,
             \A j \in Jobs : (api'[j] = "new") = (api[j] = "new")
      PROVE  Goal
  BY <1>a DEF Phase, Lifecycle!avars
<1>b. ASSUME status' = status, linked' = linked, models' = models, api' = api PROVE Goal
  BY <1>a, <1>b
<1> HIDE DEF Goal
<1>1. ASSUME NEW j \in Jobs, NEW processing_only \in BOOLEAN, CreateJob(j, processing_only)
      PROVE  Goal
  <2>1. Phase[j] = "unsubmitted"
    BY <1>1 DEF CreateJob, Phase, Refining, Inductive, FreshJobs
  <2>2. Phase' \in {[Phase EXCEPT ![j] = "QUEUED"], [Phase EXCEPT ![j] = "DATA_PREPARED"]}
    BY <1>0, <1>1 DEF CreateJob, Phase, TypeOK
  <2>3. Lifecycle!Submit(j)
    BY <1>1, <2>1, <2>2 DEF CreateJob, registry, Lifecycle!Submit
  <2> QED
    BY <2>3 DEF Goal, Lifecycle!ANext
<1>2. ASSUME NEW j \in Jobs, Publish(j) PROVE Goal
  BY <1>0, <1>2, <1>a DEF Publish, row, registry, TypeOK
<1>3. ASSUME NEW j \in Jobs, PublishFails(j) PROVE Goal
  BY <1>0, <1>3, <1>a DEF PublishFails, row, registry, TypeOK
<1>4. ASSUME NEW j \in Jobs, DeleteJob(j) PROVE Goal
  <2>1. Phase[j] \in Lifecycle!Trainable \cup {"DATA_PREPARED"} /\ api[j] # "new"
    BY <1>0, <1>4 DEF DeleteJob, Phase, TypeOK, Statuses, Terminal, Lifecycle!Trainable,
       Refining, Inductive, FreshJobs
  <2>2. Phase' = [Phase EXCEPT ![j] = "deleted"]
    BY <1>0, <1>4, <2>1 DEF DeleteJob, Phase, TypeOK
  <2>3. Lifecycle!Delete(j)
    BY <1>4, <2>1, <2>2 DEF DeleteJob, registry, Lifecycle!Delete
  <2> QED
    BY <2>3 DEF Goal, Lifecycle!ANext
<1>5. ASSUME NEW S \in SUBSET Jobs,
             \A j \in S : status[j] \in Terminal \cup {"QUEUED", "RUNNING"},
             status' = [j \in Jobs |-> IF j \in S THEN "FAILED" ELSE status[j]],
             linked' = linked, models' = models, api' = api
      PROVE  Goal
  <2>1. \A j \in S : Phase[j] \in Lifecycle!Trainable
    BY <1>5 DEF Phase, Terminal, Lifecycle!Trainable
  <2>2. Phase' = [j \in Jobs |-> IF j \in S THEN "FAILED" ELSE Phase[j]]
    BY <1>5 DEF Phase
  <2>3. Lifecycle!Fail(S)
    BY <1>5, <2>1, <2>2 DEF Lifecycle!Fail
  <2> QED
    BY <2>3 DEF Goal, Lifecycle!ANext
<1>6. ASSUME NEW sweeps \in BOOLEAN, Boot(sweeps) PROVE Goal
  <2> DEFINE stale == {j \in Jobs : sweeps /\ status[j] = "RUNNING"}
  <2>1. status' = [j \in Jobs |-> IF j \in stale THEN "FAILED" ELSE status[j]]
    BY <1>6 DEF Boot
  <2>2. \A j \in stale : status[j] \in Terminal \cup {"QUEUED", "RUNNING"}
    OBVIOUS
  <2>3. linked' = linked /\ models' = models /\ api' = api /\ stale \in SUBSET Jobs
    BY <1>6 DEF Boot, registry
  <2> HIDE DEF stale
  <2> QED
    BY <1>5, <2>1, <2>2, <2>3
<1>7. ASSUME NEW m \in Messages, Consume(m) PROVE Goal
  BY <1>7, <1>b DEF Consume, row, registry
<1>8. CASE Ack \/ Restore \/ LoseChild \/ LoseWorker \/ HardTimeLimit
  BY <1>8, <1>b DEF Ack, Restore, LoseChild, LoseWorker, HardTimeLimit, row, registry
<1>9. CASE Progress \/ UploadModel \/ UploadRest
  BY <1>9, <1>b DEF Progress, UploadModel, UploadRest, row, registry
<1>10. CASE ApplyBaselines \/ ReportCompleted \/ Notify
  BY <1>10, <1>b DEF ApplyBaselines, ReportCompleted, Notify, row, registry
<1>11. CASE Raise \/ Retry \/ RetryFails \/ ReportFailed \/ MarkFailedRaises
  BY <1>11, <1>b DEF Raise, Retry, RetryFails, ReportFailed, MarkFailedRaises, row, registry
<1>12. pc \in Busy => Job \in Jobs /\ Run \in Nat /\ api[Job] # "new"
                      /\ status[Job] # "DATA_PREPARED"
  BY <1>0 DEF TypeOK, Messages, Job, Run, Refining, Inductive, MessageHistory, PreparedIsOver
<1>13. CASE LoadJob
  <2>1. Job \in Jobs /\ status[Job] # "DATA_PREPARED"
    BY <1>12, <1>13 DEF LoadJob, WithRow, Busy, Body
  <2>2. linked' = linked /\ models' = models /\ api' = api
    BY <1>13 DEF LoadJob, registry
  <2>3. CASE status[Job] = "ABSENT"
    BY <1>13, <1>b, <2>2, <2>3 DEF LoadJob
  <2>4. CASE status[Job] # "ABSENT"
    <3>1. Phase[Job] \in Lifecycle!Trainable
      BY <1>0, <2>1, <2>4 DEF Phase, TypeOK, Statuses, Terminal, Lifecycle!Trainable
    <3>2. status' = [status EXCEPT ![Job] = "RUNNING"]
      BY <1>13, <2>4 DEF LoadJob
    <3>3. Phase' = [Phase EXCEPT ![Job] = "RUNNING"]
      BY <1>0, <2>1, <2>2, <3>2 DEF Phase, TypeOK
    <3>4. Lifecycle!Begin(Job)
      BY <2>2, <3>1, <3>3 DEF Lifecycle!Begin
    <3> QED
      BY <2>1, <3>4 DEF Goal, Lifecycle!ANext
  <2> QED
    BY <2>3, <2>4
<1>14. CASE Register
  <2>1. pc \in Body \ {"load", "complete"} /\ pc \in Busy
    BY <1>14 DEF Register, Body, Busy
  <2>2. Job \in Jobs /\ Run \in Nat /\ Phase[Job] \in {"RUNNING", "deleted"}
    BY <1>12, <2>1 DEF Phase, Refining, Inductive, RowFollowsExecution
  <2>3. ASSUME NEW older \in Lifecycle!ModelsOf(Job) PROVE older[2] < Run
    <3>1. older \in models /\ older = <<Job, older[2]>> /\ older[2] \in 1..Run
      BY <1>0, <2>3 DEF Lifecycle!ModelsOf, TypeOK, Refining, Inductive, ExecutionSoFar, Run
    <3>2. <<Job, Run>> \notin models
      BY <2>1 DEF Refining, NoLaterResult
    <3> QED
      BY <2>2, <3>1, <3>2
  <2>4. models' = models \cup {<<Job, Run>>} /\ Phase' = Phase /\ linked' = linked
    BY <1>14 DEF Register, row, Phase
  <2>5. Lifecycle!RegisterModel(Job)
    <3> DEFINE m == <<Job, Run>>
    <3>1. m \in models' /\ m[1] = Job /\ m[2] = Run
      BY <2>4
    <3> QED
      BY <2>2, <2>3, <2>4, <3>1 DEF Lifecycle!RegisterModel
  <2> QED
    BY <2>2, <2>5 DEF Goal, Lifecycle!ANext
<1>15. CASE Complete
  <2>1. pc = "complete" /\ pc \in Body /\ pc \in Busy
    BY <1>15 DEF Complete, WithRow, Body, Busy
  <2>2. Job \in Jobs /\ Run \in Nat
    BY <1>12, <2>1
  <2>3. models' = models /\ api' = api
    BY <1>15 DEF Complete, registry
  <2>4. CASE status[Job] = "ABSENT"
    BY <1>15, <1>b, <2>3, <2>4 DEF Complete
  <2>5. CASE status[Job] # "ABSENT"
    <3>1. /\ status' = [status EXCEPT ![Job] = "COMPLETED"]
          /\ linked' = [linked EXCEPT ![Job] = Run]
      BY <1>15, <2>5 DEF Complete
    <3>2. Phase[Job] = "RUNNING"
      BY <2>1, <2>2, <2>5 DEF Phase, Refining, Inductive, RowFollowsExecution
    <3>3. Phase' = [Phase EXCEPT ![Job] = "COMPLETED"]
      BY <1>0, <2>2, <2>3, <3>1 DEF Phase, TypeOK
    <3>4. <<Job, Run>> \in Lifecycle!ModelsOf(Job) /\ linked[Job] < Run
      BY <2>1 DEF Refining, Inductive, ExecutionSoFar, NoLaterResult, Lifecycle!ModelsOf
    <3>5. \A other \in Lifecycle!ModelsOf(Job) : other[2] <= Run
      BY <2>2 DEF Lifecycle!ModelsOf, Refining, Inductive, ExecutionSoFar, Run
    <3>6. Lifecycle!Finish(Job)
      <4> DEFINE m == <<Job, Run>>
      <4>1. m \in Lifecycle!ModelsOf(Job) /\ m[2] = Run
        BY <3>4
      <4> QED
        BY <2>3, <3>1, <3>2, <3>3, <3>4, <3>5, <4>1 DEF Lifecycle!Finish
    <3> QED
      BY <2>2, <3>6 DEF Goal, Lifecycle!ANext
  <2> QED
    BY <2>4, <2>5
<1>16. CASE MarkFailed
  <2>1. Job \in Jobs /\ status[Job] # "DATA_PREPARED"
    BY <1>12, <1>16 DEF MarkFailed, Busy, Handler
  <2>2. linked' = linked /\ models' = models /\ api' = api
    BY <1>16 DEF MarkFailed, registry
  <2>3. CASE status[Job] = "ABSENT"
    BY <1>16, <1>b, <2>2, <2>3 DEF MarkFailed
  <2>4. CASE status[Job] # "ABSENT"
    <3> DEFINE S == {Job}
    <3>1. S \in SUBSET Jobs
      BY <2>1
    <3>2. \A j \in S : status[j] \in Terminal \cup {"QUEUED", "RUNNING"}
      BY <1>0, <2>1, <2>4 DEF TypeOK, Statuses
    <3>3. status' = [j \in Jobs |-> IF j \in S THEN "FAILED" ELSE status[j]]
      BY <1>0, <1>16, <2>4 DEF MarkFailed, TypeOK
    <3> HIDE DEF S
    <3> QED
      BY <1>5, <2>2, <3>1, <3>2, <3>3
  <2> QED
    BY <2>3, <2>4
<1>17. CASE UNCHANGED vars
  BY <1>17, <1>b DEF vars, row, registry
<1>18. CASE TrainModel
  BY <1>8, <1>9, <1>10, <1>11, <1>13, <1>14, <1>15, <1>16, <1>18 DEF TrainModel
<1>19. CASE Faults
  BY <1>3, <1>8, <1>11, <1>19 DEF Faults
<1> QED
  BY <1>1, <1>2, <1>4, <1>6, <1>7, <1>17, <1>18, <1>19 DEF Next

(***************************************************************************)
(* The theorems.                                                           *)
(***************************************************************************)

\* The invariants hold that the refinement needs.
THEOREM RefiningInvariant == Spec => []Refining
<1>1. Init => Refining
  BY InductiveInit DEF Init, Refining, NoLaterResult, PreparedIsOver, Body
<1>2. Refining /\ [Next]_vars => Refining'
  BY InductiveStep, ResultStep DEF Refining
<1> QED
  BY <1>1, <1>2, PTL DEF Spec

\* For any number of jobs, retries, crashes and redeliveries, a client that
\* polls the tables sees the lifecycle that JobLifecycle promises.
THEOREM Refinement == Spec => ImplementsLifecycle
<1> QED
  BY RefiningInvariant, RefinementInit, RefinementStep, PTL
     DEF Spec, ImplementsLifecycle, Lifecycle!ASpec
=============================================================================
