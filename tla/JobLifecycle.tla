---------------------------- MODULE JobLifecycle ----------------------------
(***************************************************************************)
(* What the training_jobs and ml_models tables promise to a client that    *)
(* polls them: the abstract life of a job, with no worker, no broker and   *)
(* no messages.  TrainingPipeline implements it.                           *)
(***************************************************************************)
EXTENDS Integers

CONSTANT Jobs

VARIABLES
  phase,        \* what GET /training/jobs/{id} shows
  linked,       \* the job's model_id, 0 when NULL
  registered    \* ml_models rows, each a job and the execution it came from

avars == <<phase, linked, registered>>

Phases == {"unsubmitted", "QUEUED", "RUNNING", "COMPLETED", "FAILED",
           "DATA_PREPARED", "deleted"}
Trainable == {"QUEUED", "RUNNING", "COMPLETED", "FAILED"}

ModelsOf(j) == {m \in registered : m[1] = j}

AInit ==
  /\ phase = [j \in Jobs |-> "unsubmitted"]
  /\ linked = [j \in Jobs |-> 0]
  /\ registered = {}

Submit(j) ==
  /\ phase[j] = "unsubmitted"
  /\ phase' \in {[phase EXCEPT ![j] = "QUEUED"], [phase EXCEPT ![j] = "DATA_PREPARED"]}
  /\ UNCHANGED <<linked, registered>>

\* Deliveries are at least once: a job that ended may begin again.
Begin(j) ==
  /\ phase[j] \in Trainable
  /\ phase' = [phase EXCEPT ![j] = "RUNNING"]
  /\ UNCHANGED <<linked, registered>>

\* Each execution registers at most one model, later than any before it; the
\* job may have been deleted meanwhile, but was submitted.
RegisterModel(j) ==
  /\ phase[j] \in {"RUNNING", "deleted"}
  /\ \E m \in registered' :
       /\ m[1] = j
       /\ \A older \in ModelsOf(j) : older[2] < m[2]
       /\ registered' = registered \cup {m}
  /\ UNCHANGED <<phase, linked>>

\* A job completes only while it runs, and in the same step it gets a model
\* that is registered and newer than any it had.
Finish(j) ==
  /\ phase[j] = "RUNNING"
  /\ phase' = [phase EXCEPT ![j] = "COMPLETED"]
  /\ \E m \in ModelsOf(j) :
       /\ linked[j] < m[2]
       /\ \A other \in ModelsOf(j) : other[2] <= m[2]
       /\ linked' = [linked EXCEPT ![j] = m[2]]
  /\ UNCHANGED registered

\* The startup sweep fails several jobs in one commit.
Fail(S) ==
  /\ \A j \in S : phase[j] \in Trainable
  /\ phase' = [j \in Jobs |-> IF j \in S THEN "FAILED" ELSE phase[j]]
  /\ UNCHANGED <<linked, registered>>

Delete(j) ==
  /\ phase[j] \in Trainable \cup {"DATA_PREPARED"}
  /\ phase' = [phase EXCEPT ![j] = "deleted"]
  /\ linked' = [linked EXCEPT ![j] = 0]
  /\ UNCHANGED registered

ANext ==
  \/ \E j \in Jobs : Submit(j) \/ Begin(j) \/ RegisterModel(j) \/ Finish(j) \/ Delete(j)
  \/ \E S \in SUBSET Jobs : Fail(S)

ASpec == AInit /\ [][ANext]_avars
=============================================================================
