--------------------------- MODULE ModelRegistry ---------------------------
(***************************************************************************)
(* The ml_models table, the training_jobs.model_id column and the blobs    *)
(* under models/{job_id}/, as concurrent requests of ModelService and the  *)
(* training worker change them.                                            *)
(*                                                                         *)
(* Each request has a database session of its own (READ COMMITTED): it     *)
(* reads rows, keeps them while it awaits and writes them back in one      *)
(* commit, in which a column is written only if it changed in the session. *)
(***************************************************************************)
EXTENDS Integers, FiniteSets

CONSTANTS
  Jobs,               \* training_jobs ids, their rows committed
  Models,             \* ids ml_models rows may get; all of one algorithm
  Requests,           \* requests the API serves at the same time
  NoModel, NoJob

ASSUME ModelsAssumption == IsFiniteSet(Models)
ASSUME NullAssumption == NoModel \notin Models /\ NoJob \notin Jobs

VARIABLES
  jobs,               \* training_jobs rows that are still there
  linked,             \* training_jobs.model_id
  status, version,    \* ml_models columns; a row that is not there is ABSENT
  owner,              \* the job in the storage_path of a model, NoJob if unused
  blobs,              \* jobs whose prefix holds artifacts
  trainer,            \* the training worker between its commits
  req,                \* each request with what its session has read
  races,              \* history: pairs of models whose promotions raced, while
                      \* each is in PRODUCTION or about to be
  deleted             \* history: some model row was deleted

tables == <<jobs, linked, status, version, owner>>
vars == <<tables, blobs, trainer, req, races, deleted>>

-----------------------------------------------------------------------------
Targets == {"STAGING", "PRODUCTION", "ARCHIVED"}
Rows == {m \in Models : status[m] # "ABSENT"}
Production == {m \in Models : status[m] = "PRODUCTION"}

Idle == [pc |-> "idle", model |-> NoModel, target |-> "none", writes |-> FALSE,
         current |-> NoModel]
Resting == [pc |-> "idle", job |-> NoJob, model |-> NoModel]

Sessions ==
  [pc : {"idle", "production", "commit", "blobs", "row"}, model : Models \cup {NoModel},
   target : Targets \cup {"none"}, writes : BOOLEAN, current : Models \cup {NoModel}]

TypeOK ==
  /\ jobs \subseteq Jobs
  /\ linked \in [Jobs -> Models \cup {NoModel}]
  /\ status \in [Models -> Targets \cup {"ABSENT"}]
  /\ version \in [Models -> Nat]
  /\ owner \in [Models -> Jobs \cup {NoJob}]
  /\ blobs \subseteq Jobs
  /\ trainer \in [pc : {"idle", "uploaded", "registered"}, job : Jobs \cup {NoJob},
                  model : Models \cup {NoModel}]
  /\ req \in [Requests -> Sessions]
  /\ trainer.pc # "idle" => trainer.job \in Jobs
  /\ \A r \in Requests :
       /\ req[r].pc # "idle" => req[r].model \in Models
       /\ req[r].pc \in {"production", "commit"} => req[r].target \in Targets
  /\ races \subseteq SUBSET Models
  /\ deleted \in BOOLEAN

Init ==
  /\ jobs = Jobs
  /\ linked = [j \in Jobs |-> NoModel]
  /\ status = [m \in Models |-> "ABSENT"]
  /\ version = [m \in Models |-> 0]
  /\ owner = [m \in Models |-> NoJob]
  /\ blobs = {}
  /\ trainer = Resting
  /\ req = [r \in Requests |-> Idle]
  /\ races = {}
  /\ deleted = FALSE

-----------------------------------------------------------------------------
(* The training worker (one process; TrainingPipeline has its details) *)

\* STEP 5, of a first execution or of one repeated for the same job.
Upload(j) ==
  /\ trainer = Resting /\ j \in jobs
  /\ trainer' = [trainer EXCEPT !.pc = "uploaded", !.job = j]
  /\ blobs' = blobs \cup {j}
  /\ UNCHANGED <<tables, req, races, deleted>>

\* Mutant of Register: counts the models in STAGING.
RegisterCountingStaging(m) ==
  /\ trainer.pc = "uploaded" /\ owner[m] = NoJob
  /\ trainer' = [trainer EXCEPT !.pc = "registered", !.model = m]
  /\ version' = [version EXCEPT ![m] = Cardinality({n \in Rows : status[n] = "STAGING"})]
  /\ status' = [status EXCEPT ![m] = "STAGING"]
  /\ owner' = [owner EXCEPT ![m] = trainer.job]
  /\ UNCHANGED <<jobs, linked, blobs, req, races, deleted>>

\* STEP 6: the version is the number of rows of the algorithm.
Register(m) ==
  /\ trainer.pc = "uploaded" /\ owner[m] = NoJob
  /\ trainer' = [trainer EXCEPT !.pc = "registered", !.model = m]
  /\ version' = [version EXCEPT ![m] = Cardinality(Rows)]
  /\ status' = [status EXCEPT ![m] = "STAGING"]
  /\ owner' = [owner EXCEPT ![m] = trainer.job]
  /\ UNCHANGED <<jobs, linked, blobs, req, races, deleted>>

\* STEP 7: raises when the job's row is gone, or (foreign key) the model's.
Link ==
  /\ trainer.pc = "registered" /\ trainer' = Resting
  /\ linked' = IF trainer.job \in jobs /\ trainer.model \in Rows
               THEN [linked EXCEPT ![trainer.job] = trainer.model] ELSE linked
  /\ UNCHANGED <<jobs, status, version, owner, blobs, req, races, deleted>>

\* The execution fails or dies before its next commit.
Abandon ==
  /\ trainer # Resting /\ trainer' = Resting
  /\ UNCHANGED <<tables, blobs, req, races, deleted>>

DeleteJob(j) ==
  /\ j \in jobs
  /\ jobs' = jobs \ {j}
  /\ linked' = [linked EXCEPT ![j] = NoModel]
  /\ UNCHANGED <<status, version, owner, blobs, trainer, req, races, deleted>>

-----------------------------------------------------------------------------
(* promote_model *)

\* get_model reads the row, which decides whether the session will have a
\* changed status to write; only a promotion to PRODUCTION looks further.
StartPromote(r, m, target) ==
  /\ req[r] = Idle /\ m \in Rows
  /\ req' = [req EXCEPT ![r] =
       [Idle EXCEPT !.pc = IF target = "PRODUCTION" THEN "production" ELSE "commit",
                    !.model = m, !.target = target, !.writes = (status[m] # target)]]
  /\ UNCHANGED <<tables, blobs, trainer, races, deleted>>

\* Mutant of ReadProduction: takes the first of several.
ReadFirstProduction(r) ==
  /\ req[r].pc = "production"
  /\ \E m \in Production \cup {NoModel} :
       /\ m = NoModel => Production \subseteq {req[r].model}
       /\ m # req[r].model
       /\ req' = [req EXCEPT ![r].pc = "commit", ![r].current = m]
  /\ UNCHANGED <<tables, blobs, trainer, races, deleted>>

\* get_production_model: scalar_one_or_none raises when there are several.
ReadProduction(r) ==
  /\ req[r].pc = "production"
  /\ \/ /\ Production \subseteq {req[r].model}
        /\ req' = [req EXCEPT ![r].pc = "commit"]
     \/ \E m \in Models \ {req[r].model} :
          /\ Production = {m}
          /\ req' = [req EXCEPT ![r].pc = "commit", ![r].current = m]
     \/ /\ Cardinality(Production) > 1
        /\ req' = [req EXCEPT ![r] = Idle]
  /\ UNCHANGED <<tables, blobs, trainer, races, deleted>>

\* Request s has read and not committed a promotion of m to PRODUCTION.
Promoting(s, m) == req[s].pc = "commit" /\ req[s].target = "PRODUCTION" /\ req[s].model = m

\* The pairs to remember when r commits the promotion of m.
RacesAfter(r, m) ==
  LET rivals == {n \in Models \ {m} : \E s \in Requests : Promoting(s, n)}
  IN {pair \in races \cup {{m, n} : n \in rivals} :
     \A n \in pair : status'[n] = "PRODUCTION" \/ \E s \in Requests \ {r} : Promoting(s, n)}

\* The commit demotes what was read as current and promotes the model, or
\* (StaleDataError) does nothing when one of the two rows is gone.
CommitPromotion(r) ==
  /\ req[r].pc = "commit"
  /\ LET q == req[r]
     IN /\ status' =
             IF {q.model, q.current} \subseteq Rows \cup {NoModel}
             THEN [m \in Models |->
                     IF m = q.model /\ q.writes THEN q.target
                     ELSE IF m = q.current THEN "ARCHIVED" ELSE status[m]]
             ELSE status
        /\ races' = IF q.target = "PRODUCTION" THEN RacesAfter(r, q.model) ELSE races
  /\ req' = [req EXCEPT ![r] = Idle]
  /\ UNCHANGED <<jobs, linked, version, owner, blobs, trainer, deleted>>

-----------------------------------------------------------------------------
(* delete_model *)

StartDelete(r, m) ==
  /\ req[r] = Idle /\ m \in Rows
  /\ req' = [req EXCEPT ![r] = [Idle EXCEPT !.pc = "blobs", !.model = m]]
  /\ UNCHANGED <<tables, blobs, trainer, races, deleted>>

\* The artifacts go first; an error of the storage is logged.
DeleteBlobs(r) ==
  /\ req[r].pc = "blobs"
  /\ blobs' \in {blobs, blobs \ {owner[req[r].model]}}
  /\ req' = [req EXCEPT ![r].pc = "row"]
  /\ UNCHANGED <<tables, trainer, races, deleted>>

\* Mutant of DeleteRow: training_jobs.model_id has no foreign key.
DeleteRowUnreferenced(r) ==
  /\ req[r].pc = "row"
  /\ status' = [status EXCEPT ![req[r].model] = "ABSENT"]
  /\ version' = [version EXCEPT ![req[r].model] = 0]
  /\ deleted' = TRUE
  /\ req' = [req EXCEPT ![r] = Idle]
  /\ UNCHANGED <<jobs, linked, owner, blobs, trainer, races>>

\* The row follows, unless a job refers to it: the foreign key has no
\* ON DELETE, the commit raises and the handler answers 500.
DeleteRow(r) ==
  /\ req[r].pc = "row"
  /\ IF \E j \in Jobs : linked[j] = req[r].model
     THEN UNCHANGED <<status, version, deleted>>
     ELSE /\ status' = [status EXCEPT ![req[r].model] = "ABSENT"]
          /\ version' = [version EXCEPT ![req[r].model] = 0]
          /\ deleted' = TRUE
  /\ req' = [req EXCEPT ![r] = Idle]
  /\ UNCHANGED <<jobs, linked, owner, blobs, trainer, races>>

-----------------------------------------------------------------------------
Next ==
  \/ \E j \in Jobs : Upload(j) \/ DeleteJob(j)
  \/ \E m \in Models : Register(m)
  \/ Link \/ Abandon
  \/ \E r \in Requests :
       \/ \E m \in Models : \/ \E target \in Targets : StartPromote(r, m, target)
                            \/ StartDelete(r, m)
       \/ ReadProduction(r) \/ CommitPromotion(r) \/ DeleteBlobs(r) \/ DeleteRow(r)

Spec == Init /\ [][Next]_vars
-----------------------------------------------------------------------------
\* Two models are in PRODUCTION together only if a promotion of one was
\* committed while a promotion of the other had already looked for the
\* current one: without such a race at most one model is, whatever is
\* demoted, deleted or retrained in between.
SplitOnlyByRace ==
  \A m, n \in Production : m # n => {m, n} \in races

\* A job's model_id never dangles, and names a model trained by that job,
\* although models and jobs are deleted while the worker is between the
\* commit of the model and the commit of the link.
LinksResolve ==
  \A j \in Jobs : linked[j] # NoModel => linked[j] \in Rows /\ owner[linked[j]] = j

\* Until a model is deleted, no two models of the algorithm share a version,
\* even when executions die between STEP 6 and STEP 7.
VersionsDistinct ==
  ~deleted => \A m, n \in Rows : m # n => version[m] # version[n]

\* What makes SplitOnlyByRace inductive: a promotion about to commit raced
\* with each model in PRODUCTION that it will not archive.
ReadCurrent ==
  \A r \in Requests :
    /\ req[r].pc = "production" => req[r].current = NoModel
    /\ \A m, n \in Models :
         Promoting(r, m) /\ n \in Production => n \in {m, req[r].current} \/ {m, n} \in races

Inductive == TypeOK /\ SplitOnlyByRace /\ ReadCurrent

\* What makes LinksResolve inductive: the model the worker is about to link
\* was registered for the job it holds.
RegisteredForJob ==
  trainer.pc = "registered" =>
    trainer.model \in Models /\ owner[trainer.model] = trainer.job

Linking == TypeOK /\ RegisteredForJob /\ LinksResolve

-----------------------------------------------------------------------------
(* What the code says of itself and does not do *)

\* "Returns the one model marked as PRODUCTION."
AtMostOneProduction == Cardinality(Production) <= 1

\* "Delete a model (hard delete - removes from database and storage)": with
\* no request or execution under way, a model in the table has its artifacts.
DeleteIsWhole ==
  trainer = Resting /\ (\A r \in Requests : req[r] = Idle) =>
    \A m \in Rows : owner[m] \in blobs
=============================================================================
