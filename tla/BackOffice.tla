----------------------------- MODULE BackOffice -----------------------------
(***************************************************************************)
(* The components behind the API that share no state with one another, in  *)
(* one specification: a behaviour exercises one of them, named by scene,   *)
(* and the others rest in their initial states.  What they share in the    *)
(* code is the process they run in, which orders nothing between them.     *)
(***************************************************************************)
EXTENDS Alerts, FeatureSets, Preprocessing, Datasets, Accounts, Scheduler,
        FeatureEngineering, Hyperparameters, Tuning, ModelFitting, Baselines,
        Monitoring, Scoring, FeatureAnalysis, BlobStorage, TrainingPage, FeatureCard

VARIABLE scene

vars == <<scene, alertVars, featureVars, planVars, dataVars, accountVars,
          schedulerVars, engineerVars, formVars, tuningVars, fittingVars,
          baselineVars, monitoringVars, scoringVars, analysisVars, blobVars,
          pageVars, cardVars>>

Scenes ==
  {"alerts", "features", "plan", "data", "accounts", "scheduler",
   "transform", "form", "tuning", "fitting", "baselines", "monitoring", "scoring", "analysis",
   "blobs", "page", "card"}

TypeOK ==
  /\ scene \in Scenes
  /\ AlertsTypeOK /\ FeaturesTypeOK /\ PlanTypeOK /\ DataTypeOK
  /\ AccountsTypeOK /\ SchedulerTypeOK /\ EngineerTypeOK /\ FormTypeOK
  /\ TuningTypeOK /\ FittingTypeOK /\ BaselinesTypeOK /\ MonitoringTypeOK
  /\ ScoringTypeOK /\ AnalysisTypeOK /\ BlobTypeOK /\ PageTypeOK /\ CardTypeOK

Init ==
  /\ scene \in Scenes
  /\ AlertsInit /\ FeaturesInit /\ PlanInit /\ DataInit /\ AccountsInit
  /\ SchedulerInit /\ EngineerInit /\ FormInit /\ TuningInit /\ FittingInit
  /\ BaselinesInit /\ MonitoringInit /\ ScoringInit /\ AnalysisInit /\ BlobInit
  /\ PageInit /\ CardInit

\* Only the component named by the scene moves.
In(s) ==
  /\ scene = s /\ UNCHANGED scene
  /\ s # "alerts" => UNCHANGED alertVars
  /\ s # "features" => UNCHANGED featureVars
  /\ s # "plan" => UNCHANGED planVars
  /\ s # "data" => UNCHANGED dataVars
  /\ s # "accounts" => UNCHANGED accountVars
  /\ s # "scheduler" => UNCHANGED schedulerVars
  /\ s # "transform" => UNCHANGED engineerVars
  /\ s # "form" => UNCHANGED formVars
  /\ s # "tuning" => UNCHANGED tuningVars
  /\ s # "fitting" => UNCHANGED fittingVars
  /\ s # "baselines" => UNCHANGED baselineVars
  /\ s # "monitoring" => UNCHANGED monitoringVars
  /\ s # "scoring" => UNCHANGED scoringVars
  /\ s # "analysis" => UNCHANGED analysisVars
  /\ s # "blobs" => UNCHANGED blobVars
  /\ s # "page" => UNCHANGED pageVars
  /\ s # "card" => UNCHANGED cardVars

Alerting == In("alerts") /\ AlertsNext
Engineering == In("features") /\ FeaturesNext
Planning == In("plan") /\ PlanNext
Storing == In("data") /\ DataNext
Administering == In("accounts") /\ AccountsNext
Scheduling == In("scheduler") /\ SchedulerNext
Transforming == In("transform") /\ EngineerNext
Filling == In("form") /\ FormNext
Searching == In("tuning") /\ TuningNext
Fitting == In("fitting") /\ FittingNext
Measuring == In("baselines") /\ BaselinesNext
Watching == In("monitoring") /\ MonitoringNext
Answering == In("scoring") /\ ScoringNext
Analysing == In("analysis") /\ AnalysisNext
Keeping == In("blobs") /\ BlobNext
Choosing == In("page") /\ PageNext
Showing == In("card") /\ CardNext

Next ==
  \/ Alerting \/ Engineering \/ Planning \/ Storing \/ Administering
  \/ Scheduling \/ Transforming \/ Filling \/ Searching \/ Fitting
  \/ Measuring \/ Watching \/ Answering \/ Analysing \/ Keeping
  \/ Choosing \/ Showing

Spec == Init /\ [][Next]_vars

\* The worker takes its next message and goes on with its task as long as it
\* can; nothing else is promised.
FairSpec == Spec /\ WF_vars(In("features") /\ WorkerStep)

-----------------------------------------------------------------------------
\* What the training page shows and sends belongs to what the user picked, but
\* for answers that come after the user has picked something else; and the card
\* of a feature set asks for no more analyses than one and those it must repeat.
PageFollowsUser == FeaturesFollowSplit /\ AnalysedOnce

\* There is no skew between training, a batch and a single prediction, from a
\* row to its features and from the model's probability to the answer, but for
\* the exceptions that the two modules name.
ServedAlike == FeaturesAlike /\ ScoredAlike

\* Two alerts of one key and two baselines of one metric come only from
\* requests that overlapped.
TwinsOnlyByRace == DuplicatesOnlyByRace /\ BaselinesOnlyByRace
=============================================================================
