------------------------------- MODULE Serving -------------------------------
(***************************************************************************)
(* Predictions, model loads and A/B simulations share one inference        *)
(* service and one A/B testing service in the event loop of the API        *)
(* process.  A handler runs from one await to the next without another     *)
(* taking a step; a request waits in load_model, a simulation also for its *)
(* dataset and after each batch.                                           *)
(* The batch endpoint reads the service in a thread beside the loop.       *)
(***************************************************************************)
EXTENDS ABTesting, BatchPrediction

CONSTANTS
  Batches  \* bound: batches of an arm in a simulation

ASSUME ServingAssumption == Batches \in Nat

VARIABLES
  req  \* what each caller does: its kind, its test, the model it answers for
       \* if the load fails, the batches its simulation still has, and the
       \* arms it gave rows to

vars == <<abVars, infVars, budget, req, batch>>

-----------------------------------------------------------------------------
NoRequest == [at |-> "idle", test |-> NoTest, prior |-> NoModel,
              arm |-> "champion", left |-> [a \in Arms |-> 0], rows |-> {}]

TypeOK ==
  /\ ABTypeOK /\ InfTypeOK /\ BatchTypeOK
  /\ req \in [Callers -> [at : {"idle", "load", "predict", "preview", "arm", "loading", "batch"},
                          test : Tests \cup {NoTest}, prior : Models \cup {NoModel},
                          arm : Arms, left : [Arms -> 0..Batches], rows : SUBSET Arms]]

Init ==
  /\ ABInit /\ InfInit /\ BatchInit
  /\ req = [c \in Callers |-> NoRequest]

\* No handler is between two awaits.
Free == turn = NoCaller

Begins(c) == Free /\ req[c].at = "idle"

\* The end of a request: the load it called is forgotten.
Finishes(c) ==
  /\ req' = [req EXCEPT ![c] = NoRequest]
  /\ load' = [load EXCEPT ![c] = Resting]
  /\ turn' = NoCaller

-----------------------------------------------------------------------------
(* Loads and predictions *)

PostLoad(c) ==
  \E m \in Models :
    /\ Begins(c)
    /\ req' = [req EXCEPT ![c].at = "load"]
    /\ CallLoad(c, m)
    /\ Spend(1) /\ UNCHANGED abVars

LoadAnswers(c) ==
  /\ turn = c /\ req[c].at = "load"
  /\ Finishes(c)
  /\ UNCHANGED <<abVars, budget, settings, svc, tainted>>

\* The test that routes live traffic; route_request sends the rest to "default".
Routing == ab.mem.active \in Known(ab) /\ Status(ab, ab.mem.active) = "RUNNING"

\* The model loaded now predicts; the prediction is counted for model m and for
\* the test that is active now.  It raises without a model, and when it flags
\* an anomaly for a second stage that is not loaded.
Predicts(m) ==
  \/ /\ Ready
     /\ \E w \in BOOLEAN :
          /\ ab' = IF ab.mem.active = NoTest THEN ab ELSE Recorded(ab, ab.mem.active, m, w)
          /\ Calls(0, TRUE, w)
     /\ UNCHANGED issued
  \/ /\ ~Ready \/ (svc.stage2.by # NoCaller /\ ~svc.stage2.ready)
     /\ UNCHANGED <<abVars, budget>>

\* Without a test that routes, the loaded model answers and nothing is counted:
\* that request is left out.
PredictRouted(c) ==
  /\ Begins(c) /\ svc.loaded # NoModel /\ Routing
  /\ \E a \in Arms, w \in BOOLEAN :
       /\ ab' = Routed(ab, w) /\ Calls(1, TRUE, w)
       /\ CallLoad(c, Arm(ab.mem.active, a))
  /\ req' = [req EXCEPT ![c].at = "predict", ![c].prior = svc.loaded]
  /\ UNCHANGED issued

\* Mutant: the routed model counts also when its load fails.
AnswersForRouted(c) == load[c].model

\* The model a prediction is counted for: the routed one, or, if its load
\* failed, the one that was loaded before.
AnswersFor(c) == IF load[c].at = "done" THEN load[c].model ELSE req[c].prior

PredictAnswers(c) ==
  /\ turn = c /\ req[c].at = "predict"
  /\ Predicts(AnswersFor(c))
  /\ Finishes(c)
  /\ UNCHANGED <<settings, svc, tainted>>

-----------------------------------------------------------------------------
(* Simulations *)

\* c may run: it holds the loop, or the loop is free and c's await is over.
Runs(c) == turn \in {c, NoCaller}

\* An update of the progress, which persists, is skipped when there is none.
Updated(s, t, ok) == IF s.mem.progress[t] = "IDLE" THEN s ELSE Persist(s, ok)

\* Mutant: the end of a simulation is not persisted.
FinalizedUnsaved(s, t, p, ok) ==
  IF s.mem.progress[t] = "IDLE" THEN s ELSE [s EXCEPT !.mem.progress[t] = p]

Finalized(s, t, p, ok) ==
  IF s.mem.progress[t] = "IDLE" THEN s ELSE Progressed(s, t, p, ok)

PostSimulation(c) ==
  \E t \in Tests, r, w \in BOOLEAN :
    LET s == Load(ab, r) IN
    /\ Begins(c) /\ t \in Known(s)
    /\ ab' = Load(Progressed(s, t, "INITIALIZING", w), r) /\ Calls(1, r, w)
    /\ req' = [req EXCEPT ![c].at = "preview", ![c].test = t]
    /\ UNCHANGED <<infVars, issued>>

\* The dataset cannot be had, or the test is gone: the task ends and leaves
\* its progress as it is.
SimulationDies(c) ==
  /\ Free /\ req[c].at = "preview"
  /\ Finishes(c)
  /\ UNCHANGED <<abVars, budget, settings, svc, tainted>>

\* The task ends with what s says, and puts p in the progress of its test.
SimulationEndsWith(c, s, p) ==
  /\ \E w \in BOOLEAN :
       /\ ab' = Finalized(Persist(s, w), req[c].test, p, w)
       /\ Calls(0, TRUE, w)
  /\ Finishes(c)
  /\ UNCHANGED <<issued, settings, svc, tainted>>

\* No row of the dataset has a label.
NoLabels(c) == Free /\ req[c].at = "preview" /\ SimulationEndsWith(c, ab, "FAILED")

\* The split is decided, and the evaluation so far is forgotten or kept.
SimulationBegins(c) ==
  /\ Free /\ req[c].at = "preview"
  /\ \E r, w \in BOOLEAN, keeps \in BOOLEAN, left \in [Arms -> 0..Batches] :
       LET t == req[c].test
           s == Load(ab, r)
           rows == {a \in Arms : left[a] > 0}
       IN
       /\ t \in Known(s) /\ rows # {}
       /\ ab' = Progressed(IF keeps THEN s ELSE Reset(s, t), t, "RUNNING", w)
       /\ Calls(0, r, w)
       /\ req' = [req EXCEPT ![c].at = "arm", ![c].left = left, ![c].rows = rows]
  /\ turn' = c
  /\ UNCHANGED <<issued, settings, svc, load, tainted>>

\* Mutant: an arm without rows is replayed.
EveryArm(c) == Arms

\* The next arm with rows: the champion first.
NextArms(c) ==
  IF req[c].left["champion"] > 0 THEN {"champion"}
  ELSE {a \in Arms : req[c].left[a] > 0}

SimulationLoads(c) ==
  /\ Runs(c) /\ req[c].at = "arm"
  /\ \E a \in NextArms(c), w \in BOOLEAN :
       /\ ab' = Updated(ab, req[c].test, w) /\ Calls(0, TRUE, w)
       /\ req' = [req EXCEPT ![c].at = "loading", ![c].arm = a]
       /\ CallLoad(c, Arm(req[c].test, a))
  /\ UNCHANGED issued

SimulationLoaded(c) ==
  /\ turn = c /\ req[c].at = "loading" /\ load[c].at = "done"
  /\ req' = [req EXCEPT ![c].at = "batch"]
  /\ UNCHANGED <<abVars, infVars, budget>>

\* One row a batch; after it the loop takes its other work.
SimulationPredicts(c) ==
  LET t == req[c].test
      a == req[c].arm
  IN
  /\ Runs(c) /\ req[c].at = "batch" /\ Ready
  /\ \E w \in BOOLEAN :
       /\ ab' = Updated(Recorded(ab, t, Arm(t, a), w), t, w)
       /\ Calls(0, TRUE, w)
  /\ req' = [req EXCEPT ![c].left[a] = @ - 1,
                        ![c].at = IF req[c].left[a] = 1 THEN "arm" ELSE "batch"]
  /\ turn' = NoCaller
  /\ UNCHANGED <<issued, settings, svc, load, tainted>>

\* A load failed or was given up, or no model is loaded when a batch begins.
SimulationFails(c) ==
  /\ \/ turn = c /\ req[c].at = "loading" /\ load[c].at \in {"failed", "half done"}
     \/ Runs(c) /\ req[c].at = "batch" /\ ~Ready
  /\ SimulationEndsWith(c, ab, "FAILED")

SimulationCompletes(c) ==
  /\ Runs(c) /\ req[c].at = "arm" /\ NextArms(c) = {}
  /\ \E labelled \in SUBSET req[c].rows \ {{}} :
       SimulationEndsWith(c, Measured(ab, req[c].test, labelled), "COMPLETED")

SimulationTimesOut(c) ==
  req[c].at = "loading" /\ CancelLoad(c) /\ UNCHANGED <<abVars, req>>

-----------------------------------------------------------------------------
LoadMoves(c) == LoadStep(c) /\ UNCHANGED <<abVars, req>>

\* What the coroutine of a caller does once it has begun.
Moves(c) ==
  /\ \/ LoadMoves(c) \/ LoadAnswers(c) \/ PredictAnswers(c)
     \/ SimulationDies(c) \/ NoLabels(c) \/ SimulationBegins(c)
     \/ SimulationLoads(c) \/ SimulationLoaded(c) \/ SimulationPredicts(c)
     \/ SimulationFails(c) \/ SimulationCompletes(c) \/ SimulationTimesOut(c)
  /\ BatchSees

Begin(c) ==
  /\ PostLoad(c) \/ PredictRouted(c) \/ PostSimulation(c)
  /\ UNCHANGED batch

Operation ==
  /\ Free
  /\ \/ \E t \in Tests : CreateTest(t) \/ StartTest(t) \/ EndTest(t)
     \/ \E t \in Tests : DeleteTest(t) \/ EvaluateTest(t)
     \/ ReadTests
  /\ UNCHANGED <<infVars, req, batch>>

\* The process restarts: what the memory held is what the key holds, or
\* nothing if Redis does not answer.
Restart ==
  /\ \E r \in BOOLEAN :
       /\ ab' = [ab EXCEPT !.mem = IF r THEN ab.store ELSE Empty, !.updates = NoUpdates]
       /\ Calls(0, r, FALSE)
  /\ svc' = Fresh
  /\ load' = [c \in Callers |-> Resting] /\ req' = [c \in Callers |-> NoRequest]
  /\ turn' = NoCaller /\ tainted' = FALSE /\ batch' = NoBatch
  /\ UNCHANGED <<issued, settings>>

\* The thread of a batch; its request holds no coroutine while it runs.
Batching == Free /\ BatchStep /\ UNCHANGED <<abVars, infVars, req>>

Next == (\E c \in Callers : Begin(c) \/ Moves(c)) \/ Operation \/ Restart \/ Batching

Spec == Init /\ [][Next]_vars

\* A coroutine resumes once what it awaits has answered, and every await
\* answers, fails, or is given up.
Fairness == \A c \in Callers : WF_vars(Moves(c))

FairSpec == Spec /\ Fairness

-----------------------------------------------------------------------------
(* Properties *)

\* A live prediction is counted for the model that made it, unless another
\* load reset the fields meanwhile or the second stage of its own load failed
\* (which reports a failure although the model is loaded).
CountedForItsModel ==
  \A c \in Callers :
    turn = c /\ req[c].at = "predict" /\ Ready /\ load[c].clean /\ load[c].at # "half done"
    => Used \subseteq {AnswersFor(c)}

\* Every answer is attributed to the model that computed it: a live prediction
\* in the counters of its test, a batch in the rows that are logged for it.
AnswersAttributed == CountedForItsModel /\ BatchIsOfOneModel

\* A simulation that has begun to replay its rows ends, and its progress says
\* so in memory, which every poll replaces by the snapshot, unless Redis fails
\* or the process restarts.
SimulationsEnd ==
  \A t \in Tests :
    ab.mem.progress[t] = "RUNNING" /\ ~faulty
    ~> ab.mem.progress[t] # "RUNNING" \/ faulty

=============================================================================
