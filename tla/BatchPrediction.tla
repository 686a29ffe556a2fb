--------------------------- MODULE BatchPrediction ---------------------------
(***************************************************************************)
(* The batch endpoint: predict_batch runs in a thread of its own and reads *)
(* the fields of the inference service one after another, without a lock,  *)
(* while load_model sets them in the event loop.  The thread reads and     *)
(* never writes, so one batch stands for all of them; and it reads nothing *)
(* that changes while a handler holds the loop, so that its steps are      *)
(* taken between those of the handlers.                                    *)
(***************************************************************************)
EXTENDS Inference

VARIABLE batch  \* the request: its next read, the model its rows are
                \* logged for, (history) whether the fields have stood still
                \* since it began, and the models it used while they did

NoBatch == [at |-> "idle", used |-> {}, onnx |-> FALSE, model |-> NoModel, clean |-> TRUE]

Reads == {"ready", "path", "transform", "score", "calibrate", "decide", "name"}

BatchTypeOK ==
  batch \in [at : Reads \cup {"idle", "answered", "over"},
             used : SUBSET Models, onnx : BOOLEAN, model : Models \cup {NoModel},
             clean : BOOLEAN]

BatchInit == batch = NoBatch

\* What the request used is forgotten with it.
Over == [NoBatch EXCEPT !.at = "over"]

-----------------------------------------------------------------------------
\* The handler: 400 without a model, else the thread starts.
PostBatch ==
  /\ batch.at = "idle" /\ svc.loaded # NoModel
  /\ batch' = [batch EXCEPT !.at = "ready",
                            !.clean = ~tainted /\ \A c \in Callers : ~Resetting(c)]
  /\ Spend(1)

Goes(at, used) ==
  batch' = [batch EXCEPT !.at = at,
                         !.used = IF batch.clean THEN @ \cup (used \ {NoModel}) ELSE {}]

Reading(from, to, used) == batch.at = from /\ Goes(to, used) /\ Spare

\* 500: no model is ready, the engine or the pipeline of the chosen path is
\* gone, or a field was reset between its test and its use.
BatchRaises ==
  /\ batch.at \in Reads
  /\ \/ batch.at = "ready" /\ ~Ready
     \/ /\ batch.at = "score"
        /\ svc.part[IF batch.onnx THEN "engine" ELSE "pipeline"] = NoModel
     \/ batch.at \in {"transform", "calibrate"} /\ ~batch.clean
  /\ batch' = Over /\ Spare

\* The columns are renamed after the input features of the loaded model.
ReadsColumns == Ready /\ Reading("ready", "path", {svc.loaded})

ChoosesPath ==
  /\ batch.at = "path"
  /\ batch' = [batch EXCEPT !.at = IF svc.onnx THEN "transform" ELSE "score", !.onnx = svc.onnx]
  /\ Spare

Transforms == Reading("transform", "score", {svc.part["preprocessor"]})

ScoresRows ==
  LET by == svc.part[IF batch.onnx THEN "engine" ELSE "pipeline"]
  IN by # NoModel /\ Reading("score", "calibrate", {by})

CalibratesRows == Reading("calibrate", "decide", {svc.part["calibrator"]})

\* The threshold is read again for each row.
DecidesRow == \E next \in {"decide", "name"} : Reading("decide", next, {svc.part["threshold"]})

NamesModel ==
  /\ batch.at = "name"
  /\ batch' = [batch EXCEPT !.at = "answered", !.model = svc.loaded]
  /\ Spare

\* After the answer, the rows are logged for the model it names, or the
\* insert fails and they are not.
LogsRows == batch.at = "answered" /\ batch' = Over /\ Spare

BatchStep ==
  \/ PostBatch \/ BatchRaises \/ ReadsColumns \/ ChoosesPath \/ Transforms
  \/ ScoresRows \/ CalibratesRows \/ DecidesRow \/ NamesModel \/ LogsRows

\* What the handlers do to the fields meanwhile.
BatchSees ==
  batch' = [batch EXCEPT !.clean = @ /\ (svc' = svc \/ batch.at \notin Reads)]

-----------------------------------------------------------------------------
\* The rows of a batch that no change of the fields overlapped are computed by
\* the parts of the one model they are logged for, whatever was loaded, failed
\* or was given up before.
BatchIsOfOneModel ==
  batch.at = "answered" /\ batch.clean => batch.used = {batch.model}

=============================================================================
