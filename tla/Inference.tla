------------------------------ MODULE Inference ------------------------------
(***************************************************************************)
(* The inference service: one object of the API process whose fields hold  *)
(* the loaded model.  load_model resets them and sets them again one by    *)
(* one, and awaits between: the database, and, when Azure is configured,   *)
(* one download for each artifact.  Nothing keeps two requests from        *)
(* loading at once.  turn is the coroutine that the event loop is running: *)
(* no other takes a step until it awaits or returns.                       *)
(***************************************************************************)
EXTENDS ApiProcess

CONSTANTS
  Callers, NoCaller,    \* requests and background simulations
  OnnxModels,           \* models with an ONNX file beside the pickle
  Calibrated,           \* those whose manifest announces a calibrator
  TypeModels            \* models whose training stage is "anomaly_type"

ASSUME InferenceAssumption ==
  /\ NoCaller \notin Callers
  /\ OnnxModels \subseteq Models /\ Calibrated \subseteq OnnxModels /\ TypeModels \subseteq Models

VARIABLES
  azure,    \* configuration: artifacts are downloaded; otherwise read from the local disk
  stage2,   \* the registry has a model of the second stage
  svc,      \* the service's fields
  load,     \* the load_model call of each caller
  turn,
  tainted   \* history: what is loaded was loaded while two loads overlapped

settings == <<azure, stage2>>
infVars == <<azure, stage2, svc, load, turn, tainted>>

-----------------------------------------------------------------------------
\* Each part is named after the model it came from; threshold is NoModel
\* while it is the default 0.5.  Manifest and metrics both hold a threshold,
\* as those of a trained model do.
Parts == {"engine", "pipeline", "preprocessor", "calibrator", "threshold"}

Blank == [p \in Parts |-> NoModel]

Fields == [part : [Parts -> Models \cup {NoModel}], onnx : BOOLEAN,
           loaded : Models \cup {NoModel},
           stage2 : [by : Callers \cup {NoCaller}, ready : BOOLEAN]]

\* Where a call is: it awaits the database, a download, or the second stage,
\* or it has returned.
Downloads == {"onnx", "preprocessor", "manifest", "calibrator", "pickle"}
Stages == {"idle", "select", "find stage2", "load stage2", "done", "half done", "failed"}
          \cup Downloads

Resting == [at |-> "idle", model |-> NoModel, clean |-> TRUE]

Fresh == [part |-> Blank, onnx |-> FALSE, loaded |-> NoModel,
          stage2 |-> [by |-> NoCaller, ready |-> FALSE]]

InfTypeOK ==
  /\ azure \in BOOLEAN /\ stage2 \in BOOLEAN
  /\ svc \in Fields
  /\ load \in [Callers -> [at : Stages, model : Models \cup {NoModel}, clean : BOOLEAN]]
  /\ turn \in Callers \cup {NoCaller}
  /\ tainted \in BOOLEAN

InfInit ==
  /\ azure \in BOOLEAN /\ stage2 \in BOOLEAN
  /\ svc = Fresh
  /\ load = [c \in Callers |-> Resting]
  /\ turn = NoCaller
  /\ tainted = FALSE

-----------------------------------------------------------------------------
\* A model is ready to predict.
Ready == svc.part["engine"] # NoModel \/ svc.part["pipeline"] # NoModel

\* The models whose parts a prediction uses.
Used ==
  {svc.part[p] : p \in {"calibrator", "threshold"}
                 \cup (IF svc.onnx THEN {"engine", "preprocessor"} ELSE {"pipeline"})}
  \ {NoModel}

\* Calls that await something; those of them that have reset the fields and
\* have not set them all.
Loading(c) == load[c].at \notin {"idle", "done", "half done", "failed"}
Resetting(c) == load[c].at \in Downloads
Alone(c) == \A d \in Callers \ {c} : ~Resetting(d)

Awaits(c, at) == load' = [load EXCEPT ![c].at = at] /\ turn' = NoCaller

Returns(c, at) == load' = [load EXCEPT ![c].at = at] /\ turn' = c

\* load_model(m), up to its first await: nothing to do for the loaded model.
CallLoad(c, m) ==
  LET skips == svc.loaded = m /\ Ready IN
  /\ load' = [load EXCEPT ![c] = [at |-> IF skips THEN "done" ELSE "select",
                                  model |-> m, clean |-> ~tainted /\ Alone(c)]]
  /\ turn' = IF skips THEN c ELSE NoCaller
  /\ UNCHANGED <<settings, svc, tainted>>

ResumesAt(c, at) == turn = NoCaller /\ load[c].at = at

\* Failures cost an event each.
NotFound(c) ==
  /\ ResumesAt(c, "select")
  /\ Returns(c, "failed") /\ Spend(1)
  /\ UNCHANGED <<settings, svc, tainted>>

\* Mutant: the calibrator is forgotten.
ClearedButCalibrator(s) ==
  [s EXCEPT !.part = [Blank EXCEPT !["calibrator"] = s.part["calibrator"]], !.onnx = FALSE]

\* The fields of svc after the reset: the id, the information and the second
\* stage of the earlier model stay.
Cleared(s) == [s EXCEPT !.part = Blank, !.onnx = FALSE]

\* After a reset the other callers, and this one if another is between its
\* reset and its end, no longer know what the fields hold.
Disturbed(c) ==
  [d \in Callers |->
    IF d = c THEN [load[c] EXCEPT !.clean = Alone(c)]
    ELSE [load[d] EXCEPT !.clean = @ /\ load[d].at = "idle"]]

ResetFields(c) ==
  /\ azure /\ ResumesAt(c, "select")
  /\ svc' = Cleared(svc)
  /\ load' = [Disturbed(c) EXCEPT
                ![c].at = IF load[c].model \in OnnxModels THEN "onnx" ELSE "pickle"]
  /\ turn' = NoCaller
  /\ UNCHANGED <<settings, tainted>> /\ Spare

-----------------------------------------------------------------------------
\* What follows the last artifact, with no await before it: the id is set, the
\* metrics supply the threshold if the manifest did not, and a model that is
\* not itself of the second stage looks for one.
Loaded(c, s) ==
  LET m == load[c].model IN
  /\ svc' = [s EXCEPT !.loaded = m,
                      !.part["threshold"] = IF @ = NoModel THEN m ELSE @]
  /\ tainted' = ~load'[c].clean
  /\ UNCHANGED settings

Continues(c) ==
  IF load[c].model \in TypeModels THEN Returns(c, "done") ELSE Awaits(c, "find stage2")

Holds(s) == svc' = s /\ UNCHANGED <<settings, tainted>>

\* Without an ONNX engine the pickle is tried; an engine another call has set
\* meanwhile counts as this call's.
FallsBack(c, s) ==
  IF s.onnx THEN Continues(c) /\ Loaded(c, s) ELSE Awaits(c, "pickle") /\ Holds(s)

\* s with part p of the model that c loads.
Has(c, s, p) == [s EXCEPT !.part[p] = load[c].model]

\* The engine is built, or refused.
Builds(c, s, n) ==
  \/ /\ Continues(c) /\ Loaded(c, [Has(c, s, "engine") EXCEPT !.onnx = TRUE])
     /\ Spend(n)
  \/ FallsBack(c, s) /\ Spend(n + 1)

DownloadOnnx(c) ==
  /\ ResumesAt(c, "onnx")
  /\ \/ Awaits(c, "preprocessor") /\ Holds(svc) /\ Spare
     \/ FallsBack(c, svc) /\ Spend(1)

\* A preprocessor, a manifest or a calibrator that cannot be had is skipped.
DownloadPreprocessor(c) ==
  /\ ResumesAt(c, "preprocessor")
  /\ Awaits(c, "manifest")
  /\ \/ Holds(Has(c, svc, "preprocessor")) /\ Spare
     \/ Holds(svc) /\ Spend(1)

DownloadManifest(c) ==
  /\ ResumesAt(c, "manifest")
  /\ \/ /\ load[c].model \in Calibrated
        /\ Awaits(c, "calibrator") /\ Holds(Has(c, svc, "threshold")) /\ Spare
     \/ load[c].model \notin Calibrated /\ Builds(c, Has(c, svc, "threshold"), 0)
     \/ Builds(c, svc, 1)

DownloadCalibrator(c) ==
  /\ ResumesAt(c, "calibrator")
  /\ Builds(c, Has(c, svc, "calibrator"), 0) \/ Builds(c, svc, 1)

DownloadPickle(c) ==
  /\ ResumesAt(c, "pickle")
  /\ \/ Continues(c) /\ Loaded(c, Has(c, svc, "pipeline")) /\ Spare
     \/ Returns(c, "failed") /\ Holds(svc) /\ Spend(1)

\* On a local disk the files are read without an await: all of them, the
\* pickle for want of an ONNX file or because its engine is refused after the
\* other parts are set, or not even the pickle.
LoadLocally(c) ==
  LET m == load[c].model
      parts == {p \in {"preprocessor", "threshold", "calibrator"} :
                  m \in OnnxModels /\ (p = "calibrator" => m \in Calibrated)}
      With(extra) == [Cleared(svc) EXCEPT
                        !.onnx = "engine" \in extra,
                        !.part = [p \in Parts |-> IF p \in parts \cup extra THEN m ELSE @[p]]]
      Resumes(at) ==
        load' = [Disturbed(c) EXCEPT ![c].at = at]
        /\ turn' = IF at = "find stage2" THEN NoCaller ELSE c
      next == IF m \in TypeModels THEN "done" ELSE "find stage2"
  IN
  /\ ~azure /\ ResumesAt(c, "select")
  /\ \/ m \in OnnxModels /\ Resumes(next) /\ Loaded(c, With({"engine"})) /\ Spare
     \/ /\ Resumes(next) /\ Loaded(c, With({"pipeline"}))
        /\ IF m \in OnnxModels THEN Spend(1) ELSE Spare
     \/ Resumes("failed") /\ Holds(With({})) /\ Spend(1)

\* The new second stage is in place before it is loaded.
FindStage2(c) ==
  /\ ResumesAt(c, "find stage2")
  /\ \/ ~stage2 /\ Returns(c, "done") /\ UNCHANGED svc
     \/ /\ stage2 /\ Awaits(c, "load stage2")
        /\ svc' = [svc EXCEPT !.stage2 = [by |-> c, ready |-> FALSE]]
  /\ UNCHANGED <<settings, tainted>> /\ Spare

\* The call fails with its second stage, and the model it has loaded stays.
LoadStage2(c) ==
  /\ ResumesAt(c, "load stage2")
  /\ \/ /\ Returns(c, "done") /\ Spare
        /\ svc' = IF svc.stage2.by = c THEN [svc EXCEPT !.stage2.ready = TRUE] ELSE svc
     \/ Returns(c, "half done") /\ Spend(1) /\ UNCHANGED svc
  /\ UNCHANGED <<settings, tainted>>

\* wait_for gives up: what the call has set so far stays.
CancelLoad(c) ==
  /\ turn = NoCaller /\ Loading(c)
  /\ Returns(c, "failed") /\ Spend(1)
  /\ UNCHANGED <<settings, svc, tainted>>

LoadStep(c) ==
  \/ NotFound(c) \/ ResetFields(c) \/ LoadLocally(c)
  \/ DownloadOnnx(c) \/ DownloadPreprocessor(c) \/ DownloadManifest(c)
  \/ DownloadCalibrator(c) \/ DownloadPickle(c)
  \/ FindStage2(c) \/ LoadStage2(c)

-----------------------------------------------------------------------------
(* Properties *)

\* A load that no other load overlapped leaves parts of its own model only,
\* the id among them: nothing of the model before it, and nothing of a load
\* that failed or was given up half way.
LoadIsWhole ==
  \A c \in Callers :
    load[c].at = "done" /\ load[c].clean => Used \cup {svc.loaded} = {load[c].model}

=============================================================================
