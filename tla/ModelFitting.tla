---------------------------- MODULE ModelFitting ----------------------------
(***************************************************************************)
(* What the training task does with the labels of its two datasets and     *)
(* FraudDetectionTrainer.train_with_splits with them: the coding, the      *)
(* validation split, the correction of the imbalance, the model, and what  *)
(* turns its scores into the classes the metrics are computed from.        *)
(***************************************************************************)
EXTENDS Integers, FiniteSets

CONSTANT AnomalyTypes   \* the anomaly labels, in the order of their text
ASSUME FittingAssumption == AnomalyTypes \subseteq Nat \ {0} /\ IsFiniteSet(AnomalyTypes)

VARIABLES
  at,       \* the next step of the training, or how it ended
  coded,    \* the stage, the rows of each class in train, the classes in test
  fit,      \* how the imbalance was treated, the classes fitted and validated on
  model,    \* the estimator and how it weighs the classes
  scoring   \* the calibrator, the threshold, and the classes predicted

fittingVars == <<at, coded, fit, model, scoring>>

-----------------------------------------------------------------------------
Normal == 0
Labels == {Normal} \cup AnomalyTypes
FewRows == 0..2    \* of a class: none, one, more

Stages == {"binary", "anomaly_type"}
Strategies == {"class_weight", "smote", "undersample"}
Estimators == {"xgboost", "lightgbm", "decision_tree", "knn"}
WeightGiven == {"absent", "neutral", "weighs"}

Nothing == [set |-> FALSE]
Ends == {"done", "raised"}

FittingInit ==
  /\ at = "labels"
  /\ coded = Nothing /\ fit = Nothing /\ model = Nothing /\ scoring = Nothing

Classes == {c \in DOMAIN coded.train : coded.train[c] > 0}
TwoClasses == Cardinality(fit.classes) <= 2

-----------------------------------------------------------------------------
\* Binary: normal or not.  By type: the others, numbered among the labels that
\* train or test holds.
NumberedIn(labels, l) == Cardinality({k \in labels : k < l})

Coding(stage, train, test) ==
  LET present == {l \in AnomalyTypes : train[l] > 0} \cup (test \ {Normal})
      code(l) == IF stage = "binary" THEN (IF l = Normal THEN 0 ELSE 1) ELSE NumberedIn(present, l)
      kept == IF stage = "binary" THEN Labels ELSE present
      total(c) == {row \in kept \X (1..2) : code(row[1]) = c /\ row[2] <= train[row[1]]}
  IN [stage |-> stage,
      train |-> [c \in {code(l) : l \in kept} |-> IF Cardinality(total(c)) > 1 THEN 2 ELSE Cardinality(total(c))],
      test |-> {code(l) : l \in test \cap kept}]

CodeLabels ==
  /\ at = "labels"
  /\ \E stage \in Stages, train \in [Labels -> FewRows], test \in SUBSET Labels :
       coded' = Coding(stage, train, test)
  /\ at' = "split"
  /\ UNCHANGED <<fit, model, scoring>>

\* Stratified: each class needs two rows, and each side as many as there are
\* classes; a class of few rows may have none in the validation.
SplitTrain ==
  /\ at = "split"
  /\ \/ /\ \A c \in DOMAIN coded.train : coded.train[c] # 1
        /\ \E seen \in (SUBSET Classes) \ {{}} :
             fit' = [strategy |-> "none", classes |-> Classes, validation |-> seen, even |-> FALSE]
        /\ at' = "balance"
     \/ at' = "raised" /\ UNCHANGED fit
  /\ UNCHANGED <<coded, model, scoring>>

\* SMOTE's library is not installed: the rows stay as they are.  Undersampling
\* draws as many of class 0 as there are of class 1 and drops the others.
Balanced(strategy) ==
  IF strategy = "undersample"
  THEN [fit EXCEPT !.strategy = strategy, !.classes = {0, 1}, !.even = TRUE]
  ELSE [fit EXCEPT !.strategy = strategy]

BalanceFit ==
  /\ at = "balance"
  /\ \E strategy \in Strategies :
       IF strategy = "undersample" /\ ~({0, 1} \subseteq fit.classes)
       THEN at' = "raised" /\ UNCHANGED fit
       ELSE at' = "build" /\ fit' = Balanced(strategy)
  /\ UNCHANGED <<coded, model, scoring>>

-----------------------------------------------------------------------------
(* The model.  A job's own parameters come after those of the strategy and *)
(* replace them, but LightGBM's weight is another parameter and multiplies. *)

StrategyWeighs(estimator) ==
  /\ fit.strategy = "class_weight"
  /\ estimator # "knn" /\ (estimator = "xgboost" => TwoClasses)

Weights(estimator, given) ==
  LET strategy == IF StrategyWeighs(estimator) THEN 1 ELSE 0
      own == IF given = "weighs" THEN 1 ELSE 0
  IN CASE given = "absent" \/ estimator = "knn" -> strategy
       [] estimator = "lightgbm" -> strategy + own
       [] OTHER -> own

\* The stage is one of the parameters: only these take names they do not know.
Tolerant == {"xgboost", "lightgbm"}

\* XGBoost wants the codes to be 0, 1, ... without a gap.
Fittable(estimator) ==
  /\ coded.stage = "anomaly_type" => estimator \in Tolerant
  /\ estimator = "xgboost" => fit.classes = 0..(Cardinality(fit.classes) - 1)

FitModel ==
  /\ at = "build"
  /\ \E estimator \in Estimators, given \in WeightGiven :
       IF Fittable(estimator)
       THEN /\ model' = [estimator |-> estimator, given |-> given, weights |-> Weights(estimator, given)]
            /\ at' = "calibrate"
       ELSE at' = "raised" /\ UNCHANGED model
  /\ UNCHANGED <<coded, fit, scoring>>

-----------------------------------------------------------------------------
(* Two classes: a calibrator of the score, whose second class is the one   *)
(* it gives the probability of, and a threshold; both from the validation. *)
(* A calibrator that could not be fitted stays, unfitted.                  *)

Uncalibrated == [fitted |-> FALSE]
Largest(classes) == CHOOSE c \in classes : \A d \in classes : d <= c
Smallest(classes) == CHOOSE c \in classes : \A d \in classes : c <= d

Calibrator ==
  IF Cardinality(fit.validation) < 2 THEN Uncalibrated
  ELSE [fitted |-> TRUE, positive |-> Smallest(fit.validation \ {Smallest(fit.validation)})]

\* Mutant: the threshold is chosen before the scores are calibrated.
RawThreshold(calibrator) ==
  IF fit.validation \subseteq {0, 1} THEN "raw" ELSE "half"

\* The curve of precision and recall is one of labels 0 and 1 only.
Threshold(calibrator) ==
  IF ~(fit.validation \subseteq {0, 1}) THEN "half"
  ELSE IF calibrator.fitted THEN "calibrated" ELSE "raw"

Calibrate ==
  /\ at = "calibrate"
  /\ scoring' = IF TwoClasses
                THEN [calibrator |-> Calibrator, threshold |-> Threshold(Calibrator), predicted |-> {}]
                ELSE [calibrator |-> Nothing, threshold |-> "none", predicted |-> {}]
  /\ at' = "test"
  /\ UNCHANGED <<coded, fit, model>>

Predictable == IF TwoClasses THEN {0, 1} ELSE fit.classes

\* precision_score and its like, which take two classes for binary labels of
\* which 1 is the positive one.
MetricsRaise(predicted) ==
  LET labels == coded.test \cup predicted IN
  /\ Cardinality(coded.test) <= 2
  /\ Cardinality(labels) > 2 \/ (Cardinality(labels) = 2 /\ 1 \notin labels)

\* A test set without rows fails in some step of the pipeline, or in none.
TestModel ==
  /\ at = "test"
  /\ \/ /\ TwoClasses => scoring.calibrator.fitted
        /\ \E predicted \in SUBSET Predictable :
             /\ coded.test = {} <=> predicted = {}
             /\ scoring' = [scoring EXCEPT !.predicted = predicted]
             /\ at' = IF MetricsRaise(predicted) THEN "raised" ELSE "done"
     \/ /\ coded.test = {} \/ (TwoClasses /\ ~scoring.calibrator.fitted)
        /\ at' = "raised" /\ UNCHANGED scoring
  /\ UNCHANGED <<coded, fit, model>>

FittingNext == CodeLabels \/ SplitTrain \/ BalanceFit \/ FitModel \/ Calibrate \/ TestModel

FittingTypeOK ==
  /\ at \in {"labels", "split", "balance", "build", "calibrate", "test"} \cup Ends
  /\ coded # Nothing =>
       /\ coded.stage \in Stages /\ coded.test \subseteq DOMAIN coded.train
       /\ \A c \in DOMAIN coded.train : coded.train[c] \in FewRows
  /\ fit # Nothing => fit.validation \subseteq Classes /\ fit.classes \subseteq Classes
  /\ model # Nothing => model.weights \in 0..2
  /\ scoring # Nothing => scoring.threshold \in {"calibrated", "raw", "half", "none"}

-----------------------------------------------------------------------------
(* Properties.                                                             *)

\* A training that completes has predicted, on the test set, classes its model
\* was fitted on.  The exception: of two types whose codes are not 0 and 1,
\* because a third is only in the test set, the threshold makes 0 and 1.
PredictsTrained ==
  at = "done" =>
    \/ scoring.predicted \subseteq fit.classes
    \/ coded.stage = "anomaly_type" /\ model.estimator = "lightgbm"
       /\ Cardinality(fit.classes) <= 2 /\ fit.classes # {0, 1}

\* The threshold a training completes with is on the scale it is applied on,
\* and that scale is the probability of class 1.  The exceptions: types whose
\* validation is of other classes, where the threshold was not computed.
ThresholdFits ==
  (at = "done" /\ TwoClasses) =>
    \/ scoring.threshold = "calibrated" /\ scoring.calibrator.positive = 1
    \/ coded.stage = "anomaly_type" /\ scoring.threshold = "half" /\ ~(fit.validation \subseteq {0, 1})

\* The classes are made even once: by the strategy, or by the job's own
\* weights instead of it.  Never: SMOTE, K neighbours, more than two classes
\* with XGBoost, a neutral weight of the job.  Twice: undersampling or
\* LightGBM's balanced classes under a weight of the job.
EvenedOnce ==
  at = "done" =>
    LET times == model.weights + (IF fit.even THEN 1 ELSE 0) IN
    \/ times = 1
    \/ times = 0 /\ \/ fit.strategy = "smote" \/ model.estimator = "knn" \/ model.given = "neutral"
                    \/ model.estimator = "xgboost" /\ ~TwoClasses
    \/ times = 2 /\ model.given = "weighs" /\ (fit.even \/ model.estimator = "lightgbm")

\* What a completed training decides with is what it was fitted for: classes,
\* threshold and balance.
DecidesSoundly == PredictsTrained /\ ThresholdFits /\ EvenedOnce
=============================================================================
