-------------------------- MODULE Hyperparameters ---------------------------
(***************************************************************************)
(* A training form, from what the catalogue of algorithms offers, through  *)
(* the checks of the API, to the model the trainer constructs or the       *)
(* combinations its search tries.  Four tables written apart from one      *)
(* another: what is offered, what is checked, what the constructors        *)
(* default to and correct, and what cannot be trained.                     *)
(***************************************************************************)
EXTENDS Integers, FiniteSets

CONSTANTS
  Tried,        \* bound: the algorithms a form may be for
  MaxChanges    \* bound: values of a form that are not the ones it opened with

VARIABLES
  form,         \* what the client has filled in
  verdict       \* of the API, then of the worker

formVars == <<form, verdict>>

-----------------------------------------------------------------------------
(* What is offered.  Numbers are in hundredths, <<default, low, high>>, a  *)
(* number between two hundredths being the nearer to the middle of its     *)
(* range; choices are text, <<default, others>>.  Only what some check     *)
(* refuses or some constructor corrects.                                   *)

Top == 10000000
Unit == <<100, 0, 100>>

XgboostNumbers ==
  [n_estimators |-> <<10000, 1000, 100000>>,
   max_depth |-> <<600, 0, 2000>>, early_stopping_rounds |-> <<0, 0, 20000>>,
   subsample |-> Unit, colsample_bytree |-> Unit, colsample_bylevel |-> Unit,
   colsample_bynode |-> Unit]
XgboostChoices ==
  [objective |-> <<"binary:logistic", {"binary:logitraw", "multi:softmax", "multi:softprob",
                                       "reg:squarederror", "rank:pairwise"}>>]

LightgbmNumbers ==
  [early_stopping_rounds |-> <<1000, 0, 20000>>,
   scale_pos_weight |-> <<100, 1, 10000>>]
LightgbmChoices == [is_unbalance |-> <<"False", {"True"}>>]

ForestNumbers ==
  [n_estimators |-> <<20000, 10000, 100000>>, ccp_alpha |-> <<0, 0, 100>>,
   max_samples |-> <<-100, -100, 1000000>>]
ForestChoices ==
  [bootstrap |-> <<"True", {"False"}>>, oob_score |-> <<"False", {"True"}>>]

LogisticNumbers ==
  [C |-> <<100, 1, 10000>>, l1_ratio |-> <<50, 0, 100>>, tol |-> <<1, 1, 1>>,
   max_iter |-> <<10000, 5000, 200000>>]
LogisticChoices ==
  [penalty |-> <<"l2", {"l1", "elasticnet", "None"}>>, dual |-> <<"False", {"True"}>>,
   solver |-> <<"lbfgs", {"liblinear", "newton-cg", "sag", "saga"}>>]

TreeNumbers ==
  [max_depth |-> <<1000, 300, 5000>>, min_samples_split |-> <<200, 200, 2000>>,
   min_samples_leaf |-> <<100, 100, 1000>>, min_weight_fraction_leaf |-> <<0, 0, 50>>,
   max_leaf_nodes |-> <<2000, 200, 50000>>, min_impurity_decrease |-> <<0, 0, 10>>]

SvmNumbers ==
  [C |-> <<100, 1, 100000>>, degree |-> <<300, 200, 500>>, tol |-> <<1, 1, 10>>,
   cache_size |-> <<20000, 10000, 200000>>, max_iter |-> <<-100, -100, 1000000>>]

NeighborsNumbers ==
  [n_neighbors |-> <<500, 100, 5000>>, leaf_size |-> <<3000, 1000, 10000>>,
   p |-> <<200, 100, 500>>, n_jobs |-> <<-100, -100, 6400>>]

BayesNumbers == [var_smoothing |-> <<1, 1, 1>>]

NetworkNumbers ==
  [hidden_layer_sizes |-> <<10000, 100, 200000>>, max_iter |-> <<20000, 1000, 500000>>,
   learning_rate_init |-> <<1, 1, 100>>, alpha |-> <<1, 0, 1000>>,
   validation_fraction |-> <<10, 1, 50>>, momentum |-> <<90, 0, 100>>,
   beta_1 |-> <<90, 0, 99>>, beta_2 |-> <<99, 0, 99>>, epsilon |-> <<1, 1, 10>>]

Algorithms ==
  {"xgboost", "lightgbm", "random_forest", "logistic_regression", "decision_tree",
   "svm", "knn", "naive_bayes", "neural_network"}
ASSUME HyperparameterAssumption == Tried \subseteq Algorithms /\ MaxChanges \in Nat

NoChoices == [x \in {} |-> <<"", {}>>]
Numbers ==
  [xgboost |-> XgboostNumbers, lightgbm |-> LightgbmNumbers, random_forest |-> ForestNumbers,
   logistic_regression |-> LogisticNumbers, decision_tree |-> TreeNumbers, svm |-> SvmNumbers,
   knn |-> NeighborsNumbers, naive_bayes |-> BayesNumbers, neural_network |-> NetworkNumbers]
ChoicesOf ==
  [a \in Algorithms |->
     CASE a = "xgboost" -> XgboostChoices [] a = "lightgbm" -> LightgbmChoices
       [] a = "random_forest" -> ForestChoices [] a = "logistic_regression" -> LogisticChoices
       [] OTHER -> NoChoices]

\* A number is given as one of the four places of its range.
Hundredths(a, name, v) ==
  CASE v = "default" -> Numbers[a][name][1] [] v = "low" -> Numbers[a][name][2]
    [] v = "high" -> Numbers[a][name][3] [] v = "zero" -> 0

OfferedNumbers(a, name) ==
  {"default", "low", "high"}
  \cup (IF Numbers[a][name][2] <= 0 /\ Numbers[a][name][3] >= 0 THEN {"zero"} ELSE {})
OfferedChoices(a, name) == {ChoicesOf[a][name][1]} \cup ChoicesOf[a][name][2]
IsNumber(a, name) == name \in DOMAIN Numbers[a]
Offered(a, name) == IF IsNumber(a, name) THEN OfferedNumbers(a, name) ELSE OfferedChoices(a, name)
Names(a) == DOMAIN Numbers[a] \cup DOMAIN ChoicesOf[a]

-----------------------------------------------------------------------------
(* The form: one value, a list of values or a range for each name given;   *)
(* the others as the catalogue has them, or left out.                      *)

Methods == {"manual", "grid", "random", "bayesian"}
NoForm == [algorithm |-> "none"]

Entry(kind, vals) == [kind |-> kind, vals |-> vals]
Default(a, name) == IF IsNumber(a, name) THEN "default" ELSE ChoicesOf[a][name][1]

Given(f, name) ==
  IF name \in DOMAIN f.changed THEN f.changed[name]
  ELSE IF f.full THEN Entry("one", {Default(f.algorithm, name)})
  ELSE Entry("absent", {})

Vals(f, name) == IF name \in Names(f.algorithm) THEN Given(f, name).vals ELSE {}
Lone(f, name, v) == Given(f, name).kind = "one" /\ v \in Given(f, name).vals
\* The values of a name, or what stands in when it is absent.
ValsOr(f, name, v) == IF Given(f, name).kind = "absent" THEN {v} ELSE Given(f, name).vals

-----------------------------------------------------------------------------
(* What is checked, of the warnings the ones that refuse a job.            *)

Fraction == <<1, 100>>
Positive == <<1, Top>>
AtLeastOne == <<100, Top>>
NotNegative == <<0, Top>>
OrAll == <<-100, Top>>

XgboostLimits ==
  [n_estimators |-> AtLeastOne, max_depth |-> AtLeastOne,
   subsample |-> Fraction, colsample_bytree |-> Fraction,
   colsample_bylevel |-> Fraction, colsample_bynode |-> Fraction]
ForestLimits == [n_estimators |-> AtLeastOne, ccp_alpha |-> NotNegative]
LogisticLimits == [C |-> Positive, tol |-> Positive, max_iter |-> AtLeastOne]
TreeLimits ==
  [max_depth |-> AtLeastOne, min_samples_split |-> Positive, min_samples_leaf |-> NotNegative,
   max_leaf_nodes |-> <<200, Top>>, min_weight_fraction_leaf |-> <<0, 50>>,
   min_impurity_decrease |-> NotNegative]
SvmLimits ==
  [C |-> Positive, degree |-> NotNegative, tol |-> Positive, cache_size |-> AtLeastOne,
   max_iter |-> OrAll]
NeighborsLimits ==
  [n_neighbors |-> AtLeastOne, leaf_size |-> AtLeastOne, p |-> AtLeastOne, n_jobs |-> OrAll]
BayesLimits == [var_smoothing |-> Positive]
NetworkLimits ==
  [hidden_layer_sizes |-> AtLeastOne, alpha |-> NotNegative, max_iter |-> AtLeastOne,
   learning_rate_init |-> Positive, momentum |-> <<0, 100>>, validation_fraction |-> <<1, 99>>,
   beta_1 |-> <<0, 99>>, beta_2 |-> <<0, 99>>, epsilon |-> Positive]

Limits ==
  [xgboost |-> XgboostLimits, lightgbm |-> [x \in {} |-> Fraction], random_forest |-> ForestLimits,
   logistic_regression |-> LogisticLimits, decision_tree |-> TreeLimits, svm |-> SvmLimits,
   knn |-> NeighborsLimits, naive_bayes |-> BayesLimits, neural_network |-> NetworkLimits]

\* No limit of the tables lets zero pass that should not: -1 means all, 0 nothing.
Within(limit, n) == limit[1] <= n /\ n <= limit[2] /\ (limit = OrAll => n # 0)

OutOfLimits(f) ==
  \E name \in DOMAIN Limits[f.algorithm] :
    \E v \in Vals(f, name) : ~Within(Limits[f.algorithm][name], Hundredths(f.algorithm, name, v))

Regressions == {"reg:squarederror", "rank:pairwise"}

\* A list of rounds is no int, so it counts as none.
XgboostConflict(f) ==
  \/ \E v \in {"low", "high", "default"} :
       Lone(f, "early_stopping_rounds", v) /\ Hundredths("xgboost", "early_stopping_rounds", v) > 0
  \/ \E v \in Regressions : Lone(f, "objective", v)

\* The weight is compared as text, and a client writes 1.0 as 1.
LightgbmConflict(f) == Lone(f, "is_unbalance", "True") /\ Given(f, "scale_pos_weight").kind # "absent"

\* -1, which the constructor takes for None, counts as a number of samples.
ForestConflict(f) ==
  /\ "False" \in Vals(f, "bootstrap")
  /\ Given(f, "max_samples").kind # "absent" \/ "True" \in Vals(f, "oob_score")

SolverPenalties ==
  [solver \in OfferedChoices("logistic_regression", "solver") |->
     CASE solver = "liblinear" -> {"l1", "l2"}
       [] solver = "saga" -> {"elasticnet", "l1", "l2", "None"}
       [] OTHER -> {"l2", "None"}]
LogisticConflict(f) ==
  \/ \E s \in ValsOr(f, "solver", "lbfgs"), p \in ValsOr(f, "penalty", "l2") : p \notin SolverPenalties[s]
  \/ "elasticnet" \in ValsOr(f, "penalty", "l2")
     /\ \E v \in Vals(f, "l1_ratio") : ~Within(<<0, 100>>, Hundredths("logistic_regression", "l1_ratio", v))

Conflict(f) ==
  CASE f.algorithm = "xgboost" -> XgboostConflict(f)
    [] f.algorithm = "lightgbm" -> LightgbmConflict(f)
    [] f.algorithm = "random_forest" -> ForestConflict(f)
    [] f.algorithm = "logistic_regression" -> LogisticConflict(f)
    [] OTHER -> FALSE

\* Between the two checkers of the API: a grid takes no ranges; a bayesian
\* range has two ends.
RangeRefused(f) ==
  \E name \in DOMAIN f.changed :
    /\ f.changed[name].kind = "range"
    /\ \/ f.method = "grid"
       \/ f.method = "bayesian" /\ Numbers[f.algorithm][name][2] = Numbers[f.algorithm][name][3]

Refused(f) == OutOfLimits(f) \/ Conflict(f) \/ RangeRefused(f)

\* Mutant: combinations of parameters are not checked.
RefusedNumbers(f) == OutOfLimits(f) \/ RangeRefused(f)

Checked(f) == Refused(f)

\* A list of objectives has no startswith.
CheckFails(f) == f.algorithm = "xgboost" /\ Given(f, "objective").kind = "list"

-----------------------------------------------------------------------------
(* What is constructed.  Manual training passes the values to the          *)
(* constructor, less the ranges, over the trainer's own defaults; a search *)
(* constructs the defaults and sets one combination after another.         *)

CreatorDefault(name) ==
  CASE name = "bootstrap" -> "True" [] name = "oob_score" -> "False" [] name = "max_samples" -> "0.8"
    [] name = "solver" -> "lbfgs" [] name = "penalty" -> "l2" [] name = "dual" -> "False"
    [] name = "is_unbalance" -> "False" [] name = "scale_pos_weight" -> "default"
    [] name = "objective" -> "binary:logistic" [] OTHER -> "unset"

\* The search spaces leave some names out, each its own.
Skipped(f, name) == f.method \in {"random", "bayesian"} /\ name = "early_stopping_rounds"

Takes(f, name) ==
  LET g == Given(f, name) IN
  IF g.kind = "absent" \/ Skipped(f, name) \/ (f.method = "manual" /\ g.kind = "range")
  THEN {CreatorDefault(name)} ELSE g.vals

Rounds(f) ==
  {v \in Takes(f, "early_stopping_rounds") :
     v # "unset" /\ Hundredths(f.algorithm, "early_stopping_rounds", v) > 0}

Multiclass == {"multi:softmax", "multi:softprob"}

\* Early stopping has no evaluation set inside a pipeline, and an objective for
\* more classes has no number of them; a constructor drops the one and replaces
\* the other, a search does neither.  Bound: the labels have two classes.
XgboostUntrainable(f) ==
  f.method # "manual" /\ (Rounds(f) # {} \/ Takes(f, "objective") \cap Multiclass # {})

\* A constructor drops the weight of an unbalanced model; a search does not.
LightgbmUntrainable(f) ==
  /\ f.method # "manual"
  /\ \/ Rounds(f) # {}
     \/ /\ "True" \in Takes(f, "is_unbalance")
        /\ \E v \in Takes(f, "scale_pos_weight") : Hundredths("lightgbm", "scale_pos_weight", v) # 100

\* -1 is None to the constructor and to the model itself.
ForestUntrainable(f) ==
  /\ "False" \in Takes(f, "bootstrap")
  /\ \/ "True" \in Takes(f, "oob_score")
     \/ \E v \in Takes(f, "max_samples") :
          v = "0.8" \/ Hundredths("random_forest", "max_samples", v) # -100

\* A constructor completes an elastic net; a search does not.
LogisticUntrainable(f) ==
  \E s \in Takes(f, "solver"), p \in Takes(f, "penalty") :
    \/ p \notin SolverPenalties[s]
    \/ "True" \in Takes(f, "dual") /\ (s # "liblinear" \/ p # "l2")
    \/ p = "elasticnet" /\ f.method # "manual" /\ Given(f, "l1_ratio").kind = "absent"

Untrainable(f) ==
  CASE f.algorithm = "xgboost" -> XgboostUntrainable(f)
    [] f.algorithm = "lightgbm" -> LightgbmUntrainable(f)
    [] f.algorithm = "random_forest" -> ForestUntrainable(f)
    [] f.algorithm = "logistic_regression" -> LogisticUntrainable(f)
    [] OTHER -> FALSE

-----------------------------------------------------------------------------
FormInit == form = NoForm /\ verdict = "none"

\* A client starts from the catalogue's defaults or from nothing.
OpenForm ==
  /\ form = NoForm
  /\ \E a \in Tried, method \in Methods, full \in BOOLEAN :
       form' = [algorithm |-> a, method |-> method, full |-> full,
                changed |-> [x \in {} |-> Entry("absent", {})]]
  /\ UNCHANGED verdict

\* The names a check or a constructor relates to another one.
Related ==
  {"early_stopping_rounds", "objective", "is_unbalance", "scale_pos_weight", "bootstrap",
   "max_samples", "oob_score", "solver", "penalty", "dual", "l1_ratio"}

Entries(f, name) ==
  {Entry("one", {v}) : v \in Offered(f.algorithm, name)}
  \cup (IF f.method = "manual" THEN {} ELSE
          {Entry("list", s) : s \in {s \in SUBSET Offered(f.algorithm, name) : Cardinality(s) = 2}})
  \cup (IF IsNumber(f.algorithm, name) THEN {Entry("range", {"low", "high"})} ELSE {})

ChangeValue ==
  /\ form # NoForm /\ verdict = "none"
  /\ Cardinality(DOMAIN form.changed) < MaxChanges
  /\ \E name \in Names(form.algorithm) \ DOMAIN form.changed :
       /\ DOMAIN form.changed \cup {name} \subseteq Related \/ form.changed = [x \in {} |-> Entry("absent", {})]
       /\ \E e \in Entries(form, name) :
            form' = [form EXCEPT !.changed = [n \in DOMAIN @ \cup {name} |-> IF n = name THEN e ELSE @[n]]]
  /\ UNCHANGED verdict

\* A form without a single value gets the catalogue's.
SubmitForm ==
  /\ form # NoForm /\ verdict = "none"
  /\ LET f == [form EXCEPT !.full = @ \/ form.changed = [x \in {} |-> Entry("absent", {})]] IN
     /\ form' = f
     /\ verdict' = IF CheckFails(f) THEN "error" ELSE IF Checked(f) THEN "refused" ELSE "queued"

\* The worker builds the pipeline and tunes it: what cannot be trained raises.
BuildModel ==
  /\ verdict = "queued"
  /\ verdict' = IF Untrainable(form) THEN "raised" ELSE "trained"
  /\ UNCHANGED form

FormNext == OpenForm \/ ChangeValue \/ SubmitForm \/ BuildModel

FormTypeOK ==
  /\ verdict \in {"none", "error", "refused", "queued", "raised", "trained"}
  /\ form # NoForm =>
       /\ form.algorithm \in Tried /\ form.method \in Methods /\ form.full \in BOOLEAN
       /\ \A name \in DOMAIN form.changed :
            form.changed[name].vals \subseteq Offered(form.algorithm, name)

-----------------------------------------------------------------------------
(* Properties.                                                             *)

\* What the API queues does not raise for a reason the source itself knows of.
\* The exceptions it has: a forest without bootstrap and without max_samples,
\* which the trainer's own 0.8 breaks; dual, which is only warned of; rounds
\* and unbalance, whose checks do not see lists and whose corrections a search
\* goes around; an elastic net whose ratio only the constructor completes; an
\* objective for more classes, which only the constructor replaces.
QueuedTrains ==
  verdict = "raised" =>
    \/ form.algorithm = "random_forest" /\ Given(form, "max_samples").kind = "absent"
    \/ form.algorithm = "logistic_regression" /\ "True" \in Takes(form, "dual")
    \/ form.algorithm = "logistic_regression" /\ form.method # "manual"
       /\ "elasticnet" \in Takes(form, "penalty") /\ Given(form, "l1_ratio").kind = "absent"
    \/ form.algorithm = "lightgbm" /\ form.method = "grid"
       /\ Given(form, "early_stopping_rounds").kind # "absent"
    \/ form.algorithm = "lightgbm" /\ form.method # "manual" /\ Given(form, "is_unbalance").kind = "list"
    \/ form.algorithm = "xgboost" /\ form.method = "grid"
       /\ Given(form, "early_stopping_rounds").kind \in {"list", "range"}
    \/ form.algorithm = "xgboost" /\ form.method # "manual"
       /\ \E v \in Multiclass : Lone(form, "objective", v)

\* What the catalogue offers can be submitted: a form that changes one default
\* to one offered value is queued.  The exceptions: the ends of ranges whose
\* limits leave them out, zero where -1 means all, XGBoost's early stopping and
\* regression objectives, and a second parameter that would have to follow.
OfferedIsQueued ==
  (verdict = "refused" /\ form.full /\ Cardinality(DOMAIN form.changed) = 1) =>
    \E name \in DOMAIN form.changed : \E v \in form.changed[name].vals :
      \/ form.algorithm = "xgboost"
         /\ name \in {"max_depth", "subsample", "colsample_bytree",
                      "colsample_bylevel", "colsample_bynode"} /\ v \in {"low", "zero"}
      \/ form.algorithm = "xgboost" /\ name = "early_stopping_rounds" /\ v = "high"
      \/ form.algorithm = "xgboost" /\ name = "objective" /\ v \in Regressions
      \/ <<form.algorithm, name>> \in {<<"svm", "max_iter">>, <<"knn", "n_jobs">>} /\ v = "zero"
      \/ <<form.algorithm, name>> \in {<<"random_forest", "bootstrap">>, <<"lightgbm", "is_unbalance">>,
                                       <<"logistic_regression", "solver">>, <<"logistic_regression", "penalty">>}
      \/ form.changed[name].kind = "range" /\ RangeRefused(form)

\* Both ways: the checks of the API stop what cannot be trained, and not what
\* the catalogue offers.
ChecksAgree == QueuedTrains /\ OfferedIsQueued
=============================================================================
